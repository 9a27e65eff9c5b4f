------------------------- MODULE ProfileEditingProofs -------------------------
(* Proofs about ProfileEditing, for every number of devices, accounts,        *)
(* documents, texts, pictures and projects and for every queue bound.         *)
EXTENDS MCProfileHistory, FirestoreProofs

-----------------------------------------------------------------------------
(* Type correctness                                                          *)

LEMMA PlaceholderType == PlaceholderProfile \in Profile
BY BlankDocType, ProfileAssumption DEF PlaceholderProfile, Profile

\* Editing a draft changes neither its email nor its picture.
LEMMA EditedType ==
  ASSUME NEW draft \in Profile, NEW text \in Text, NEW projects \in SUBSET Project
  PROVE  /\ Edited(draft, text, projects) \in Profile
         /\ Edited(draft, text, projects).email = draft.email
BY DEF Edited, Profile, Doc

\* The write of a save, and of a callback's URL.
LEMMA SaveType ==
  ASSUME FirestoreTypeOK, NEW d \in Device, NEW profile \in Profile,
         updateProfile(d, profile),
         UNCHANGED <<server, user, delivered, observed, cache>>
  PROVE  FirestoreTypeOK'
<1>1. SetDoc(profile.email, profile.doc) \in Mutation
  BY MutationTypes DEF Profile
<1>2. <<SetDoc(profile.email, profile.doc)>> \in Seq(Mutation)
  BY <1>1
<1>3. QED
  BY <1>2, WriteLocallyType DEF updateProfile

LEMMA getUserProfileType ==
  ASSUME TypeOK, NEW d \in Device, user[d] # NoUser
  PROVE  getUserProfile(d) \in Profile
BY ProfileAssumption
   DEF getUserProfile, TypeOK, FirestoreTypeOK, Profile, Credential

LEMMA InitType == Init => TypeOK
<1> SUFFICES ASSUME Init PROVE TypeOK
  OBVIOUS
<1>1. FirestoreTypeOK
  <2>1. \A d \in Device : Pending(d) = <<>>
    BY DEF Init, Pending, Credential
  <2>2. QED
    BY <2>1, BlankDocType, FirestoreAssumption
       DEF Init, FirestoreTypeOK, Credential, MaybeDoc
<1>2. QED
  BY <1>1, PlaceholderType, FirestoreAssumption, ProfileAssumption
     DEF Init, TypeOK, MaybeDoc

LEMMA SelectionType == \A participants \in Selection : participants \in Seq(Path)
<1> SUFFICES ASSUME NEW participants \in Selection PROVE participants \in Seq(Path)
  OBVIOUS
<1>1. PICK n \in 1..MaxParticipants : participants \in [1..n -> Path]
  BY DEF Selection
<1>2. n \in Nat
  BY <1>1, ProfileAssumption
<1> QED
  BY <1>1, <1>2

\* Steps of the users.
LEMMA UserStepType ==
  ASSUME TypeOK, NEW d \in Device, UserStep(d)
  PROVE  TypeOK'
<1> USE DEF TypeOK, appVars, storageVars
<1>1. ASSUME NEW u \in User, SignIn(d, u) PROVE TypeOK'
  <2>1. FirestoreTypeOK'
    BY <1>1, ChangeCredentialType DEF SignIn, Credential, FirestoreTypeOK
  <2>2. QED
    BY <1>1, <2>1 DEF SignIn
<1>2. ASSUME SignOut(d) PROVE TypeOK'
  <2>1. FirestoreTypeOK'
    BY <1>2, ChangeCredentialType DEF SignOut, Credential, FirestoreTypeOK
  <2>2. QED
    BY <1>2, <2>1 DEF SignOut
<1>3. ASSUME OpenMyProfile(d) PROVE TypeOK'
  <2>1. FirestoreTypeOK'
    BY <1>3 DEF OpenMyProfile, firestoreVars, FirestoreTypeOK, Pending
  <2>2. getUserProfile(d) \in Profile
    BY <1>3, getUserProfileType DEF OpenMyProfile
  <2>3. QED
    BY <1>3, <2>1, <2>2 DEF OpenMyProfile
<1>4. ASSUME Cancel(d) PROVE TypeOK'
  BY <1>4 DEF Cancel, firestoreVars, FirestoreTypeOK, Pending
<1>5. ASSUME NEW text \in Text, NEW projects \in SUBSET Project,
             Done(d, text, projects)
      PROVE  TypeOK'
  <2>1. Edited(form[d], text, projects) \in Profile
    BY <1>5, EditedType DEF Done
  <2>2. FirestoreTypeOK'
    BY <1>5, <2>1, SaveType DEF Done
  <2>3. QED
    BY <1>5, <2>2 DEF Done
<1>6. ASSUME NEW text \in Text, NEW projects \in SUBSET Project,
             NEW image \in Picture, DoneWithPicture(d, text, projects, image)
      PROVE  TypeOK'
  <2>1. form[d] \in Profile /\ Edited(form[d], text, projects) \in Profile
    BY <1>6, EditedType DEF DoneWithPicture
  <2>2. FirestoreTypeOK'
    BY <1>6, <2>1, SaveType DEF DoneWithPicture
  <2>3. uploads' \in [Device -> SUBSET Upload]
    <3> DEFINE up == [profile |-> Edited(form[d], text, projects),
                      image |-> image, stored |-> FALSE]
    <3>1. up \in Upload
      BY <2>1 DEF Upload
    <3>2. uploads' = [uploads EXCEPT ![d] = @ \cup {up}]
      BY <1>6 DEF DoneWithPicture
    <3>3. QED
      BY <3>1, <3>2
  <2>4. owner' \in [Picture -> Path \cup {NoOwner}]
    BY <1>6, <2>1 DEF DoneWithPicture, Profile
  <2>5. QED
    BY <1>6, <2>2, <2>3, <2>4 DEF DoneWithPicture
<1>7. ASSUME NEW participants \in Selection, NEW project \in Project,
             setParticipants(d, participants, project)
      PROVE  TypeOK'
  <2> DEFINE ms == [i \in 1..Len(participants) |->
                      UnionProject(participants[i], project)]
  <2>1. participants \in Seq(Path)
    BY SelectionType
  <2>2. ms \in Seq(Mutation)
    BY <2>1, MutationTypes
  <2>3. FirestoreTypeOK'
    BY <1>7, <2>2, WriteLocallyType DEF setParticipants
  <2>4. QED
    BY <1>7, <2>3 DEF setParticipants
<1>8. QED
  BY <1>1, <1>2, <1>3, <1>4, <1>5, <1>6, <1>7 DEF UserStep

\* Mishaps.
LEMMA MishapType ==
  ASSUME TypeOK, NEW d \in Device, Mishap(d)
  PROVE  TypeOK'
<1> USE DEF TypeOK, appVars, storageVars
<1>1. ASSUME Restart(d) PROVE TypeOK'
  <2>1. FirestoreTypeOK'
    BY <1>1, StreamClosedType DEF Restart
  <2>2. QED
    BY <1>1, <2>1, PlaceholderType DEF Restart, MaybeDoc
<1>2. ASSUME NEW up \in uploads[d], UploadFailed(d, up) PROVE TypeOK'
  BY <1>2 DEF UploadFailed, firestoreVars, FirestoreTypeOK, Pending
<1>3. ASSUME Network(BreakStream(d)) PROVE TypeOK'
  <2>1. FirestoreTypeOK'
    BY <1>3, StreamClosedType DEF Network, BreakStream
  <2>2. QED
    BY <1>3, <2>1 DEF Network
<1>4. QED
  BY <1>1, <1>2, <1>3 DEF Mishap

\* Steps of the libraries and services.
LEMMA SystemStepType ==
  ASSUME TypeOK, NEW d \in Device, SystemStep(d)
  PROVE  TypeOK'
<1> USE DEF TypeOK, appVars, storageVars
<1>1. ASSUME Snapshot(d) PROVE TypeOK'
  BY <1>1 DEF Snapshot, MaybeDoc, firestoreVars, FirestoreTypeOK, Pending
<1>2. ASSUME NEW up \in uploads[d], StoreImage(d, up) PROVE TypeOK'
  <2>1. up \in Upload
    OBVIOUS
  <2>2. FirestoreTypeOK'
    BY <1>2 DEF StoreImage, firestoreVars, FirestoreTypeOK, Pending
  <2>3. uploads' \in [Device -> SUBSET Upload]
    <3> DEFINE stored == [up EXCEPT !.stored = TRUE]
    <3>1. stored \in Upload
      BY <2>1 DEF Upload
    <3>2. uploads' = [uploads EXCEPT ![d] = (@ \ {up}) \cup {stored}]
      BY <1>2 DEF StoreImage
    <3>3. QED
      BY <3>1, <3>2
  <2>4. object' \in [Path -> Picture]
    BY <1>2, <2>1 DEF StoreImage, Upload, Profile
  <2>5. QED
    BY <1>2, <2>2, <2>3, <2>4 DEF StoreImage
<1>3. ASSUME NEW up \in uploads[d], UploadSucceeded(d, up) PROVE TypeOK'
  <2>1. up.profile \in Profile /\ up.profile.email \in Path /\ up.image \in Picture
    BY DEF Upload, Profile
  <2>2. FirestoreTypeOK'
    BY <1>3, <2>1, SaveType DEF UploadSucceeded
  <2>3. [email |-> up.profile.email, image |-> up.image, reply |-> NoUrl] \in UrlCall
    BY <2>1 DEF UrlCall
  <2>4. QED
    BY <1>3, <2>2, <2>3 DEF UploadSucceeded
<1>4. ASSUME NEW call \in urlCalls[d], AnswerUrl(d, call) PROVE TypeOK'
  <2>1. call \in UrlCall
    OBVIOUS
  <2>2. [call EXCEPT !.reply = object[call.email]] \in UrlCall
    BY <2>1 DEF UrlCall
  <2>3. FirestoreTypeOK'
    BY <1>4 DEF AnswerUrl, firestoreVars, FirestoreTypeOK, Pending
  <2>4. QED
    BY <1>4, <2>2, <2>3 DEF AnswerUrl
<1>5. ASSUME NEW call \in urlCalls[d], UrlReceived(d, call) PROVE TypeOK'
  <2>1. <<UpdatePicture(call.email, call.reply)>> \in Seq(Mutation)
    <3>1. UpdatePicture(call.email, call.reply) \in Mutation
      BY <1>5, MutationTypes DEF UrlReceived, UrlCall
    <3>2. QED
      BY <3>1
  <2>2. FirestoreTypeOK'
    BY <1>5, <2>1, WriteLocallyType DEF UrlReceived
  <2>3. QED
    BY <1>5, <2>2 DEF UrlReceived
<1>6. ASSUME Network(Deliver(d) \/ Ack(d) \/ Reject(d) \/ (listening[d] /\ Watch(d))) PROVE TypeOK'
  <2>1. FirestoreTypeOK'
    BY <1>6, DeliverType, AckType, RejectType, WatchType DEF Network
  <2>2. QED
    BY <1>6, <2>1 DEF Network
<1>7. QED
  BY <1>1, <1>2, <1>3, <1>4, <1>5, <1>6 DEF SystemStep

LEMMA StutterType == TypeOK /\ UNCHANGED vars => TypeOK'
BY DEF TypeOK, FirestoreTypeOK, Pending, vars, firestoreVars, appVars, storageVars

\* Every variable always has its type; in particular the server has never
\* applied more of a queue than there is.
THEOREM TypeCorrect == Spec => []TypeOK
<1>1. TypeOK /\ [Next]_vars => TypeOK'
  BY UserStepType, MishapType, SystemStepType, StutterType DEF Next
<1>2. QED
  BY InitType, <1>1, PTL DEF Spec

-----------------------------------------------------------------------------
(* A device saves only the profiles of its own accounts.                     *)

\* The part of SavesStayOnDevice that is about the queues.
QueuesStay ==
  \A d \in Device, u \in Credential : \A i \in 1..Len(queue[d][u]) :
    queue[d][u][i].op # "join" => queue[d][u][i].path \in Editable(d)

\* The part that is about views and callbacks.
DraftsStay ==
  \A d \in Device :
    /\ user[d] # NoUser => user[d] \in visited[d]
    /\ shown[d].email \in Editable(d)
    /\ form[d] # NoForm => form[d].email \in Editable(d)
    /\ \A up \in uploads[d] : up.profile.email \in Editable(d)
    /\ \A call \in urlCalls[d] : call.email \in Editable(d)

LEMMA SavesStayParts ==
  /\ SavesStayOnDevice <=> QueuesStay /\ DraftsStay
  /\ SavesStayOnDevice' <=> QueuesStay' /\ DraftsStay'
BY DEF SavesStayOnDevice, QueuesStay, DraftsStay

\* A write keeps QueuesStay when its mutations are joins or for a profile that
\* may be edited on the device.
LEMMA WriteStays ==
  ASSUME FirestoreTypeOK, QueuesStay, visited' = visited,
         NEW d \in Device, NEW ms \in Seq(Mutation), WriteLocally(d, ms),
         \A i \in 1..Len(ms) : ms[i].op # "join" => ms[i].path \in Editable(d)
  PROVE  QueuesStay'
<1> SUFFICES ASSUME NEW c \in Device, NEW u \in Credential,
                    NEW i \in 1..Len(queue'[c][u]), queue'[c][u][i].op # "join"
             PROVE  queue'[c][u][i].path \in Editable(c)
  BY DEF QueuesStay, Editable
<1>1. /\ queue'[d][user[d]] = Pending(d) \o ms
      /\ c # d \/ u # user[d] => queue'[c][u] = queue[c][u]
  BY WriteLocallyQueue
<1>2. CASE c # d \/ u # user[d]
  BY <1>1, <1>2 DEF QueuesStay
<1>3. CASE c = d /\ u = user[d]
  <2>1. Pending(d) \in Seq(Mutation) /\ Pending(d) = queue[d][user[d]]
    BY PendingType
  <2>2. CASE i <= Len(Pending(d))
    <3>1. queue'[c][u][i] = Pending(d)[i] /\ i \in 1..Len(Pending(d))
      BY <1>1, <1>3, <2>1, <2>2
    <3>2. QED
      BY <1>3, <2>1, <3>1 DEF QueuesStay
  <2>3. CASE i > Len(Pending(d))
    <3> DEFINE old == Pending(d)
    <3>1. old \in Seq(Mutation) /\ i \in 1..Len(old \o ms) /\ i > Len(old)
      BY <1>1, <1>3, <2>1, <2>3
    <3> HIDE DEF old
    <3>2. Len(old \o ms) = Len(old) + Len(ms) /\ Len(old) \in Nat
      BY <3>1
    <3>3. i - Len(old) \in 1..Len(ms) /\ (old \o ms)[i] = ms[i - Len(old)]
      BY <3>1, <3>2
    <3>4. queue'[c][u][i] = ms[i - Len(old)]
      BY <1>1, <1>3, <3>3 DEF old
    <3>5. QED
      BY <1>3, <3>3, <3>4
  <2>4. QED
    BY <2>1, <2>2, <2>3
<1>4. QED
  BY <1>2, <1>3

\* Dropping the head of a queue keeps QueuesStay.
LEMMA PopStays ==
  ASSUME FirestoreTypeOK, QueuesStay, visited' = visited,
         NEW d \in Device, Pending(d) # <<>>,
         queue' = [queue EXCEPT ![d][user[d]] = Tail(Pending(d))]
  PROVE  QueuesStay'
<1> SUFFICES ASSUME NEW c \in Device, NEW u \in Credential,
                    NEW i \in 1..Len(queue'[c][u]), queue'[c][u][i].op # "join"
             PROVE  queue'[c][u][i].path \in Editable(c)
  BY DEF QueuesStay, Editable
<1>1. Pending(d) \in Seq(Mutation) /\ Pending(d) = queue[d][user[d]]
      /\ user[d] \in Credential
  BY PendingType
<1>2. CASE c # d \/ u # user[d]
  BY <1>1, <1>2 DEF QueuesStay, FirestoreTypeOK
<1>3. CASE c = d /\ u = user[d]
  <2>1. queue'[c][u] = Tail(Pending(d))
    BY <1>1, <1>3 DEF FirestoreTypeOK
  <2>2. i + 1 \in 1..Len(Pending(d)) /\ queue'[c][u][i] = Pending(d)[i + 1]
    <3> DEFINE old == Pending(d)
    <3>1. old \in Seq(Mutation) /\ old # <<>> /\ i \in 1..Len(Tail(old))
      BY <1>1, <2>1
    <3> HIDE DEF old
    <3>2. Len(Tail(old)) = Len(old) - 1 /\ Len(old) \in Nat
      BY <3>1
    <3>3. i + 1 \in 1..Len(old) /\ Tail(old)[i] = old[i + 1]
      BY <3>1, <3>2
    <3>4. QED
      BY <2>1, <3>3 DEF old
  <2>3. QED
    BY <1>1, <1>3, <2>2 DEF QueuesStay
<1>4. QED
  BY <1>2, <1>3

\* Leaving the queues alone keeps QueuesStay, as more accounts visit.
LEMMA QueuesUnchangedStay ==
  ASSUME QueuesStay, queue' = queue,
         \A c \in Device : visited[c] \subseteq visited'[c]
  PROVE  QueuesStay'
BY DEF QueuesStay, Editable

LEMMA SaveStays ==
  ASSUME FirestoreTypeOK, QueuesStay, visited' = visited,
         NEW d \in Device, NEW profile \in Profile,
         updateProfile(d, profile), profile.email \in Editable(d)
  PROVE  QueuesStay'
<1> DEFINE m == SetDoc(profile.email, profile.doc)
<1>1. m \in Mutation /\ m.path = profile.email
  BY MutationTypes DEF Profile, SetDoc
<1> HIDE DEF m
<1>2. <<m>> \in Seq(Mutation)
      /\ \A i \in 1..Len(<<m>>) : <<m>>[i].path \in Editable(d)
  BY <1>1
<1>3. WriteLocally(d, <<m>>)
  BY DEF updateProfile, m
<1>4. QED
  BY <1>2, <1>3, WriteStays

LEMMA InitStays == Init => SavesStayOnDevice
BY ProfileAssumption
   DEF Init, SavesStayOnDevice, Editable, PlaceholderProfile, Credential

LEMMA UserStepStays ==
  ASSUME TypeOK, SavesStayOnDevice, NEW d \in Device, UserStep(d)
  PROVE  SavesStayOnDevice'
<1> USE SavesStayParts DEF appVars, storageVars
<1>0. FirestoreTypeOK /\ QueuesStay /\ DraftsStay
  BY DEF TypeOK
<1>1. ASSUME NEW u \in User, SignIn(d, u) PROVE SavesStayOnDevice'
  <2>1. visited'[d] = visited[d] \cup {u}
        /\ \A c \in Device : visited[c] \subseteq visited'[c]
    BY <1>1 DEF SignIn, TypeOK
  <2>2. QueuesStay'
    BY <1>0, <1>1, <2>1, QueuesUnchangedStay DEF SignIn
  <2>3. DraftsStay'
    BY <1>0, <1>1, <2>1
       DEF SignIn, ChangeCredential, DraftsStay, Editable, FirestoreTypeOK
  <2>4. QED
    BY <2>2, <2>3
<1>2. ASSUME SignOut(d) PROVE SavesStayOnDevice'
  <2>1. QueuesStay'
    BY <1>0, <1>2, QueuesUnchangedStay DEF SignOut
  <2>2. DraftsStay'
    BY <1>0, <1>2
       DEF SignOut, ChangeCredential, DraftsStay, Editable, FirestoreTypeOK
  <2>3. QED
    BY <2>1, <2>2
<1>3. ASSUME OpenMyProfile(d) PROVE SavesStayOnDevice'
  <2>1. QueuesStay'
    BY <1>0, <1>3, QueuesUnchangedStay DEF OpenMyProfile, firestoreVars
  <2>2. getUserProfile(d).email \in Editable(d)
    BY <1>0, <1>3 DEF OpenMyProfile, getUserProfile, DraftsStay, Editable
  <2>3. DraftsStay'
    BY <1>0, <1>3, <2>2
       DEF OpenMyProfile, firestoreVars, DraftsStay, Editable, TypeOK
  <2>4. QED
    BY <2>1, <2>3
<1>4. ASSUME Cancel(d) PROVE SavesStayOnDevice'
  <2>1. QueuesStay'
    BY <1>0, <1>4, QueuesUnchangedStay DEF Cancel, firestoreVars
  <2>2. DraftsStay'
    BY <1>0, <1>4 DEF Cancel, firestoreVars, DraftsStay, Editable, TypeOK
  <2>3. QED
    BY <2>1, <2>2
<1>5. ASSUME NEW text \in Text, NEW projects \in SUBSET Project,
             Done(d, text, projects)
      PROVE  SavesStayOnDevice'
  <2>1. /\ Edited(form[d], text, projects) \in Profile
        /\ Edited(form[d], text, projects).email = form[d].email
    BY <1>5, EditedType DEF Done, TypeOK
  <2>2. QueuesStay'
    BY <1>0, <1>5, <2>1, SaveStays DEF Done, DraftsStay
  <2>3. DraftsStay'
    BY <1>0, <1>5 DEF Done, DraftsStay, Editable, TypeOK
  <2>4. QED
    BY <2>2, <2>3
<1>6. ASSUME NEW text \in Text, NEW projects \in SUBSET Project,
             NEW image \in Picture, DoneWithPicture(d, text, projects, image)
      PROVE  SavesStayOnDevice'
  <2> DEFINE up == [profile |-> Edited(form[d], text, projects),
                    image |-> image, stored |-> FALSE]
  <2>1. /\ Edited(form[d], text, projects) \in Profile
        /\ Edited(form[d], text, projects).email = form[d].email
    BY <1>6, EditedType DEF DoneWithPicture, TypeOK
  <2>2. QueuesStay'
    BY <1>0, <1>6, <2>1, SaveStays DEF DoneWithPicture, DraftsStay
  <2>3. up.profile.email \in Editable(d)
    BY <1>0, <1>6, <2>1 DEF DoneWithPicture, DraftsStay
  <2>4. uploads' = [uploads EXCEPT ![d] = @ \cup {up}]
    BY <1>6 DEF DoneWithPicture
  <2>5. DraftsStay'
    <3> HIDE DEF up
    <3>1. QED
      BY <1>0, <1>6, <2>3, <2>4 DEF DoneWithPicture, DraftsStay, Editable, TypeOK
  <2>6. QED
    BY <2>2, <2>5
<1>7. ASSUME NEW participants \in Selection, NEW project \in Project,
             setParticipants(d, participants, project)
      PROVE  SavesStayOnDevice'
  <2> DEFINE ms == [i \in 1..Len(participants) |->
                      UnionProject(participants[i], project)]
  <2>1. participants \in Seq(Path)
    BY SelectionType
  <2>2. ms \in Seq(Mutation)
    BY <2>1, MutationTypes
  <2>3. \A i \in 1..Len(ms) : ms[i].op = "join"
    BY <2>1 DEF UnionProject
  <2>4. QueuesStay'
    BY <1>0, <1>7, <2>2, <2>3, WriteStays DEF setParticipants
  <2>5. DraftsStay'
    BY <1>0, <1>7 DEF setParticipants, DraftsStay, Editable
  <2>6. QED
    BY <2>4, <2>5
<1>8. QED
  BY <1>1, <1>2, <1>3, <1>4, <1>5, <1>6, <1>7 DEF UserStep

LEMMA MishapStays ==
  ASSUME TypeOK, SavesStayOnDevice, NEW d \in Device, Mishap(d)
  PROVE  SavesStayOnDevice'
<1> USE SavesStayParts DEF appVars, storageVars
<1>0. FirestoreTypeOK /\ QueuesStay /\ DraftsStay
  BY DEF TypeOK
<1>1. ASSUME Restart(d) PROVE SavesStayOnDevice'
  <2>1. QueuesStay'
    BY <1>0, <1>1, QueuesUnchangedStay DEF Restart
  <2>2. DraftsStay'
    BY <1>0, <1>1 DEF Restart, DraftsStay, Editable, TypeOK, PlaceholderProfile
  <2>3. QED
    BY <2>1, <2>2
<1>2. ASSUME NEW up \in uploads[d], UploadFailed(d, up) PROVE SavesStayOnDevice'
  <2>1. QueuesStay'
    BY <1>0, <1>2, QueuesUnchangedStay DEF UploadFailed, firestoreVars
  <2>2. DraftsStay'
    BY <1>0, <1>2 DEF UploadFailed, firestoreVars, DraftsStay, Editable, TypeOK
  <2>3. QED
    BY <2>1, <2>2
<1>3. ASSUME Network(BreakStream(d)) PROVE SavesStayOnDevice'
  <2>1. QueuesStay'
    BY <1>0, <1>3, QueuesUnchangedStay DEF Network, BreakStream
  <2>2. DraftsStay'
    BY <1>0, <1>3 DEF Network, BreakStream, DraftsStay, Editable
  <2>3. QED
    BY <2>1, <2>2
<1>4. QED
  BY <1>1, <1>2, <1>3 DEF Mishap

LEMMA SystemStepStays ==
  ASSUME TypeOK, SavesStayOnDevice, NEW d \in Device, SystemStep(d)
  PROVE  SavesStayOnDevice'
<1> USE SavesStayParts DEF appVars, storageVars
<1>0. FirestoreTypeOK /\ QueuesStay /\ DraftsStay
  BY DEF TypeOK
<1>1. ASSUME Snapshot(d) PROVE SavesStayOnDevice'
  <2>1. QueuesStay'
    BY <1>0, <1>1, QueuesUnchangedStay DEF Snapshot, firestoreVars
  <2>2. DraftsStay'
    BY <1>0, <1>1 DEF Snapshot, firestoreVars, DraftsStay, Editable
  <2>3. QED
    BY <2>1, <2>2
<1>2. ASSUME NEW up \in uploads[d], StoreImage(d, up) PROVE SavesStayOnDevice'
  <2> DEFINE stored == [up EXCEPT !.stored = TRUE]
  <2>1. QueuesStay'
    BY <1>0, <1>2, QueuesUnchangedStay DEF StoreImage, firestoreVars
  <2>2. stored.profile.email \in Editable(d)
    BY <1>0 DEF DraftsStay, TypeOK, Upload
  <2>3. uploads' = [uploads EXCEPT ![d] = (@ \ {up}) \cup {stored}]
    BY <1>2 DEF StoreImage
  <2>4. DraftsStay'
    <3> HIDE DEF stored
    <3>1. QED
      BY <1>0, <1>2, <2>2, <2>3
         DEF StoreImage, firestoreVars, DraftsStay, Editable, TypeOK
  <2>5. QED
    BY <2>1, <2>4
<1>3. ASSUME NEW up \in uploads[d], UploadSucceeded(d, up)
      PROVE  SavesStayOnDevice'
  <2> DEFINE call == [email |-> up.profile.email, image |-> up.image,
                      reply |-> NoUrl]
  <2>1. up.profile \in Profile /\ up.profile.email \in Editable(d)
    BY <1>0 DEF DraftsStay, TypeOK, Upload
  <2>2. QueuesStay'
    BY <1>0, <1>3, <2>1, SaveStays DEF UploadSucceeded
  <2>3. call.email \in Editable(d)
    BY <2>1
  <2>4. urlCalls' = [urlCalls EXCEPT ![d] = @ \cup {call}]
    BY <1>3 DEF UploadSucceeded
  <2>5. DraftsStay'
    <3> HIDE DEF call
    <3>1. QED
      BY <1>0, <1>3, <2>3, <2>4
         DEF UploadSucceeded, DraftsStay, Editable, TypeOK
  <2>6. QED
    BY <2>2, <2>5
<1>4. ASSUME NEW call \in urlCalls[d], AnswerUrl(d, call)
      PROVE  SavesStayOnDevice'
  <2> DEFINE answered == [call EXCEPT !.reply = object[call.email]]
  <2>1. QueuesStay'
    BY <1>0, <1>4, QueuesUnchangedStay DEF AnswerUrl, firestoreVars
  <2>2. answered.email \in Editable(d)
    BY <1>0 DEF DraftsStay, TypeOK, UrlCall
  <2>3. urlCalls' = [urlCalls EXCEPT ![d] = (@ \ {call}) \cup {answered}]
    BY <1>4 DEF AnswerUrl
  <2>4. DraftsStay'
    <3> HIDE DEF answered
    <3>1. UNCHANGED <<user, shown, form, uploads, visited>>
      BY <1>4 DEF AnswerUrl, firestoreVars
    <3>2. \A e \in Device : \A c \in urlCalls'[e] :
            c \in urlCalls[e] \/ (e = d /\ c = answered)
      BY <2>3 DEF TypeOK
    <3>3. QED
      BY <1>0, <2>2, <3>1, <3>2 DEF DraftsStay, Editable
  <2>5. QED
    BY <2>1, <2>4
<1>5. ASSUME NEW call \in urlCalls[d], UrlReceived(d, call)
      PROVE  SavesStayOnDevice'
  <2> DEFINE m == UpdatePicture(call.email, call.reply)
  <2>1. m \in Mutation /\ m.path \in Editable(d)
    BY <1>0, <1>5, MutationTypes
       DEF UrlReceived, UpdatePicture, UrlCall, TypeOK, DraftsStay
  <2>2. WriteLocally(d, <<m>>)
    BY <1>5 DEF UrlReceived
  <2>3. QueuesStay'
    <3> HIDE DEF m
    <3>1. <<m>> \in Seq(Mutation)
          /\ \A i \in 1..Len(<<m>>) : <<m>>[i].path \in Editable(d)
      BY <2>1
    <3>2. QED
      BY <1>0, <1>5, <2>2, <3>1, WriteStays DEF UrlReceived
  <2>4. DraftsStay'
    BY <1>0, <1>5 DEF UrlReceived, DraftsStay, Editable, TypeOK
  <2>5. QED
    BY <2>3, <2>4
<1>6. ASSUME Network(Deliver(d) \/ Ack(d) \/ Reject(d) \/ (listening[d] /\ Watch(d)))
      PROVE  SavesStayOnDevice'
  <2>1. DraftsStay'
    BY <1>0, <1>6 DEF Network, Deliver, Ack, Reject, Watch, DraftsStay, Editable
  <2>2. CASE Deliver(d) \/ Watch(d)
    BY <1>0, <1>6, <2>1, <2>2, QueuesUnchangedStay DEF Network, Deliver, Watch
  <2>3. CASE Ack(d) \/ Reject(d)
    <3>1. Pending(d) # <<>>
      BY <1>0, <2>3, PendingType DEF Ack, Reject
    <3>2. queue' = [queue EXCEPT ![d][user[d]] = Tail(Pending(d))]
      BY <2>3 DEF Ack, Reject, Pending
    <3>3. QED
      BY <1>0, <1>6, <2>1, <3>1, <3>2, PopStays DEF Network
  <2>4. QED
    BY <1>6, <2>2, <2>3 DEF Network
<1>7. QED
  BY <1>1, <1>2, <1>3, <1>4, <1>5, <1>6 DEF SystemStep

LEMMA StutterStays == SavesStayOnDevice /\ UNCHANGED vars => SavesStayOnDevice'
BY DEF SavesStayOnDevice, Editable, vars, firestoreVars, appVars, storageVars

\* Whatever is saved from a device, now or by a callback or a queue later on,
\* belongs to an account that signed in there or to the placeholder.
THEOREM SavesStay == Spec => []SavesStayOnDevice
<1>1. TypeOK /\ SavesStayOnDevice /\ [Next]_vars => SavesStayOnDevice'
  BY UserStepStays, MishapStays, SystemStepStays, StutterStays DEF Next
<1>2. QED
  BY InitStays, TypeCorrect, <1>1, PTL DEF Spec

-----------------------------------------------------------------------------
(* What a device can do to the profiles of accounts it has never seen.       *)

\* One mutation applied by the server changes one document: as a whole or in
\* its picture when the account has been on the device, otherwise only by
\* adding projects to a document that exists.
LEMMA DeliverOnlyJoins ==
  ASSUME TypeOK, SavesStayOnDevice, NEW d \in Device, Deliver(d), NEW e \in Path
  PROVE  \/ server'[e] = server[e]
         \/ e \in Editable(d)
         \/ /\ server[e] # NoDoc
            /\ \E ps \in SUBSET Project :
                 server'[e] = [server[e] EXCEPT !.projects = @ \cup ps]
<1> DEFINE m == Pending(d)[delivered[d] + 1]
<1>0. FirestoreTypeOK
  BY DEF TypeOK
<1>1. /\ delivered[d] + 1 \in 1..Len(Pending(d))
      /\ user[d] \in Credential /\ Pending(d) = queue[d][user[d]]
      /\ m \in Mutation
  BY <1>0, PendingType DEF Deliver
<1>2. /\ server' = [server EXCEPT ![m.path] = Merge(m, @)]
      /\ PreconditionHolds(m, server[m.path])
  BY DEF Deliver
<1>3. CASE e # m.path
  BY <1>0, <1>2, <1>3 DEF FirestoreTypeOK
<1>4. CASE e = m.path /\ m.op # "join"
  BY <1>1, <1>4 DEF SavesStayOnDevice
<1>5. CASE e = m.path /\ m.op = "join"
  <2> HIDE DEF m
  <2>1. server'[e] = Merge(m, server[e])
    BY <1>0, <1>2, <1>5 DEF FirestoreTypeOK
  <2>2. server[e] # NoDoc
    BY <1>2, <1>5 DEF PreconditionHolds
  <2>3. m.value.projects \in SUBSET Project
    BY <1>1 DEF Mutation, Doc
  <2>4. Merge(m, server[e]) = [server[e] EXCEPT !.projects = @ \cup m.value.projects]
    BY <1>5 DEF Merge
  <2>5. QED
    BY <2>1, <2>2, <2>3, <2>4
<1>6. QED
  BY <1>3, <1>4, <1>5

\* No step but Deliver changes the server's documents.
LEMMA OnlyDeliverWrites ==
  ASSUME [Next]_vars
  PROVE  UNCHANGED server \/ \E d \in Device : Deliver(d)
<1>1. CASE UNCHANGED vars
  BY <1>1 DEF vars, firestoreVars
<1>2. ASSUME NEW d \in Device, UserStep(d) PROVE UNCHANGED server
  BY <1>2 DEF UserStep, SignIn, SignOut, OpenMyProfile, Cancel, Done,
              DoneWithPicture, setParticipants, firestoreVars
<1>3. ASSUME NEW d \in Device, Mishap(d) PROVE UNCHANGED server
  BY <1>3 DEF Mishap, Restart, UploadFailed, Network, BreakStream, firestoreVars
<1>4. ASSUME NEW d \in Device, SystemStep(d) PROVE UNCHANGED server \/ Deliver(d)
  BY <1>4 DEF SystemStep, Snapshot, StoreImage, UploadSucceeded, AnswerUrl,
              UrlReceived, Network, Ack, Reject, Watch, firestoreVars
<1>5. QED
  BY <1>1, <1>2, <1>3, <1>4 DEF Next

\* A profile changes on the server only by a save from a device on which its
\* account has been, or by gaining projects that somebody else created.
THEOREM OthersJoin == Spec => OthersOnlyJoin
<1>1. TypeOK /\ SavesStayOnDevice /\ [Next]_vars => [OwnSaveOrJoin]_vars
  <2> SUFFICES ASSUME TypeOK, SavesStayOnDevice, [Next]_vars
               PROVE  OwnSaveOrJoin
    OBVIOUS
  <2>1. CASE UNCHANGED server
    BY <2>1 DEF OwnSaveOrJoin
  <2>2. CASE \E d \in Device : Deliver(d)
    BY <2>2, DeliverOnlyJoins DEF OwnSaveOrJoin
  <2>3. QED
    BY <2>1, <2>2, OnlyDeliverWrites
<1>2. QED
  BY <1>1, TypeCorrect, SavesStay, PTL DEF Spec, OthersOnlyJoin

-----------------------------------------------------------------------------
(* Requests for picture URLs are never made in vain.                         *)

\* The strengthening of UrlCallsCanBeAnswered: an upload always carries a real
\* image, and once the service has stored it the profile keeps having one.
StoredImagesStay ==
  /\ UrlCallsCanBeAnswered
  /\ \A d \in Device : \A up \in uploads[d] :
       /\ up.image # NoPicture
       /\ up.stored => object[up.profile.email] # NoPicture

LEMMA StepKeepsImages ==
  ASSUME TypeOK, StoredImagesStay, NEW d \in Device,
         UserStep(d) \/ Mishap(d) \/ SystemStep(d)
  PROVE  StoredImagesStay'
<1> USE DEF StoredImagesStay, UrlCallsCanBeAnswered, TypeOK
<1>1. ASSUME NEW text \in Text, NEW projects \in SUBSET Project,
             NEW image \in Picture, DoneWithPicture(d, text, projects, image)
      PROVE  StoredImagesStay'
  <2> DEFINE up == [profile |-> Edited(form[d], text, projects),
                    image |-> image, stored |-> FALSE]
  <2>1. uploads' = [uploads EXCEPT ![d] = @ \cup {up}]
    BY <1>1 DEF DoneWithPicture
  <2>2. up.image # NoPicture /\ ~up.stored
    BY <1>1 DEF DoneWithPicture
  <2> HIDE DEF up
  <2>3. QED
    BY <1>1, <2>1, <2>2 DEF DoneWithPicture
<1>2. ASSUME NEW up \in uploads[d], StoreImage(d, up) PROVE StoredImagesStay'
  <2> DEFINE stored == [up EXCEPT !.stored = TRUE]
  <2>1. /\ up.profile.email \in Path /\ up.image # NoPicture
        /\ stored.image = up.image /\ stored.profile = up.profile
    BY DEF Upload, Profile
  <2>2. /\ uploads' = [uploads EXCEPT ![d] = (@ \ {up}) \cup {stored}]
        /\ object' = [object EXCEPT ![up.profile.email] = up.image]
        /\ urlCalls' = urlCalls
    BY <1>2 DEF StoreImage
  <2> HIDE DEF stored
  <2>3. \A e \in Path : object[e] # NoPicture => object'[e] # NoPicture
    BY <2>1, <2>2
  <2>4. \A c \in Device : \A call \in urlCalls[c] : object'[call.email] # NoPicture
    BY <2>3 DEF UrlCall
  <2>5. ASSUME NEW c \in Device, NEW other \in uploads'[c]
        PROVE  /\ other.image # NoPicture
               /\ other.stored => object'[other.profile.email] # NoPicture
    <3>1. CASE other = stored
      BY <2>1, <2>2, <3>1
    <3>2. CASE other # stored
      <4>1. other \in uploads[c] /\ other.profile.email \in Path
        BY <2>2, <3>2 DEF Upload, Profile
      <4>2. QED
        BY <2>3, <4>1
    <3>3. QED
      BY <3>1, <3>2
  <2>6. QED
    BY <2>2, <2>4, <2>5
<1>3. ASSUME NEW up \in uploads[d], UploadSucceeded(d, up) PROVE StoredImagesStay'
  <2> DEFINE call == [email |-> up.profile.email, image |-> up.image,
                      reply |-> NoUrl]
  <2>1. object[call.email] # NoPicture
    BY <1>3 DEF UploadSucceeded
  <2>2. /\ urlCalls' = [urlCalls EXCEPT ![d] = @ \cup {call}]
        /\ uploads' = [uploads EXCEPT ![d] = @ \ {up}]
        /\ object' = object
    BY <1>3 DEF UploadSucceeded, storageVars
  <2> HIDE DEF call
  <2>3. QED
    BY <2>1, <2>2
<1>4. ASSUME NEW call \in urlCalls[d], AnswerUrl(d, call) PROVE StoredImagesStay'
  <2> DEFINE answered == [call EXCEPT !.reply = object[call.email]]
  <2>1. answered.email = call.email
    BY DEF UrlCall
  <2>2. /\ urlCalls' = [urlCalls EXCEPT ![d] = (@ \ {call}) \cup {answered}]
        /\ UNCHANGED <<uploads, object>>
    BY <1>4 DEF AnswerUrl, storageVars
  <2> HIDE DEF answered
  <2>3. QED
    BY <2>1, <2>2
<1>5. ASSUME NEW call \in urlCalls[d], UrlReceived(d, call)
      PROVE  StoredImagesStay'
  BY <1>5 DEF UrlReceived, storageVars
<1>6. ASSUME NEW up \in uploads[d], UploadFailed(d, up) PROVE StoredImagesStay'
  BY <1>6 DEF UploadFailed, storageVars
<1>7. ASSUME Restart(d) PROVE StoredImagesStay'
  BY <1>7 DEF Restart, storageVars
<1>8. ASSUME UNCHANGED <<uploads, urlCalls, object>> PROVE StoredImagesStay'
  BY <1>8
<1>9. QED
  <2>1. CASE UserStep(d)
    BY <2>1, <1>1, <1>8
       DEF UserStep, SignIn, SignOut, OpenMyProfile, Cancel, Done,
           setParticipants, appVars, storageVars
  <2>2. CASE Mishap(d)
    BY <2>2, <1>6, <1>7, <1>8 DEF Mishap, Network, appVars, storageVars
  <2>3. CASE SystemStep(d)
    BY <2>3, <1>2, <1>3, <1>4, <1>5, <1>8
       DEF SystemStep, Snapshot, Network, appVars, storageVars
  <2>4. QED
    BY <2>1, <2>2, <2>3

\* The callback that repeats its downloadURL call on every error is only ever
\* called for a profile that has an image, so the repetition comes to an end.
THEOREM UrlCallsAnswerable == Spec => []UrlCallsCanBeAnswered
<1>1. Init => StoredImagesStay
  BY DEF Init, StoredImagesStay, UrlCallsCanBeAnswered
<1>2. TypeOK /\ StoredImagesStay /\ [Next]_vars => StoredImagesStay'
  <2>1. StoredImagesStay /\ UNCHANGED vars => StoredImagesStay'
    BY DEF StoredImagesStay, UrlCallsCanBeAnswered, vars, appVars, storageVars
  <2>2. QED
    BY <2>1, StepKeepsImages DEF Next
<1>3. StoredImagesStay => UrlCallsCanBeAnswered
  BY DEF StoredImagesStay
<1>4. QED
  BY <1>1, <1>2, <1>3, TypeCorrect, PTL DEF Spec

-----------------------------------------------------------------------------
(* An arrayUnion finds its profile.                                           *)

\* What a device has cached was on the server and stays there.
CachedIsThere ==
  \A d \in Device, path \in Path : cache[d][path] # NoDoc => server[path] # NoDoc

\* Nobody adds participants without being signed in; the other writes of a
\* signed-out device come from callbacks, and the server refuses them.
SignedOutJoinNothing ==
  \A d \in Device : \A i \in 1..Len(queue[d][NoUser]) :
    queue[d][NoUser][i].op # "join"

\* The mutation at i in queue q, if it is a join, finds its profile.
Found(q, i) ==
  q[i].op = "join" =>
    \/ server[q[i].path] # NoDoc
    \/ \E j \in 1..(i - 1) : q[j].op = "set" /\ q[j].path = q[i].path

LEMMA AllFound ==
  /\ JoinsFindTheirProfile <=>
       \A d \in Device, u \in Credential : \A i \in 1..Len(queue[d][u]) :
         Found(queue[d][u], i)
  /\ JoinsFindTheirProfile' <=>
       \A d \in Device, u \in Credential : \A i \in 1..Len(queue'[d][u]) :
         Found(queue[d][u], i)'
BY DEF JoinsFindTheirProfile, Found

\* The strengthening of JoinsFindTheirProfile.
JoinsInv ==
  SentIsThere /\ CachedIsThere /\ SignedOutJoinNothing /\ JoinsFindTheirProfile

\* The head of a queue leaves it: a save when the server has its document, or
\* refused with all that a signed-out device has written.
LEMMA PopFinds ==
  ASSUME FirestoreTypeOK, SignedOutJoinNothing, JoinsFindTheirProfile,
         NEW d \in Device, Pending(d) # <<>>,
         queue' = [queue EXCEPT ![d][user[d]] = Tail(Pending(d))],
         server' = server,
         \/ user[d] = NoUser
         \/ Head(Pending(d)).op = "set" => server[Head(Pending(d)).path] # NoDoc
  PROVE  SignedOutJoinNothing' /\ JoinsFindTheirProfile'
<1> DEFINE old == Pending(d)
<1>1. /\ old \in Seq(Mutation) /\ old # <<>> /\ old = queue[d][user[d]]
      /\ user[d] \in Credential
  BY PendingType
<1>2. \A c \in Device, u \in Credential :
        queue'[c][u] = IF c = d /\ u = user[d] THEN Tail(old) ELSE queue[c][u]
  BY <1>1 DEF FirestoreTypeOK
<1>3. \A c \in Device, u \in Credential : \A i \in 1..Len(queue[c][u]) :
        Found(queue[c][u], i)
  BY AllFound
<1>4. \A i \in 1..Len(Tail(old)) : i + 1 \in 1..Len(old) /\ Tail(old)[i] = old[i + 1]
  <2> HIDE DEF old
  <2>1. Len(Tail(old)) = Len(old) - 1 /\ Len(old) \in Nat
    BY <1>1
  <2>2. QED
    BY <1>1, <2>1
<1>5. Head(old) = old[1] /\ Len(old) \in Nat
  <2> HIDE DEF old
  <2>1. QED
    BY <1>1
<1>6. ASSUME NEW i \in 1..Len(Tail(old)) PROVE Found(Tail(old), i)
  <2> SUFFICES ASSUME old[i + 1].op = "join", server[old[i + 1].path] = NoDoc
               PROVE  \E j \in 1..(i - 1) : /\ Tail(old)[j].op = "set"
                                            /\ Tail(old)[j].path = old[i + 1].path
    BY <1>4 DEF Found
  <2>1. PICK j \in 1..((i + 1) - 1) :
          old[j].op = "set" /\ old[j].path = old[i + 1].path
    <3>1. i + 1 \in 1..Len(old)
      BY <1>4
    <3>2. Found(old, i + 1)
      BY <1>1, <1>3, <3>1
    <3>3. QED
      BY <1>4, <3>2 DEF Found
  <2>2. j # 1
    <3> SUFFICES ASSUME j = 1 PROVE FALSE
      OBVIOUS
    <3>1. user[d] = NoUser
      BY <1>5, <2>1
    <3>2. QED
      BY <1>1, <1>4, <3>1 DEF SignedOutJoinNothing
  <2>3. j - 1 \in 1..(i - 1) /\ j - 1 \in 1..Len(Tail(old)) /\ (j - 1) + 1 = j
    <3> HIDE DEF old
    <3>1. QED
      BY <1>1, <2>1, <2>2
  <2>4. Tail(old)[j - 1] = old[j]
    BY <1>4, <2>3
  <2>5. QED
    BY <2>1, <2>3, <2>4
<1>7. JoinsFindTheirProfile'
  <2>1. ASSUME NEW c \in Device, NEW u \in Credential, NEW i \in 1..Len(queue'[c][u])
        PROVE  Found(queue'[c][u], i)
    <3>1. CASE c = d /\ u = user[d]
      <4>1. queue'[c][u] = Tail(old)
        BY <1>2, <3>1
      <4>2. QED
        BY <1>6, <4>1
    <3>2. CASE ~(c = d /\ u = user[d])
      BY <1>2, <1>3, <3>2
    <3>3. QED
      BY <3>1, <3>2
  <2>2. QED
    BY <2>1, AllFound DEF Found
<1>8. SignedOutJoinNothing'
  <2>1. NoUser \in Credential
    BY DEF Credential
  <2>2. QED
    BY <1>1, <1>2, <1>4, <2>1 DEF SignedOutJoinNothing
<1>9. QED
  BY <1>7, <1>8

\* A write keeps the invariant when its joins find their profiles.
LEMMA WriteFinds ==
  ASSUME FirestoreTypeOK, JoinsInv,
         NEW d \in Device, NEW ms \in Seq(Mutation), WriteLocally(d, ms),
         UNCHANGED <<server, user, delivered, cache>>,
         \A k \in 1..Len(ms) : ms[k].op = "join" =>
           /\ user[d] # NoUser
           /\ \/ server[ms[k].path] # NoDoc
              \/ \E j \in 1..Len(Pending(d)) : /\ Pending(d)[j].op = "set"
                                               /\ Pending(d)[j].path = ms[k].path
  PROVE  JoinsInv'
<1> DEFINE old == Pending(d)
<1>1. old \in Seq(Mutation) /\ old = queue[d][user[d]] /\ user[d] \in Credential
  BY PendingType
<1>2. /\ queue'[d][user[d]] = old \o ms
      /\ \A c \in Device, u \in Credential :
           c # d \/ u # user[d] => queue'[c][u] = queue[c][u]
  BY WriteLocallyQueue
<1>3. \A c \in Device, u \in Credential : \A i \in 1..Len(queue[c][u]) :
        Found(queue[c][u], i)
  BY AllFound DEF JoinsInv
<1>4. Len(old) \in Nat /\ Len(ms) \in Nat /\ Len(old \o ms) = Len(old) + Len(ms)
  <2> HIDE DEF old
  <2>1. QED
    BY <1>1
<1>5. \A i \in 1..Len(old) : (old \o ms)[i] = old[i]
  <2> HIDE DEF old
  <2>1. QED
    BY <1>1
<1>6. \A i \in 1..Len(old \o ms) : i > Len(old) =>
        i - Len(old) \in 1..Len(ms) /\ (old \o ms)[i] = ms[i - Len(old)]
  <2> HIDE DEF old
  <2>1. QED
    BY <1>1, <1>4
<1>7. ASSUME NEW i \in 1..Len(old \o ms) PROVE Found(old \o ms, i)
  <2>1. CASE i \in 1..Len(old)
    <3>1. Found(old, i)
      BY <1>1, <1>3, <2>1
    <3>2. \A j \in 1..i : (old \o ms)[j] = old[j]
      BY <1>4, <1>5, <2>1
    <3> HIDE DEF old
    <3>3. QED
      BY <1>4, <2>1, <3>1, <3>2 DEF Found
  <2>2. CASE i \notin 1..Len(old)
    <3>1. i > Len(old)
      BY <1>4, <2>2
    <3>2. PICK k \in 1..Len(ms) : (old \o ms)[i] = ms[k]
      BY <1>6, <3>1
    <3>3. \A j \in 1..Len(old) : j \in 1..(i - 1)
      BY <1>4, <3>1
    <3>4. QED
      BY <1>5, <3>2, <3>3 DEF Found
  <2>3. QED
    BY <2>1, <2>2
<1>8. JoinsFindTheirProfile'
  <2>1. ASSUME NEW c \in Device, NEW u \in Credential, NEW i \in 1..Len(queue'[c][u])
        PROVE  Found(queue'[c][u], i)
    <3>1. CASE c = d /\ u = user[d]
      <4>1. queue'[c][u] = old \o ms
        BY <1>2, <3>1
      <4>2. QED
        BY <1>7, <4>1
    <3>2. CASE ~(c = d /\ u = user[d])
      BY <1>2, <1>3, <3>2
    <3>3. QED
      BY <3>1, <3>2
  <2>2. QED
    BY <2>1, AllFound DEF Found
<1>9. SignedOutJoinNothing'
  <2> SUFFICES ASSUME NEW c \in Device, NEW i \in 1..Len(queue'[c][NoUser])
               PROVE  queue'[c][NoUser][i].op # "join"
    BY DEF SignedOutJoinNothing
  <2>1. NoUser \in Credential
    BY DEF Credential
  <2>2. CASE c = d /\ user[d] = NoUser
    <3>1. i \in 1..Len(old \o ms) /\ queue'[c][NoUser][i] = (old \o ms)[i]
      BY <1>2, <2>2
    <3>2. CASE i \in 1..Len(old)
      BY <1>1, <1>5, <2>2, <3>1, <3>2 DEF JoinsInv, SignedOutJoinNothing
    <3>3. CASE i \notin 1..Len(old)
      <4>1. i > Len(old)
        BY <1>4, <3>1, <3>3
      <4>2. QED
        BY <1>6, <2>2, <3>1, <4>1
    <3>4. QED
      BY <3>2, <3>3
  <2>3. CASE ~(c = d /\ user[d] = NoUser)
    <3>1. queue'[c][NoUser] = queue[c][NoUser]
      BY <1>2, <2>1, <2>3
    <3>2. QED
      BY <3>1 DEF JoinsInv, SignedOutJoinNothing
  <2>4. QED
    BY <2>2, <2>3
<1>10. SentIsThere' /\ CachedIsThere'
  BY WriteLocallySends DEF JoinsInv, CachedIsThere
<1>11. QED
  BY <1>8, <1>9, <1>10 DEF JoinsInv

LEMMA DeliverFinds ==
  ASSUME FirestoreTypeOK, JoinsInv, NEW d \in Device, Deliver(d)
  PROVE  JoinsInv'
<1>1. \A path \in Path : server[path] # NoDoc => server'[path] # NoDoc
  BY DeliverKeepsDocs
<1>2. UNCHANGED <<user, queue, cache>>
  BY DEF Deliver
<1>3. \A c \in Device, u \in Credential : \A i \in 1..Len(queue[c][u]) :
        queue[c][u][i].path \in Path
  <2>1. \A c \in Device, u \in Credential : queue[c][u] \in Seq(Mutation)
    BY DEF FirestoreTypeOK
  <2>2. \A c \in Device, u \in Credential : \A i \in 1..Len(queue[c][u]) :
          queue[c][u][i] \in Mutation
    BY <2>1
  <2>3. QED
    BY <2>2 DEF Mutation
<1>4. JoinsFindTheirProfile'
  BY <1>1, <1>2, <1>3 DEF JoinsInv, JoinsFindTheirProfile
<1>5. CachedIsThere' /\ SignedOutJoinNothing'
  BY <1>1, <1>2 DEF JoinsInv, CachedIsThere, SignedOutJoinNothing
<1>6. QED
  BY <1>4, <1>5, DeliverSends DEF JoinsInv

LEMMA AckFinds ==
  ASSUME FirestoreTypeOK, JoinsInv, NEW d \in Device, Ack(d)
  PROVE  JoinsInv'
<1> DEFINE m == Head(Pending(d))
<1>1. /\ Pending(d) # <<>> /\ server' = server
      /\ queue' = [queue EXCEPT ![d][user[d]] = Tail(Pending(d))]
      /\ m = Pending(d)[1] /\ m \in Mutation /\ 1 \in 1..delivered[d]
  BY PendingType DEF Ack, Pending
<1>2. m.op = "set" => server[m.path] # NoDoc
  BY <1>1 DEF JoinsInv, SentIsThere
<1>3. SignedOutJoinNothing' /\ JoinsFindTheirProfile'
  BY <1>1, <1>2, PopFinds DEF JoinsInv
<1>4. CachedIsThere'
  <2> SUFFICES ASSUME NEW c \in Device, NEW path \in Path, cache'[c][path] # NoDoc
               PROVE  server[path] # NoDoc
    BY <1>1 DEF CachedIsThere
  <2>1. cache' = cache \/ cache' = [cache EXCEPT ![d][m.path] = Apply(m, @)]
    BY DEF Ack
  <2> HIDE DEF m
  <2>2. CASE cache'[c][path] = cache[c][path]
    BY <2>2 DEF JoinsInv, CachedIsThere
  <2>3. CASE cache'[c][path] # cache[c][path]
    <3>1. c = d /\ path = m.path /\ cache'[c][path] = Apply(m, cache[c][path])
      BY <2>1, <2>3 DEF FirestoreTypeOK
    <3>2. m.op = "set" \/ cache[c][path] # NoDoc
      BY <3>1 DEF Apply, PreconditionHolds
    <3>3. QED
      BY <1>2, <3>1, <3>2 DEF JoinsInv, CachedIsThere
  <2>4. QED
    BY <2>2, <2>3
<1>5. QED
  BY <1>3, <1>4, AckSends DEF JoinsInv

LEMMA NetworkFinds ==
  ASSUME FirestoreTypeOK, JoinsInv, NEW d \in Device,
         Deliver(d) \/ Ack(d) \/ Reject(d) \/ BreakStream(d) \/ Watch(d)
  PROVE  JoinsInv'
<1>1. CASE Reject(d)
  <2>1. /\ Pending(d) # <<>> /\ UNCHANGED <<server, cache>>
        /\ queue' = [queue EXCEPT ![d][user[d]] = Tail(Pending(d))]
        /\ user[d] = NoUser \/ Head(Pending(d)).op # "set"
    BY <1>1 DEF Reject, Pending, PreconditionHolds
  <2>2. SignedOutJoinNothing' /\ JoinsFindTheirProfile'
    BY <2>1, PopFinds DEF JoinsInv
  <2>3. QED
    BY <1>1, <2>1, <2>2, RejectSends DEF JoinsInv, CachedIsThere
<1>2. CASE BreakStream(d)
  <2>1. SentIsThere'
    <3>1. \A c \in Device : Pending(c)' = Pending(c)
      BY <1>2 DEF BreakStream, Pending
    <3>2. QED
      BY <1>2, <3>1, ClosedSends DEF BreakStream, JoinsInv, FirestoreTypeOK
  <2>2. QED
    BY <1>2, <2>1, SMTT(60) DEF BreakStream, JoinsInv, CachedIsThere, SignedOutJoinNothing,
                      JoinsFindTheirProfile
<1>3. CASE Watch(d)
  <2>1. SentIsThere'
    BY <1>3 DEF Watch, JoinsInv, SentIsThere, Pending
  <2>2. CachedIsThere'
    BY <1>3 DEF Watch, JoinsInv, CachedIsThere, FirestoreTypeOK
  <2>3. QED
    BY <1>3, <2>1, <2>2 DEF Watch, JoinsInv, SignedOutJoinNothing,
                            JoinsFindTheirProfile
<1>4. QED
  BY <1>1, <1>2, <1>3, DeliverFinds, AckFinds

\* A change of credential and a restart close the stream and touch no queue.
LEMMA ClosedFinds ==
  ASSUME FirestoreTypeOK, JoinsInv, NEW d \in Device,
         delivered' = [delivered EXCEPT ![d] = 0],
         UNCHANGED <<server, queue, cache>>,
         \A c \in Device : c # d => user'[c] = user[c]
  PROVE  JoinsInv'
<1>1. delivered'[d] = 0 /\ \A c \in Device : c # d =>
        delivered'[c] = delivered[c] /\ Pending(c)' = Pending(c)
  BY DEF FirestoreTypeOK, Pending
<1>2. SentIsThere'
  BY <1>1, ClosedSends DEF JoinsInv
<1>3. QED
  BY <1>2 DEF JoinsInv, CachedIsThere, SignedOutJoinNothing, JoinsFindTheirProfile

\* A save or a URL is not a join.
LEMMA SingleFinds ==
  ASSUME FirestoreTypeOK, JoinsInv, NEW d \in Device, NEW m \in Mutation,
         m.op # "join", WriteLocally(d, <<m>>),
         UNCHANGED <<server, user, delivered, cache>>
  PROVE  JoinsInv'
<1>1. <<m>> \in Seq(Mutation) /\ \A k \in 1..Len(<<m>>) : <<m>>[k].op # "join"
  OBVIOUS
<1>2. QED
  BY <1>1, WriteFinds

LEMMA SaveFinds ==
  ASSUME FirestoreTypeOK, JoinsInv, NEW d \in Device, NEW profile \in Profile,
         updateProfile(d, profile), UNCHANGED <<server, user, delivered, cache>>
  PROVE  JoinsInv'
<1> DEFINE m == SetDoc(profile.email, profile.doc)
<1>1. m \in Mutation /\ m.op # "join"
  BY MutationTypes DEF Profile, SetDoc
<1>2. QED
  BY <1>1, SingleFinds DEF updateProfile

\* Participants are joined only when the own listener shows their profiles: they
\* are cached, or an earlier save in the same queue creates them.
LEMMA ParticipantsFind ==
  ASSUME FirestoreTypeOK, JoinsInv, NEW d \in Device,
         NEW participants \in Selection, NEW project \in Project,
         setParticipants(d, participants, project)
  PROVE  JoinsInv'
<1> DEFINE ms == [i \in 1..Len(participants) |->
                    UnionProject(participants[i], project)]
<1>1. participants \in Seq(Path)
  BY SelectionType
<1>2. ms \in Seq(Mutation) /\ Len(ms) = Len(participants)
  BY <1>1, MutationTypes
<1>3. ASSUME NEW k \in 1..Len(ms)
      PROVE  \/ server[ms[k].path] # NoDoc
             \/ \E j \in 1..Len(Pending(d)) : /\ Pending(d)[j].op = "set"
                                              /\ Pending(d)[j].path = ms[k].path
  <2> DEFINE p == participants[k]
  <2>1. p \in Path /\ ms[k].path = p
    BY <1>1, <1>2 DEF UnionProject
  <2>2. LocalView(d, p) # NoDoc
    BY <1>2, FirestoreAssumption DEF setParticipants
  <2>3. cache[d][p] \in MaybeDoc /\ Pending(d) \in Seq(Mutation)
    BY <2>1, PendingType DEF FirestoreTypeOK
  <2> HIDE DEF p
  <2>4. CASE cache[d][p] # NoDoc
    BY <2>1, <2>4 DEF JoinsInv, CachedIsThere
  <2>5. CASE cache[d][p] = NoDoc
    BY <2>1, <2>2, <2>3, <2>5, SeenIsSaved DEF LocalView
  <2>6. QED
    BY <2>4, <2>5
<1>4. /\ user[d] # NoUser /\ WriteLocally(d, ms)
      /\ UNCHANGED <<server, user, delivered, cache>>
  BY DEF setParticipants
<1> HIDE DEF ms
<1>5. QED
  BY <1>2, <1>3, <1>4, WriteFinds

LEMMA StepFinds ==
  ASSUME TypeOK, JoinsInv, NEW d \in Device,
         UserStep(d) \/ Mishap(d) \/ SystemStep(d)
  PROVE  JoinsInv'
<1>0. FirestoreTypeOK
  BY DEF TypeOK
<1>1. ASSUME UNCHANGED firestoreVars PROVE JoinsInv'
  BY <1>1 DEF firestoreVars, JoinsInv, SentIsThere, Pending, CachedIsThere,
              SignedOutJoinNothing, JoinsFindTheirProfile
<1>2. CASE UserStep(d)
  <2>1. ASSUME NEW u \in User, SignIn(d, u) PROVE JoinsInv'
    BY <1>0, <2>1, ClosedFinds DEF SignIn, ChangeCredential, FirestoreTypeOK
  <2>2. ASSUME SignOut(d) PROVE JoinsInv'
    BY <1>0, <2>2, ClosedFinds DEF SignOut, ChangeCredential, FirestoreTypeOK
  <2>3. ASSUME NEW text \in Text, NEW projects \in SUBSET Project,
               \/ Done(d, text, projects)
               \/ \E image \in Picture : DoneWithPicture(d, text, projects, image)
        PROVE  JoinsInv'
    <3>1. form[d] # NoForm /\ updateProfile(d, Edited(form[d], text, projects))
          /\ UNCHANGED <<server, user, delivered, cache>>
      BY <2>3 DEF Done, DoneWithPicture
    <3>2. Edited(form[d], text, projects) \in Profile
      BY <3>1, EditedType DEF TypeOK
    <3>3. QED
      BY <1>0, <3>1, <3>2, SaveFinds
  <2>4. QED
    BY <1>0, <1>1, <1>2, <2>1, <2>2, <2>3, ParticipantsFind
       DEF UserStep, OpenMyProfile, Cancel
<1>3. CASE Mishap(d)
  <2>1. ASSUME Restart(d) PROVE JoinsInv'
    BY <1>0, <2>1, ClosedFinds DEF Restart
  <2>2. QED
    BY <1>0, <1>1, <1>3, <2>1, NetworkFinds DEF Mishap, UploadFailed, Network
<1>4. CASE SystemStep(d)
  <2>1. ASSUME NEW up \in uploads[d], UploadSucceeded(d, up) PROVE JoinsInv'
    <3>1. up.profile \in Profile
      BY DEF TypeOK, Upload
    <3>2. QED
      BY <1>0, <2>1, <3>1, SaveFinds DEF UploadSucceeded
  <2>2. ASSUME NEW call \in urlCalls[d], UrlReceived(d, call) PROVE JoinsInv'
    <3> DEFINE m == UpdatePicture(call.email, call.reply)
    <3>1. call \in UrlCall /\ call.reply # NoUrl
      BY <2>2 DEF TypeOK, UrlReceived
    <3>2. m \in Mutation /\ m.op # "join"
      BY <3>1, MutationTypes DEF UrlCall, UpdatePicture
    <3>3. QED
      BY <1>0, <2>2, <3>2, SingleFinds DEF UrlReceived
  <2>3. QED
    BY <1>0, <1>1, <1>4, <2>1, <2>2, NetworkFinds
       DEF SystemStep, Snapshot, StoreImage, AnswerUrl, Network
<1>5. QED
  BY <1>2, <1>3, <1>4

LEMMA JoinsCorrect == Spec => []JoinsInv
<1>1. Init => JoinsInv
  <2> SUFFICES ASSUME Init PROVE JoinsInv
    OBVIOUS
  <2>1. \A d \in Device, u \in Credential : queue[d][u] = <<>>
    BY DEF Init
  <2>2. NoUser \in Credential
    BY DEF Credential
  <2>3. \A d \in Device : delivered[d] = 0 /\ \A p \in Path : cache[d][p] = NoDoc
    BY DEF Init
  <2>4. QED
    BY <2>1, <2>2, <2>3 DEF JoinsInv, SentIsThere, CachedIsThere,
         SignedOutJoinNothing, JoinsFindTheirProfile
<1>2. TypeOK /\ JoinsInv /\ [Next]_vars => JoinsInv'
  <2>1. JoinsInv /\ UNCHANGED vars => JoinsInv'
    BY DEF vars, firestoreVars, JoinsInv, SentIsThere, Pending, CachedIsThere,
           SignedOutJoinNothing, JoinsFindTheirProfile
  <2>2. QED
    BY <2>1, StepFinds DEF Next
<1>3. QED
  BY <1>1, <1>2, TypeCorrect, PTL DEF Spec

\* No arrayUnion is ever refused: when its turn comes, the profile of the
\* participant is on the server or created by an earlier save of the same queue.
THEOREM JoinsFind == Spec => []JoinsFindTheirProfile
<1>1. JoinsInv => JoinsFindTheirProfile
  BY DEF JoinsInv
<1>2. QED
  BY <1>1, JoinsCorrect, PTL

-----------------------------------------------------------------------------
(* Pictures stay with the profile they were picked for.                       *)

Owned(e, url) == url \in {NoPicture, NoUrl} \/ owner[url] = e

\* The documents that path e may have anywhere, and the mutations of them.
OwnDocs == [e \in Path |-> {doc \in MaybeDoc : doc # NoDoc => Owned(e, doc.picture)}]
OwnMutations == {m \in Mutation : m.op # "join" => Owned(m.path, m.value.picture)}

\* The strengthening of PicturesKeepTheirOwner: caches, queues and snapshots as
\* well.
PicturesInv ==
  /\ PicturesKeepTheirOwner
  /\ DocsWithin(OwnDocs, OwnMutations)
  /\ \A d \in Device, e \in Path : profiles[d][e] \in OwnDocs[e]

LEMMA OwnClosed == Closed(OwnDocs, OwnMutations)
<1> SUFFICES ASSUME NEW m \in OwnMutations, NEW doc \in MaybeDoc,
                    doc \in OwnDocs[m.path]
             PROVE  Apply(m, doc) \in OwnDocs[m.path]
  BY DEF Closed
<1>1. m \in Mutation /\ m.path \in Path
  BY DEF OwnMutations, Mutation
<1>2. Apply(m, doc) \in MaybeDoc
  BY <1>1, ApplyType
<1>3. doc # NoDoc => doc \in Doc /\ Owned(m.path, doc.picture)
  BY <1>1 DEF OwnDocs, MaybeDoc
<1>4. m.op # "join" => Owned(m.path, m.value.picture)
  BY DEF OwnMutations
<1>5. SUFFICES ASSUME PreconditionHolds(m, doc), doc # NoDoc \/ m.op = "set"
               PROVE  Owned(m.path, Merge(m, doc).picture)
  BY <1>1, <1>2, <1>3 DEF OwnDocs, Apply, PreconditionHolds
<1>6. CASE m.op = "set"
  BY <1>4, <1>6 DEF Merge
<1>7. CASE m.op = "picture"
  BY <1>3, <1>4, <1>5, <1>7 DEF Merge, Doc
<1>8. CASE m.op = "join"
  BY <1>3, <1>5, <1>8 DEF Merge, Doc
<1>9. QED
  BY <1>1, <1>6, <1>7, <1>8 DEF Mutation

\* An image that is picked was nobody's: what was owned stays owned.
LEMMA PickKeepsOwned ==
  ASSUME TypeOK, NEW text, NEW projects, NEW image \in Picture, NEW d \in Device,
         DoneWithPicture(d, text, projects, image),
         NEW e \in Path, NEW url \in Picture \cup {NoUrl}, Owned(e, url)
  PROVE  Owned(e, url)'
<1>1. owner' = [owner EXCEPT ![image] = form[d].email] /\ owner[image] = NoOwner
  BY DEF DoneWithPicture
<1>2. url = image => url \in {NoPicture, NoUrl}
  BY <1>1, ProfileAssumption DEF Owned
<1>3. QED
  BY <1>1, <1>2 DEF Owned, TypeOK

\* While nobody picks an image, the network and the reading of snapshots keep
\* the invariant.
LEMMA OwnDocsConstant ==
  ASSUME owner' = owner
  PROVE  OwnDocs' = OwnDocs /\ OwnMutations' = OwnMutations
BY DEF OwnDocs, OwnMutations, Owned

LEMMA OwnDocsGrow ==
  ASSUME TypeOK, NEW text, NEW projects, NEW image \in Picture, NEW d \in Device,
         DoneWithPicture(d, text, projects, image)
  PROVE  /\ \A e \in Path : OwnDocs[e] \subseteq OwnDocs'[e]
         /\ OwnMutations \subseteq OwnMutations'
<1>1. \A e \in Path : \A url \in Picture : Owned(e, url) => Owned(e, url)'
  BY PickKeepsOwned
<1>2. ASSUME NEW e \in Path, NEW doc \in OwnDocs[e] PROVE doc \in OwnDocs'[e]
  <2>1. doc \in MaybeDoc /\ (doc # NoDoc => doc.picture \in Picture)
    BY DEF OwnDocs, MaybeDoc, Doc
  <2>2. QED
    BY <1>1, <2>1 DEF OwnDocs, Owned
<1>3. ASSUME NEW m \in OwnMutations PROVE m \in OwnMutations'
  <2>1. m \in Mutation /\ m.path \in Path /\ m.value.picture \in Picture
    BY DEF OwnMutations, Mutation, Doc
  <2>2. QED
    BY <1>1, <2>1 DEF OwnMutations, Owned
<1>4. QED
  BY <1>2, <1>3

\* A write of a mutation that keeps pictures where they belong.
LEMMA WriteOwned ==
  ASSUME TypeOK, PicturesInv, NEW d \in Device, NEW ms \in Seq(Mutation),
         WriteLocally(d, ms), UNCHANGED <<server, cache>>,
         \A i \in 1..Len(ms) : ms[i] \in OwnMutations,
         \A e \in Path : OwnDocs[e] \subseteq OwnDocs'[e],
         OwnMutations \subseteq OwnMutations'
  PROVE  DocsWithin(OwnDocs, OwnMutations)'
<1>1. PICK A, M : A = OwnDocs /\ M = OwnMutations
  OBVIOUS
<1>2. DocsWithin(A, M)'
  BY <1>1, WriteWithin DEF TypeOK, PicturesInv
<1>3. M \subseteq OwnMutations' /\ \A e \in Path : A[e] \subseteq OwnDocs'[e]
  BY <1>1
<1>4. QED
  BY <1>2, <1>3, DocsWithinGrow

\* The parts of PicturesKeepTheirOwner.
StoredOwned ==
  \A e \in Path : /\ server[e] # NoDoc => Owned(e, server[e].picture)
                  /\ Owned(e, object[e])
ViewsOwned ==
  \A d \in Device : /\ Owned(shown[d].email, shown[d].doc.picture)
                    /\ form[d] # NoForm => Owned(form[d].email, form[d].doc.picture)
UploadsOwned ==
  \A d \in Device : \A up \in uploads[d] :
    Owned(up.profile.email, up.image) /\ Owned(up.profile.email, up.profile.doc.picture)
CallsOwned ==
  \A d \in Device : \A call \in urlCalls[d] : Owned(call.email, call.reply)

LEMMA OwnerParts ==
  /\ PicturesKeepTheirOwner <=> StoredOwned /\ ViewsOwned /\ UploadsOwned /\ CallsOwned
  /\ PicturesKeepTheirOwner' <=>
       StoredOwned' /\ ViewsOwned' /\ UploadsOwned' /\ CallsOwned'
BY DEF PicturesKeepTheirOwner, StoredOwned, ViewsOwned, UploadsOwned, CallsOwned, Owned

LEMMA NetworkOwned ==
  ASSUME TypeOK, PicturesInv, NEW d \in Device, UNCHANGED <<appVars, storageVars>>,
         Deliver(d) \/ Ack(d) \/ Reject(d) \/ BreakStream(d) \/ Watch(d)
  PROVE  PicturesInv'
<1>1. PICK A, M : A = OwnDocs /\ M = OwnMutations
  OBVIOUS
<1>2. A = OwnDocs' /\ M = OwnMutations'
  BY <1>1, OwnDocsConstant DEF storageVars
<1>3. DocsWithin(A, M)'
  BY <1>1, OwnClosed, NetworkWithin DEF TypeOK, PicturesInv
<1>4. DocsWithin(OwnDocs, OwnMutations)'
  BY <1>2, <1>3 DEF DocsWithin
<1>5. StoredOwned'
  <2>1. \A e \in Path : server'[e] \in OwnDocs'[e]
    BY <1>2, <1>3 DEF DocsWithin
  <2>2. \A e \in Path : (server[e] # NoDoc => Owned(e, server[e].picture))'
    BY <2>1 DEF OwnDocs
  <2>3. \A e \in Path : Owned(e, object[e])'
    BY OwnerParts DEF PicturesInv, StoredOwned, Owned, storageVars
  <2>4. QED
    BY <2>2, <2>3 DEF StoredOwned, Owned
<1>6. PicturesKeepTheirOwner'
  <2>1. ViewsOwned' /\ UploadsOwned' /\ CallsOwned'
    BY OwnerParts DEF PicturesInv, ViewsOwned, UploadsOwned, CallsOwned, Owned,
                      appVars, storageVars
  <2>2. QED
    BY <1>5, <2>1, OwnerParts
<1>7. QED
  BY <1>1, <1>2, <1>4, <1>6 DEF PicturesInv, appVars

\* The save of a profile whose own picture it has.
LEMMA SaveOwned ==
  ASSUME TypeOK, PicturesInv, NEW d \in Device, NEW profile \in Profile,
         updateProfile(d, profile), UNCHANGED <<server, cache>>,
         Owned(profile.email, profile.doc.picture),
         \A e \in Path : OwnDocs[e] \subseteq OwnDocs'[e],
         OwnMutations \subseteq OwnMutations'
  PROVE  DocsWithin(OwnDocs, OwnMutations)'
<1> DEFINE m == SetDoc(profile.email, profile.doc)
<1>1. m \in Mutation /\ m.path = profile.email /\ m.value = profile.doc
  BY MutationTypes DEF Profile, SetDoc
<1>2. WriteLocally(d, <<m>>)
  BY DEF updateProfile
<1> HIDE DEF m
<1>3. m \in OwnMutations
  BY <1>1 DEF OwnMutations
<1>4. <<m>> \in Seq(Mutation) /\ \A i \in 1..Len(<<m>>) : <<m>>[i] \in OwnMutations
  BY <1>1, <1>3
<1>5. QED
  BY <1>2, <1>4, WriteOwned

LEMMA UserStepOwned ==
  ASSUME TypeOK, PicturesInv, NEW d \in Device, UserStep(d)
  PROVE  PicturesInv'
<1> USE DEF appVars, storageVars
<1>0. /\ FirestoreTypeOK /\ DocsWithin(OwnDocs, OwnMutations)
      /\ StoredOwned /\ ViewsOwned /\ UploadsOwned /\ CallsOwned
      /\ \A c \in Device, e \in Path : profiles[c][e] \in OwnDocs[e]
  BY OwnerParts DEF TypeOK, PicturesInv
<1>1. ASSUME UNCHANGED <<server, queue, cache, appVars, storageVars>>
      PROVE  PicturesInv'
  BY <1>1, OwnDocsConstant DEF PicturesInv, PicturesKeepTheirOwner, DocsWithin
<1>2. ASSUME UNCHANGED <<server, queue, cache, profiles, uploads, urlCalls, storageVars>>,
             ViewsOwned'
      PROVE  PicturesInv'
  BY <1>0, <1>2, OwnDocsConstant, OwnerParts
     DEF PicturesInv, DocsWithin, StoredOwned, UploadsOwned, CallsOwned, Owned
<1>3. ASSUME NEW u \in User, SignIn(d, u) PROVE PicturesInv'
  <2>1. ViewsOwned'
    BY <1>0, <1>3 DEF SignIn, ViewsOwned, Owned
  <2>2. QED
    BY <1>2, <1>3, <2>1 DEF SignIn
<1>4. ASSUME SignOut(d) PROVE PicturesInv'
  BY <1>1, <1>4 DEF SignOut
<1>5. ASSUME OpenMyProfile(d) PROVE PicturesInv'
  <2> DEFINE mine == getUserProfile(d)
  <2>1. Owned(mine.email, mine.doc.picture)
    <3>1. CASE profiles[d][user[d]] \in Doc
      <4>1. user[d] \in Path
        BY <1>5, ProfileAssumption DEF OpenMyProfile, TypeOK, FirestoreTypeOK, Credential
      <4>2. profiles[d][user[d]] # NoDoc
        BY <3>1, FirestoreAssumption
      <4>3. QED
        BY <1>0, <3>1, <4>1, <4>2 DEF getUserProfile, OwnDocs
    <3>2. CASE profiles[d][user[d]] \notin Doc
      BY <1>0, <3>2 DEF getUserProfile, ViewsOwned
    <3>3. QED
      BY <3>1, <3>2
  <2>2. /\ shown' = [shown EXCEPT ![d] = mine] /\ form' = [form EXCEPT ![d] = mine]
        /\ owner' = owner
    BY <1>5 DEF OpenMyProfile
  <2> HIDE DEF mine
  <2>3. ViewsOwned'
    BY <1>0, <2>1, <2>2 DEF ViewsOwned, Owned, TypeOK
  <2>4. QED
    BY <1>2, <1>5, <2>3 DEF OpenMyProfile, firestoreVars
<1>6. ASSUME Cancel(d) PROVE PicturesInv'
  <2>1. ViewsOwned'
    BY <1>0, <1>6 DEF Cancel, ViewsOwned, Owned, TypeOK
  <2>2. QED
    BY <1>2, <1>6, <2>1 DEF Cancel, firestoreVars
<1>7. ASSUME NEW text \in Text, NEW projects \in SUBSET Project, form[d] # NoForm
      PROVE  LET edited == Edited(form[d], text, projects)
             IN /\ edited \in Profile /\ edited.email = form[d].email
                /\ Owned(edited.email, edited.doc.picture)
  <2>1. form[d] \in Profile
    BY <1>7 DEF TypeOK
  <2>2. Edited(form[d], text, projects).doc.picture = form[d].doc.picture
    BY <2>1 DEF Edited, Profile, Doc
  <2>3. QED
    BY <1>0, <1>7, <2>1, <2>2, EditedType DEF ViewsOwned
<1>8. ASSUME NEW text \in Text, NEW projects \in SUBSET Project, Done(d, text, projects)
      PROVE  PicturesInv'
  <2>1. DocsWithin(OwnDocs, OwnMutations)'
    BY <1>7, <1>8, OwnDocsConstant, SaveOwned DEF Done
  <2>2. ViewsOwned'
    BY <1>0, <1>8 DEF Done, ViewsOwned, Owned, TypeOK
  <2>3. StoredOwned' /\ UploadsOwned' /\ CallsOwned'
    BY <1>0, <1>8 DEF Done, StoredOwned, UploadsOwned, CallsOwned, Owned
  <2>4. \A c \in Device, e \in Path : profiles'[c][e] \in OwnDocs'[e]
    BY <1>0, <1>8, OwnDocsConstant DEF Done
  <2>5. QED
    BY <2>1, <2>2, <2>3, <2>4, OwnerParts DEF PicturesInv
<1>9. ASSUME NEW text \in Text, NEW projects \in SUBSET Project,
             NEW image \in Picture, DoneWithPicture(d, text, projects, image)
      PROVE  PicturesInv'
  <2>0. PICK edited, up :
          /\ edited = Edited(form[d], text, projects)
          /\ up = [profile |-> edited, image |-> image, stored |-> FALSE]
    OBVIOUS
  <2>1. /\ edited \in Profile /\ edited.email = form[d].email
        /\ Owned(edited.email, edited.doc.picture) /\ form[d] \in Profile
        /\ edited.email \in Path /\ edited.doc.picture \in Picture
    BY <1>7, <1>9, <2>0 DEF DoneWithPicture, TypeOK, Profile, Doc
  <2>2. \A e \in Path, url \in Picture \cup {NoUrl} : Owned(e, url) => Owned(e, url)'
    BY <1>9, PickKeepsOwned
  <2>3. /\ \A e \in Path : OwnDocs[e] \subseteq OwnDocs'[e]
        /\ OwnMutations \subseteq OwnMutations'
    BY <1>9, OwnDocsGrow
  <2>4. Owned(edited.email, image)'
    BY <1>9, <2>1 DEF DoneWithPicture, Owned, TypeOK
  <2>5. DocsWithin(OwnDocs, OwnMutations)'
    BY <1>9, <2>0, <2>1, <2>3, SaveOwned DEF DoneWithPicture
  <2>6. /\ uploads' = [uploads EXCEPT ![d] = @ \cup {up}]
        /\ form' = [form EXCEPT ![d] = NoForm]
        /\ UNCHANGED <<server, profiles, shown, urlCalls, object>>
    BY <1>9, <2>0 DEF DoneWithPicture
  <2>7. up.profile = edited /\ up.image = image
    BY <2>0
  <2>8. StoredOwned'
    <3>1. \A e \in Path : server[e] # NoDoc => server[e].picture \in Picture
      BY DEF TypeOK, FirestoreTypeOK, MaybeDoc, Doc
    <3>2. QED
      BY <1>0, <2>2, <2>6, <3>1 DEF StoredOwned, TypeOK
  <2>9. ViewsOwned'
    <3>1. \A c \in Device : /\ shown[c].email \in Path
                            /\ shown[c].doc.picture \in Picture
      BY DEF TypeOK, Profile, Doc
    <3>2. \A c \in Device : form[c] # NoForm =>
            form[c].email \in Path /\ form[c].doc.picture \in Picture
      BY DEF TypeOK, Profile, Doc
    <3>3. QED
      BY <1>0, <2>2, <2>6, <3>1, <3>2 DEF ViewsOwned, TypeOK
  <2>10. UploadsOwned'
    <3> SUFFICES ASSUME NEW c \in Device, NEW other \in uploads'[c]
                 PROVE  /\ Owned(other.profile.email, other.image)'
                        /\ Owned(other.profile.email, other.profile.doc.picture)'
      BY DEF UploadsOwned
    <3>1. CASE other = up
      BY <2>1, <2>2, <2>4, <2>7, <3>1
    <3>2. CASE other # up
      <4>1. other \in uploads[c] /\ other \in Upload
        BY <2>6, <3>2 DEF TypeOK
      <4>2. /\ other.profile.email \in Path /\ other.image \in Picture
            /\ other.profile.doc.picture \in Picture
        BY <4>1 DEF Upload, Profile, Doc
      <4>3. QED
        BY <1>0, <2>2, <4>1, <4>2 DEF UploadsOwned
    <3>3. QED
      BY <3>1, <3>2
  <2>11. CallsOwned'
    <3>1. \A c \in Device : \A call \in urlCalls[c] :
            call.email \in Path /\ call.reply \in Picture \cup {NoUrl}
      BY DEF TypeOK, UrlCall
    <3>2. QED
      BY <1>0, <2>2, <2>6, <3>1 DEF CallsOwned
  <2>12. \A c \in Device, e \in Path : profiles'[c][e] \in OwnDocs'[e]
    BY <1>0, <2>3, <2>6
  <2>13. QED
    BY <2>5, <2>8, <2>9, <2>10, <2>11, <2>12, OwnerParts DEF PicturesInv
<1>10. ASSUME NEW participants \in Selection, NEW project \in Project,
              setParticipants(d, participants, project)
       PROVE  PicturesInv'
  <2> DEFINE ms == [i \in 1..Len(participants) |->
                      UnionProject(participants[i], project)]
  <2>1. participants \in Seq(Path)
    BY SelectionType
  <2>2. ms \in Seq(Mutation)
    BY <2>1, MutationTypes
  <2>3. \A i \in 1..Len(ms) : ms[i] \in OwnMutations
    BY <2>1, <2>2 DEF UnionProject, OwnMutations
  <2>4. UNCHANGED <<server, cache, appVars, storageVars>> /\ WriteLocally(d, ms)
    BY <1>10 DEF setParticipants
  <2> HIDE DEF ms
  <2>5. DocsWithin(OwnDocs, OwnMutations)'
    BY <2>2, <2>3, <2>4, OwnDocsConstant, WriteOwned
  <2>6. StoredOwned' /\ ViewsOwned' /\ UploadsOwned' /\ CallsOwned'
    BY <1>0, <2>4 DEF StoredOwned, ViewsOwned, UploadsOwned, CallsOwned, Owned
  <2>7. QED
    BY <1>0, <2>4, <2>5, <2>6, OwnDocsConstant, OwnerParts DEF PicturesInv
<1>11. QED
  BY <1>3, <1>4, <1>5, <1>6, <1>8, <1>9, <1>10 DEF UserStep

LEMMA PlaceholderOwned == Owned(Placeholder, BlankDoc.picture)
BY DEF Owned, BlankDoc

LEMMA MishapOwned ==
  ASSUME TypeOK, PicturesInv, NEW d \in Device, Mishap(d)
  PROVE  PicturesInv'
<1> USE DEF appVars, storageVars
<1>0. /\ DocsWithin(OwnDocs, OwnMutations)
      /\ StoredOwned /\ ViewsOwned /\ UploadsOwned /\ CallsOwned
      /\ \A c \in Device, e \in Path : profiles[c][e] \in OwnDocs[e]
  BY OwnerParts DEF PicturesInv
<1>1. ASSUME Restart(d) PROVE PicturesInv'
  <2>1. UNCHANGED <<server, queue, cache, object, owner>>
    BY <1>1 DEF Restart
  <2>2. DocsWithin(OwnDocs, OwnMutations)' /\ StoredOwned'
    BY <1>0, <2>1, OwnDocsConstant DEF DocsWithin, StoredOwned, Owned
  <2>3. ViewsOwned'
    BY <1>0, <1>1, <2>1, PlaceholderOwned
       DEF Restart, ViewsOwned, Owned, TypeOK, PlaceholderProfile
  <2>4. UploadsOwned' /\ CallsOwned'
    BY <1>0, <1>1, <2>1 DEF Restart, UploadsOwned, CallsOwned, Owned, TypeOK
  <2>5. \A c \in Device, e \in Path : profiles'[c][e] \in OwnDocs'[e]
    <3>1. \A e \in Path : NoDoc \in OwnDocs[e]
      BY DEF OwnDocs, MaybeDoc
    <3>2. QED
      BY <1>0, <1>1, <2>1, <3>1, OwnDocsConstant DEF Restart, TypeOK
  <2>6. QED
    BY <2>2, <2>3, <2>4, <2>5, OwnerParts DEF PicturesInv
<1>2. ASSUME NEW up \in uploads[d], UploadFailed(d, up) PROVE PicturesInv'
  <2>1. UNCHANGED <<server, queue, cache, object, owner>>
        /\ UNCHANGED <<profiles, shown, form, urlCalls>>
    BY <1>2 DEF UploadFailed, firestoreVars
  <2>2. DocsWithin(OwnDocs, OwnMutations)' /\ StoredOwned' /\ ViewsOwned' /\ CallsOwned'
    BY <1>0, <2>1, OwnDocsConstant
       DEF DocsWithin, StoredOwned, ViewsOwned, CallsOwned, Owned
  <2>3. UploadsOwned'
    BY <1>0, <1>2, <2>1 DEF UploadFailed, UploadsOwned, Owned, TypeOK
  <2>4. QED
    BY <1>0, <2>1, <2>2, <2>3, OwnDocsConstant, OwnerParts DEF PicturesInv
<1>3. QED
  BY <1>1, <1>2, NetworkOwned DEF Mishap, Network

LEMMA SystemStepOwned ==
  ASSUME TypeOK, PicturesInv, NEW d \in Device, SystemStep(d)
  PROVE  PicturesInv'
<1> USE DEF appVars, storageVars
<1>0. /\ FirestoreTypeOK /\ DocsWithin(OwnDocs, OwnMutations)
      /\ StoredOwned /\ ViewsOwned /\ UploadsOwned /\ CallsOwned
      /\ \A c \in Device, e \in Path : profiles[c][e] \in OwnDocs[e]
  BY OwnerParts DEF TypeOK, PicturesInv
<1>1. ASSUME Snapshot(d) PROVE PicturesInv'
  <2>1. UNCHANGED <<server, queue, cache, shown, form, uploads, urlCalls, object, owner>>
    BY <1>1 DEF Snapshot, firestoreVars
  <2>2. PicturesKeepTheirOwner' /\ DocsWithin(OwnDocs, OwnMutations)'
    BY <1>0, <2>1, OwnDocsConstant, OwnerParts
       DEF DocsWithin, StoredOwned, ViewsOwned, UploadsOwned, CallsOwned, Owned
  <2>3. \A e \in Path : LocalView(d, e) \in OwnDocs[e] /\ NoDoc \in OwnDocs[e]
    BY <1>0, OwnClosed, LocalViewWithin DEF OwnDocs, MaybeDoc
  <2>4. profiles' = [profiles EXCEPT ![d] = [p \in Path |->
          IF LocalView(d, p) \in Doc THEN LocalView(d, p) ELSE NoDoc]]
    BY <1>1 DEF Snapshot
  <2>5. \A c \in Device, e \in Path : profiles'[c][e] \in OwnDocs'[e]
    BY <1>0, <2>1, <2>3, <2>4, OwnDocsConstant DEF TypeOK
  <2>6. QED
    BY <2>2, <2>5 DEF PicturesInv
<1>2. ASSUME NEW up \in uploads[d], StoreImage(d, up) PROVE PicturesInv'
  <2>0. PICK stored : stored = [up EXCEPT !.stored = TRUE]
    OBVIOUS
  <2>1. up \in Upload /\ up.profile.email \in Path
        /\ stored.profile = up.profile /\ stored.image = up.image
    BY <2>0 DEF TypeOK, Upload, Profile
  <2>2. /\ UNCHANGED <<server, queue, cache, profiles, shown, form, urlCalls, owner>>
        /\ object' = [object EXCEPT ![up.profile.email] = up.image]
        /\ uploads' = [uploads EXCEPT ![d] = (@ \ {up}) \cup {stored}]
    BY <1>2, <2>0 DEF StoreImage, firestoreVars
  <2>3. Owned(up.profile.email, up.image) /\ Owned(up.profile.email, up.profile.doc.picture)
    BY <1>0 DEF UploadsOwned
  <2>4. DocsWithin(OwnDocs, OwnMutations)' /\ ViewsOwned' /\ CallsOwned'
    BY <1>0, <2>2, OwnDocsConstant DEF DocsWithin, ViewsOwned, CallsOwned, Owned
  <2>5. StoredOwned'
    <3>1. \A e \in Path : server'[e] = server[e] /\
            (object'[e] = object[e] \/ (e = up.profile.email /\ object'[e] = up.image))
      BY <2>1, <2>2 DEF TypeOK
    <3>2. QED
      BY <1>0, <2>2, <2>3, <3>1 DEF StoredOwned, Owned
  <2>6. UploadsOwned'
    <3>1. \A c \in Device : \A other \in uploads'[c] : other \in uploads[c] \/ other = stored
      BY <2>2 DEF TypeOK
    <3>2. QED
      BY <1>0, <2>1, <2>2, <2>3, <3>1 DEF UploadsOwned, Owned
  <2>7. QED
    BY <1>0, <2>2, <2>4, <2>5, <2>6, OwnDocsConstant, OwnerParts DEF PicturesInv
<1>3. ASSUME NEW up \in uploads[d], UploadSucceeded(d, up) PROVE PicturesInv'
  <2>0. PICK call : call = [email |-> up.profile.email, image |-> up.image, reply |-> NoUrl]
    OBVIOUS
  <2>1. up.profile \in Profile /\ Owned(up.profile.email, up.profile.doc.picture)
    BY <1>0 DEF TypeOK, Upload, UploadsOwned
  <2>2. /\ UNCHANGED <<server, cache, profiles, shown, form, object, owner>>
        /\ uploads' = [uploads EXCEPT ![d] = @ \ {up}]
        /\ urlCalls' = [urlCalls EXCEPT ![d] = @ \cup {call}]
        /\ updateProfile(d, up.profile)
    BY <1>3, <2>0 DEF UploadSucceeded
  <2>3. DocsWithin(OwnDocs, OwnMutations)'
    BY <2>1, <2>2, OwnDocsConstant, SaveOwned
  <2>4. StoredOwned' /\ ViewsOwned'
    BY <1>0, <2>2 DEF StoredOwned, ViewsOwned, Owned
  <2>5. UploadsOwned'
    BY <1>0, <2>2 DEF UploadsOwned, Owned, TypeOK
  <2>6. CallsOwned'
    <3>1. \A c \in Device : \A other \in urlCalls'[c] : other \in urlCalls[c] \/ other = call
      BY <2>2 DEF TypeOK
    <3>2. QED
      BY <1>0, <2>0, <2>2, <3>1 DEF CallsOwned, Owned
  <2>7. QED
    BY <1>0, <2>2, <2>3, <2>4, <2>5, <2>6, OwnDocsConstant, OwnerParts DEF PicturesInv
<1>4. ASSUME NEW call \in urlCalls[d], AnswerUrl(d, call) PROVE PicturesInv'
  <2>0. PICK answered : answered = [call EXCEPT !.reply = object[call.email]]
    OBVIOUS
  <2>1. /\ call \in UrlCall /\ call.email \in Path
        /\ answered.email = call.email /\ answered.reply = object[call.email]
    BY <2>0 DEF TypeOK, UrlCall
  <2>2. /\ UNCHANGED <<server, queue, cache, profiles, shown, form, uploads, object, owner>>
        /\ urlCalls' = [urlCalls EXCEPT ![d] = (@ \ {call}) \cup {answered}]
    BY <1>4, <2>0 DEF AnswerUrl, firestoreVars
  <2>3. CallsOwned'
    <3>1. \A c \in Device : \A other \in urlCalls'[c] :
            other \in urlCalls[c] \/ other = answered
      BY <2>2 DEF TypeOK
    <3>2. Owned(answered.email, answered.reply)
      BY <1>0, <2>1 DEF StoredOwned
    <3>3. QED
      BY <1>0, <2>2, <3>1, <3>2 DEF CallsOwned, Owned
  <2>4. DocsWithin(OwnDocs, OwnMutations)' /\ StoredOwned' /\ ViewsOwned' /\ UploadsOwned'
    BY <1>0, <2>2, OwnDocsConstant
       DEF DocsWithin, StoredOwned, ViewsOwned, UploadsOwned, Owned
  <2>5. QED
    BY <1>0, <2>2, <2>3, <2>4, OwnDocsConstant, OwnerParts DEF PicturesInv
<1>5. ASSUME NEW call \in urlCalls[d], UrlReceived(d, call) PROVE PicturesInv'
  <2>0. PICK m : m = UpdatePicture(call.email, call.reply)
    OBVIOUS
  <2>1. /\ call \in UrlCall /\ call.reply \in Picture /\ call.email \in Path
        /\ Owned(call.email, call.reply)
    BY <1>0, <1>5 DEF UrlReceived, TypeOK, UrlCall, CallsOwned
  <2>2. m \in Mutation /\ m.path = call.email /\ m.value.picture = call.reply
    BY <2>0, <2>1, MutationTypes DEF UpdatePicture, BlankDoc
  <2>3. m \in OwnMutations
    BY <2>1, <2>2 DEF OwnMutations
  <2>4. /\ UNCHANGED <<server, cache, profiles, shown, form, uploads, object, owner>>
        /\ WriteLocally(d, <<m>>)
        /\ urlCalls' = [urlCalls EXCEPT ![d] = @ \ {call}]
    BY <1>5, <2>0 DEF UrlReceived
  <2>5. <<m>> \in Seq(Mutation) /\ \A i \in 1..Len(<<m>>) : <<m>>[i] \in OwnMutations
    BY <2>2, <2>3
  <2>6. DocsWithin(OwnDocs, OwnMutations)'
    BY <2>4, <2>5, OwnDocsConstant, WriteOwned
  <2>7. StoredOwned' /\ ViewsOwned' /\ UploadsOwned'
    BY <1>0, <2>4 DEF StoredOwned, ViewsOwned, UploadsOwned, Owned
  <2>8. CallsOwned'
    BY <1>0, <2>4 DEF CallsOwned, Owned, TypeOK
  <2>9. QED
    BY <1>0, <2>4, <2>6, <2>7, <2>8, OwnDocsConstant, OwnerParts DEF PicturesInv
<1>6. QED
  BY <1>1, <1>2, <1>3, <1>4, <1>5, NetworkOwned DEF SystemStep, Network

\* No profile on the server, in a form, shown or captured by a callback has a
\* picture that was picked for another profile, nor does Storage hold one under
\* its name.  (Caches, queues and snapshots are in PicturesInv.)
THEOREM PicturesKept == Spec => []PicturesKeepTheirOwner
<1>1. Init => PicturesInv
  <2> SUFFICES ASSUME Init PROVE PicturesInv
    OBVIOUS
  <2>1. \A e \in Path : BlankDoc \in OwnDocs[e] /\ NoDoc \in OwnDocs[e]
    BY BlankDocType DEF OwnDocs, MaybeDoc, Owned, BlankDoc
  <2>2. \A d \in Device, u \in Credential : queue[d][u] = <<>>
    BY DEF Init
  <2>3. DocsWithin(OwnDocs, OwnMutations)
    BY <2>1, <2>2, SMTT(60) DEF DocsWithin, Init
  <2>4. StoredOwned /\ ViewsOwned /\ UploadsOwned /\ CallsOwned
    BY PlaceholderOwned DEF Init, StoredOwned, ViewsOwned, UploadsOwned, CallsOwned,
         Owned, BlankDoc, PlaceholderProfile
  <2>5. QED
    BY <2>1, <2>3, <2>4, OwnerParts DEF Init, PicturesInv
<1>2. TypeOK /\ PicturesInv /\ [Next]_vars => PicturesInv'
  <2>1. PicturesInv /\ UNCHANGED vars => PicturesInv'
    BY OwnDocsConstant DEF vars, firestoreVars, appVars, storageVars, PicturesInv,
         PicturesKeepTheirOwner, DocsWithin
  <2>2. QED
    BY <2>1, UserStepOwned, MishapOwned, SystemStepOwned DEF Next
<1>3. PicturesInv => PicturesKeepTheirOwner
  BY DEF PicturesInv
<1>4. QED
  BY <1>1, <1>2, <1>3, TypeCorrect, PTL DEF Spec

-----------------------------------------------------------------------------
(* A settled participant is only removed by the user's own deselection.       *)

\* The documents and mutations that leave project p in profile e.
Naming(e, p) == [q \in Path |->
  {doc \in MaybeDoc : q = e /\ doc # NoDoc => p \in doc.projects}]
NamingMutations(e, p) ==
  {m \in Mutation : m.op = "set" /\ m.path = e => p \in m.value.projects}

Names(profile, e, p) == profile.email = e => p \in profile.doc.projects

\* The part of Settled that is about views and callbacks.
SettledViews(e, p) ==
  \A d \in Device :
    /\ profiles[d][e] # NoDoc => p \in profiles[d][e].projects
    /\ Names(shown[d], e, p)
    /\ form[d] # NoForm => Names(form[d], e, p)
    /\ \A up \in uploads[d] : Names(up.profile, e, p)

LEMMA NamingClosed ==
  ASSUME NEW e \in Path, NEW p \in Project
  PROVE  Closed(Naming(e, p), NamingMutations(e, p))
<1> SUFFICES ASSUME NEW m \in NamingMutations(e, p), NEW doc \in MaybeDoc,
                    doc \in Naming(e, p)[m.path]
             PROVE  Apply(m, doc) \in Naming(e, p)[m.path]
  BY DEF Closed
<1>1. m \in Mutation /\ m.path \in Path
  BY DEF NamingMutations, Mutation
<1>2. Apply(m, doc) \in MaybeDoc
  BY <1>1, ApplyType
<1>3. m.path = e /\ doc # NoDoc => doc \in Doc /\ p \in doc.projects
  BY <1>1 DEF Naming, MaybeDoc
<1>4. m.op = "set" /\ m.path = e => p \in m.value.projects
  BY DEF NamingMutations
<1>5. SUFFICES ASSUME m.path = e, Apply(m, doc) # NoDoc
               PROVE  p \in Apply(m, doc).projects
  BY <1>1, <1>2 DEF Naming
<1>6. CASE m.op = "set"
  BY <1>4, <1>5, <1>6 DEF Apply, PreconditionHolds, Merge
<1>7. CASE m.op = "picture"
  BY <1>3, <1>5, <1>7 DEF Apply, PreconditionHolds, Merge, Doc
<1>8. CASE m.op = "join"
  BY <1>3, <1>5, <1>8 DEF Apply, PreconditionHolds, Merge, Doc
<1>9. QED
  BY <1>1, <1>6, <1>7, <1>8 DEF Mutation

LEMMA SettledParts ==
  ASSUME TypeOK, NEW e \in Path, NEW p \in Project
  PROVE  Settled(e, p) <=> /\ server[e] # NoDoc
                           /\ DocsWithin(Naming(e, p), NamingMutations(e, p))
                           /\ SettledViews(e, p)
<1>1. /\ \A q \in Path : server[q] \in MaybeDoc
      /\ \A d \in Device, q \in Path : cache[d][q] \in MaybeDoc
  BY DEF TypeOK, FirestoreTypeOK
<1>2. \A d \in Device, u \in Credential : queue[d][u] \in Seq(Mutation)
  BY DEF TypeOK, FirestoreTypeOK
<1>3. \A d \in Device, u \in Credential : \A i \in 1..Len(queue[d][u]) :
        queue[d][u][i] \in Mutation
  BY <1>2
<1>4. DocsWithin(Naming(e, p), NamingMutations(e, p)) <=>
        /\ server[e] # NoDoc => p \in server[e].projects
        /\ \A d \in Device : cache[d][e] # NoDoc => p \in cache[d][e].projects
        /\ \A d \in Device, u \in Credential : \A i \in 1..Len(queue[d][u]) :
             queue[d][u][i] \in NamingMutations(e, p)
  BY <1>1 DEF DocsWithin, Naming
<1>5. \A d \in Device, u \in Credential : \A i \in 1..Len(queue[d][u]) :
        queue[d][u][i] \in NamingMutations(e, p) <=>
          (queue[d][u][i].op = "set" /\ queue[d][u][i].path = e
             => p \in queue[d][u][i].value.projects)
  BY <1>3 DEF NamingMutations
<1>6. QED
  BY <1>4, <1>5 DEF Settled, SettledViews, Names

\* The same, for every document and project and also in the next state.
SplitSettled ==
  TypeOK => \A e \in Path, p \in Project :
    Settled(e, p) <=> /\ server[e] # NoDoc
                      /\ DocsWithin(Naming(e, p), NamingMutations(e, p))
                      /\ SettledViews(e, p)

LEMMA SettledSplit == SplitSettled
BY SettledParts DEF SplitSettled

LEMMA SettledSplitNext == SplitSettled'
BY SettledSplit, PTL

SettledDocs(e, p) == DocsWithin(Naming(e, p), NamingMutations(e, p))

\* A save from which p is missing is not one of e.
LEMMA SaveSettled ==
  ASSUME TypeOK, NEW e \in Path, NEW p \in Project, SettledDocs(e, p),
         NEW d \in Device, NEW profile \in Profile, updateProfile(d, profile),
         UNCHANGED <<server, cache>>, Names(profile, e, p)
  PROVE  SettledDocs(e, p)'
<1> DEFINE m == SetDoc(profile.email, profile.doc)
<1>1. m \in Mutation /\ m.path = profile.email /\ m.value = profile.doc
  BY MutationTypes DEF Profile, SetDoc
<1>2. WriteLocally(d, <<m>>)
  BY DEF updateProfile
<1> HIDE DEF m
<1>3. m \in NamingMutations(e, p)
  BY <1>1 DEF NamingMutations, Names
<1>4. <<m>> \in Seq(Mutation)
      /\ \A i \in 1..Len(<<m>>) : <<m>>[i] \in NamingMutations(e, p)
  BY <1>1, <1>3
<1>5. QED
  BY <1>2, <1>4, WriteWithin DEF TypeOK, SettledDocs

LEMMA UserStepSettled ==
  ASSUME TypeOK, NEW e \in Path, NEW p \in Project,
         SettledDocs(e, p), SettledViews(e, p), NEW d \in Device, UserStep(d)
  PROVE  \/ SettledDocs(e, p)' /\ SettledViews(e, p)'
         \/ /\ form[d] # NoForm /\ form[d].email = e
            /\ \E text \in Text, projects \in SUBSET (Project \ {p}) :
                 \/ Done(d, text, projects)
                 \/ \E image \in Picture : DoneWithPicture(d, text, projects, image)
<1> USE DEF appVars, storageVars
<1>1. ASSUME UNCHANGED <<server, queue, cache>> PROVE SettledDocs(e, p)'
  BY <1>1 DEF SettledDocs, DocsWithin
<1>2. ASSUME NEW u \in User, SignIn(d, u) PROVE SettledDocs(e, p)' /\ SettledViews(e, p)'
  BY <1>1, <1>2 DEF SignIn, SettledViews
<1>3. ASSUME SignOut(d) PROVE SettledDocs(e, p)' /\ SettledViews(e, p)'
  BY <1>1, <1>3 DEF SignOut, SettledViews
<1>4. ASSUME OpenMyProfile(d) PROVE SettledDocs(e, p)' /\ SettledViews(e, p)'
  <2> DEFINE mine == getUserProfile(d)
  <2>1. Names(mine, e, p)
    <3>1. CASE profiles[d][user[d]] \in Doc
      <4>1. profiles[d][user[d]] # NoDoc
        BY <3>1, FirestoreAssumption
      <4>2. mine = [email |-> user[d], doc |-> profiles[d][user[d]]]
        BY <3>1 DEF getUserProfile
      <4>3. QED
        BY <4>1, <4>2 DEF Names, SettledViews
    <3>2. CASE profiles[d][user[d]] \notin Doc
      BY <3>2 DEF getUserProfile, SettledViews
    <3>3. QED
      BY <3>1, <3>2
  <2>2. /\ shown' = [shown EXCEPT ![d] = mine] /\ form' = [form EXCEPT ![d] = mine]
        /\ UNCHANGED <<server, queue, cache, profiles, uploads>>
    BY <1>4 DEF OpenMyProfile, firestoreVars
  <2> HIDE DEF mine
  <2>3. QED
    BY <1>1, <2>1, <2>2 DEF SettledViews, TypeOK
<1>5. ASSUME Cancel(d) PROVE SettledDocs(e, p)' /\ SettledViews(e, p)'
  <2>1. SettledDocs(e, p)'
    BY <1>1, <1>5 DEF Cancel, firestoreVars
  <2>2. QED
    BY <1>5, <2>1 DEF Cancel, firestoreVars, SettledViews, TypeOK
<1>6. ASSUME NEW text \in Text, NEW projects \in SUBSET Project, form[d] # NoForm,
             form[d].email = e => p \in projects
      PROVE  /\ Edited(form[d], text, projects) \in Profile
             /\ Names(Edited(form[d], text, projects), e, p)
  <2>1. form[d] \in Profile
    BY <1>6 DEF TypeOK
  <2>2. Edited(form[d], text, projects).doc.projects = projects
    BY <2>1 DEF Edited, Profile, Doc
  <2>3. QED
    BY <1>6, <2>1, <2>2, EditedType DEF Names
<1>7. ASSUME NEW text \in Text, NEW projects \in SUBSET Project, Done(d, text, projects),
             form[d].email = e => p \in projects
      PROVE  SettledDocs(e, p)' /\ SettledViews(e, p)'
  <2>1. SettledDocs(e, p)'
    BY <1>6, <1>7, SaveSettled DEF Done
  <2>2. SettledViews(e, p)'
    BY <1>7 DEF Done, SettledViews, TypeOK
  <2>3. QED
    BY <2>1, <2>2
<1>8. ASSUME NEW text \in Text, NEW projects \in SUBSET Project, NEW image \in Picture,
             DoneWithPicture(d, text, projects, image),
             form[d].email = e => p \in projects
      PROVE  SettledDocs(e, p)' /\ SettledViews(e, p)'
  <2>0. PICK up : up = [profile |-> Edited(form[d], text, projects),
                        image |-> image, stored |-> FALSE]
    OBVIOUS
  <2>1. SettledDocs(e, p)'
    BY <1>6, <1>8, SaveSettled DEF DoneWithPicture
  <2>2. Names(up.profile, e, p)
    BY <1>6, <1>8, <2>0 DEF DoneWithPicture
  <2>3. /\ uploads' = [uploads EXCEPT ![d] = @ \cup {up}]
        /\ form' = [form EXCEPT ![d] = NoForm]
        /\ UNCHANGED <<profiles, shown>>
    BY <1>8, <2>0 DEF DoneWithPicture
  <2>4. SettledViews(e, p)'
    <3>1. \A c \in Device : \A other \in uploads'[c] : other \in uploads[c] \/ other = up
      BY <2>3 DEF TypeOK
    <3>2. QED
      BY <2>2, <2>3, <3>1 DEF SettledViews, Names, TypeOK
  <2>5. QED
    BY <2>1, <2>4
<1>9. ASSUME NEW participants \in Selection, NEW project \in Project,
             setParticipants(d, participants, project)
      PROVE  SettledDocs(e, p)' /\ SettledViews(e, p)'
  <2> DEFINE ms == [i \in 1..Len(participants) |->
                      UnionProject(participants[i], project)]
  <2>1. participants \in Seq(Path)
    BY SelectionType
  <2>2. ms \in Seq(Mutation)
    BY <2>1, MutationTypes
  <2>3. \A i \in 1..Len(ms) : ms[i] \in NamingMutations(e, p)
    BY <2>1, <2>2 DEF UnionProject, NamingMutations
  <2>4. UNCHANGED <<server, cache, appVars>> /\ WriteLocally(d, ms)
    BY <1>9 DEF setParticipants
  <2> HIDE DEF ms
  <2>5. SettledDocs(e, p)'
    BY <2>2, <2>3, <2>4, WriteWithin DEF TypeOK, SettledDocs
  <2>6. QED
    BY <2>4, <2>5 DEF SettledViews, Names
<1>10. QED
  <2>1. ASSUME NEW text \in Text, NEW projects \in SUBSET Project,
               form[d] # NoForm, ~(form[d].email = e => p \in projects)
        PROVE  form[d].email = e /\ projects \in SUBSET (Project \ {p})
    BY <2>1
  <2>2. ASSUME NEW text \in Text, NEW projects \in SUBSET Project,
               Done(d, text, projects) \/
                 \E image \in Picture : DoneWithPicture(d, text, projects, image)
        PROVE  form[d] # NoForm
    BY <2>2 DEF Done, DoneWithPicture
  <2>3. QED
    BY <1>2, <1>3, <1>4, <1>5, <1>7, <1>8, <1>9, <2>1, <2>2 DEF UserStep

LEMMA MishapSettled ==
  ASSUME TypeOK, NEW e \in Path \ {Placeholder}, NEW p \in Project,
         SettledDocs(e, p), SettledViews(e, p), NEW d \in Device, Mishap(d)
  PROVE  SettledDocs(e, p)' /\ SettledViews(e, p)'
<1> USE DEF appVars, storageVars
<1>1. ASSUME UNCHANGED <<server, queue, cache>> PROVE SettledDocs(e, p)'
  BY <1>1 DEF SettledDocs, DocsWithin
<1>2. ASSUME Restart(d) PROVE SettledDocs(e, p)' /\ SettledViews(e, p)'
  <2>1. SettledDocs(e, p)'
    BY <1>1, <1>2 DEF Restart
  <2>2. Names(PlaceholderProfile, e, p)
    BY DEF Names, PlaceholderProfile
  <2>3. SettledViews(e, p)'
    BY <1>2, <2>2 DEF Restart, SettledViews, TypeOK
  <2>4. QED
    BY <2>1, <2>3
<1>3. ASSUME NEW up \in uploads[d], UploadFailed(d, up)
      PROVE  SettledDocs(e, p)' /\ SettledViews(e, p)'
  <2>1. SettledDocs(e, p)'
    BY <1>1, <1>3 DEF UploadFailed, firestoreVars
  <2>2. QED
    BY <1>3, <2>1 DEF UploadFailed, SettledViews, TypeOK
<1>4. ASSUME Network(BreakStream(d)) PROVE SettledDocs(e, p)' /\ SettledViews(e, p)'
  BY <1>1, <1>4 DEF Network, BreakStream, SettledViews, Names
<1>5. QED
  BY <1>2, <1>3, <1>4 DEF Mishap

LEMMA SystemStepSettled ==
  ASSUME TypeOK, NEW e \in Path, NEW p \in Project,
         SettledDocs(e, p), SettledViews(e, p), NEW d \in Device, SystemStep(d)
  PROVE  SettledDocs(e, p)' /\ SettledViews(e, p)'
<1> USE DEF appVars, storageVars
<1>1. ASSUME UNCHANGED <<server, queue, cache>> PROVE SettledDocs(e, p)'
  BY <1>1 DEF SettledDocs, DocsWithin
<1>2. ASSUME Snapshot(d) PROVE SettledDocs(e, p)' /\ SettledViews(e, p)'
  <2>1. LocalView(d, e) # NoDoc => p \in LocalView(d, e).projects
    <3>1. LocalView(d, e) \in MaybeDoc \cap Naming(e, p)[e]
      BY NamingClosed, LocalViewWithin DEF TypeOK, SettledDocs
    <3>2. QED
      BY <3>1 DEF Naming
  <2>2. /\ profiles' = [profiles EXCEPT ![d] = [q \in Path |->
             IF LocalView(d, q) \in Doc THEN LocalView(d, q) ELSE NoDoc]]
        /\ UNCHANGED <<server, queue, cache, shown, form, uploads>>
    BY <1>2 DEF Snapshot, firestoreVars
  <2>3. \A c \in Device : profiles'[c][e] # NoDoc => p \in profiles'[c][e].projects
    BY <2>1, <2>2 DEF SettledViews, TypeOK
  <2>4. SettledViews(e, p)'
    BY <2>2, <2>3 DEF SettledViews, Names
  <2>5. QED
    BY <1>1, <2>2, <2>4
<1>3. ASSUME NEW up \in uploads[d], StoreImage(d, up)
      PROVE  SettledDocs(e, p)' /\ SettledViews(e, p)'
  <2>0. PICK stored : stored = [up EXCEPT !.stored = TRUE]
    OBVIOUS
  <2>1. stored.profile = up.profile
    BY <2>0 DEF TypeOK, Upload
  <2>2. /\ UNCHANGED <<server, queue, cache, profiles, shown, form>>
        /\ uploads' = [uploads EXCEPT ![d] = (@ \ {up}) \cup {stored}]
    BY <1>3, <2>0 DEF StoreImage, firestoreVars
  <2>3. \A c \in Device : \A other \in uploads'[c] : other \in uploads[c] \/
          (c = d /\ other = stored)
    BY <2>2 DEF TypeOK
  <2>4. Names(stored.profile, e, p)
    BY <2>1 DEF SettledViews
  <2>5. SettledViews(e, p)'
    BY <2>2, <2>3, <2>4 DEF SettledViews, Names
  <2>6. QED
    BY <1>1, <2>2, <2>5
<1>4. ASSUME NEW up \in uploads[d], UploadSucceeded(d, up)
      PROVE  SettledDocs(e, p)' /\ SettledViews(e, p)'
  <2>1. up.profile \in Profile /\ Names(up.profile, e, p)
    BY DEF SettledViews, TypeOK, Upload
  <2>2. /\ UNCHANGED <<server, cache, profiles, shown, form>>
        /\ updateProfile(d, up.profile)
        /\ uploads' = [uploads EXCEPT ![d] = @ \ {up}]
    BY <1>4 DEF UploadSucceeded
  <2>3. SettledDocs(e, p)'
    BY <2>1, <2>2, SaveSettled
  <2>4. SettledViews(e, p)'
    BY <2>2 DEF SettledViews, Names, TypeOK
  <2>5. QED
    BY <2>3, <2>4
<1>5. ASSUME NEW call \in urlCalls[d], AnswerUrl(d, call)
      PROVE  SettledDocs(e, p)' /\ SettledViews(e, p)'
  BY <1>1, <1>5 DEF AnswerUrl, firestoreVars, SettledViews, Names
<1>6. ASSUME NEW call \in urlCalls[d], UrlReceived(d, call)
      PROVE  SettledDocs(e, p)' /\ SettledViews(e, p)'
  <2>0. PICK m : m = UpdatePicture(call.email, call.reply)
    OBVIOUS
  <2>1. m \in Mutation /\ m.op = "picture"
    BY <1>6, <2>0, MutationTypes DEF UrlReceived, TypeOK, UrlCall, UpdatePicture
  <2>2. m \in NamingMutations(e, p)
    BY <2>1 DEF NamingMutations
  <2>3. <<m>> \in Seq(Mutation)
        /\ \A i \in 1..Len(<<m>>) : <<m>>[i] \in NamingMutations(e, p)
    BY <2>1, <2>2
  <2>4. /\ UNCHANGED <<server, cache, profiles, shown, form, uploads>>
        /\ WriteLocally(d, <<m>>)
    BY <1>6, <2>0 DEF UrlReceived
  <2>5. SettledDocs(e, p)'
    BY <2>3, <2>4, WriteWithin DEF TypeOK, SettledDocs
  <2>6. QED
    BY <2>4, <2>5 DEF SettledViews, Names
<1>7. ASSUME Network(Deliver(d) \/ Ack(d) \/ Reject(d) \/ (listening[d] /\ Watch(d)))
      PROVE  SettledDocs(e, p)' /\ SettledViews(e, p)'
  <2>1. SettledDocs(e, p)'
    BY <1>7, NamingClosed, NetworkWithin DEF Network, TypeOK, SettledDocs
  <2>2. QED
    BY <1>7, <2>1 DEF Network, SettledViews, Names
<1>8. QED
  BY <1>2, <1>3, <1>4, <1>5, <1>6, <1>7 DEF SystemStep

\* Documents stay on the server.
LEMMA ServerKeepsDocs ==
  ASSUME TypeOK, [Next]_vars, NEW e \in Path, server[e] # NoDoc
  PROVE  server'[e] # NoDoc
BY OnlyDeliverWrites, DeliverKeepsDocs DEF TypeOK

\* Once no copy of a profile lacks a project, anywhere, only the user's own
\* deselection removes the project from the profile again.
THEOREM SettledStays == Spec => SettledStaysSettled
<1> DEFINE Step == \A e \in Path \ {Placeholder}, p \in Project : Settled(e, p) =>
       \/ Settled(e, p)'
       \/ \E d \in Device :
            /\ form[d] # NoForm /\ form[d].email = e
            /\ \E text \in Text, projects \in SUBSET (Project \ {p}) :
                 \/ Done(d, text, projects)
                 \/ \E image \in Picture :
                      DoneWithPicture(d, text, projects, image)
<1>1. TypeOK /\ [Next]_vars => TypeOK'
  BY UserStepType, MishapType, SystemStepType, StutterType DEF Next
<1>2. TypeOK /\ [Next]_vars => [Step]_vars
  <2> SUFFICES ASSUME TypeOK, [Next]_vars,
                      NEW e \in Path \ {Placeholder}, NEW p \in Project, Settled(e, p)
               PROVE  \/ Settled(e, p)'
                      \/ \E d \in Device :
                           /\ form[d] # NoForm /\ form[d].email = e
                           /\ \E text \in Text, projects \in SUBSET (Project \ {p}) :
                                \/ Done(d, text, projects)
                                \/ \E image \in Picture :
                                     DoneWithPicture(d, text, projects, image)
    OBVIOUS
  <2>1. server[e] # NoDoc /\ SettledDocs(e, p) /\ SettledViews(e, p)
    BY SettledSplit DEF SplitSettled, SettledDocs
  <2>2. server'[e] # NoDoc
    BY <2>1, ServerKeepsDocs
  <2>3. SettledDocs(e, p)' /\ SettledViews(e, p)' => Settled(e, p)'
    BY <1>1, <2>2, SettledSplitNext DEF SplitSettled, SettledDocs
  <2>4. CASE UNCHANGED vars
    <3>1. SettledDocs(e, p)'
      BY <2>1, <2>4 DEF vars, firestoreVars, SettledDocs, DocsWithin
    <3>2. SettledViews(e, p)'
      BY <2>1, <2>4 DEF vars, appVars, SettledViews, Names
    <3>3. QED
      BY <2>3, <3>1, <3>2
  <2>5. CASE Next
    BY <2>1, <2>3, <2>5, UserStepSettled, MishapSettled, SystemStepSettled DEF Next
  <2>6. QED
    BY <2>4, <2>5
<1>3. QED
  BY <1>2, TypeCorrect, PTL DEF Spec, SettledStaysSettled

-----------------------------------------------------------------------------
(* The history of one account on one device.                                  *)

Saves == {"set"}
Pics == {"set", "picture"}
TextDocs(text) == {doc \in Doc : doc.text = text}
PictureDocs(image) == {doc \in MaybeDoc : doc # NoDoc => doc.picture = image}

EndsText(d, u, e, text) == EndsIn(d, u, e, Saves, TextDocs(text))
EndsPicture(d, u, e, image) == EndsIn(d, u, e, Pics, PictureDocs(image))

UpsOf(d, e) == {up \in uploads[d] : up.profile.email = e}
CallsOf(d, e) == {call \in urlCalls[d] : call.email = e}
Busy(d, e) == UpsOf(d, e) # {} \/ CallsOf(d, e) # {}

\* The server shows what it was sent, of every text and picture.
StreamReflects(d) ==
  /\ observed[d] <= delivered[d]
  /\ \A e \in Path :
       /\ \A text \in Text : Reflected(d, e, Saves, TextDocs(text))
       /\ \A image \in Picture : Reflected(d, e, Pics, PictureDocs(image))

\* The image that is stored for e is on its way into the profile.
Moving(d, e) == CallsOf(d, e) # {} \/ \E up \in UpsOf(d, e) : up.stored

\* What holds of a profile that was edited calmly: only one picture is on its
\* way and none while the form is open, and no draft or answer is older than the
\* text of the last Done and the image that is stored.
InOrder(d, e) ==
  /\ \A x, y \in UpsOf(d, e) : x = y
  /\ \A x, y \in CallsOf(d, e) : x = y
  /\ UpsOf(d, e) = {} \/ CallsOf(d, e) = {}
  /\ form[d] # NoForm /\ form[d].email = e =>
       ~Busy(d, e) /\ Silent(queue[d][NoUser], e, Pics)
  /\ \A up \in UpsOf(d, e) : up.stored \/ Silent(queue[d][NoUser], e, Pics)
  /\ \A up \in UpsOf(d, e) : up.profile.doc.text = last[e]
  /\ \A call \in CallsOf(d, e) : call.reply \in {NoUrl, object[e]}

\* The user's queue ends with that text, and what callbacks saved while nobody
\* was signed in has no other.
TextKept(d, u, e) ==
  /\ Agrees(queue[d][NoUser], e, Saves, TextDocs(last[e]))
  /\ \A text \in Text :
       last[e] # NoText0 /\ text = last[e] => EndsText(d, u, e, text)

CalmInv(d, u, e) == InOrder(d, e) /\ TextKept(d, u, e)

\* And what holds as long as the work on that image is not cut short: it is in
\* the draft, and what the user's queue ends with unless it is still on its way.
PictureKept(d, u, e) ==
  /\ Silent(queue[d][NoUser], e, Pics)
  /\ form[d] # NoForm /\ form[d].email = e => form[d].doc.picture = object[e]
  /\ \A image \in Picture :
       ~Moving(d, e) /\ image = object[e] => EndsPicture(d, u, e, image)

HistoryInv(d, u) ==
  /\ last \in [Path -> Text \cup {NoText0}]
  /\ StreamReflects(d)
  /\ form[d] # NoForm => user[d] = u
  /\ \A e \in Path : calm[e] => CalmInv(d, u, e)
  /\ \A e \in Path : calm[e] /\ ~cut[e] => PictureKept(d, u, e)

LEMMA TextIsPart == ASSUME NEW text PROVE IsPart(Saves, TextDocs(text))
<1> SUFFICES ASSUME NEW m \in Mutation, NEW doc \in MaybeDoc,
                    m.op \notin Saves, doc \in TextDocs(text)
             PROVE  Apply(m, doc) \in TextDocs(text)
  BY DEF IsPart, Saves
<1>1. doc \in Doc /\ doc.text = text /\ m.op \in {"picture", "join"} /\ m.value \in Doc
  BY DEF TextDocs, Saves, Mutation
<1>2. Apply(m, doc) \in Doc /\ Apply(m, doc).text = doc.text
  BY <1>1, FirestoreAssumption DEF Apply, PreconditionHolds, Merge, Doc
<1> QED
  BY <1>1, <1>2 DEF TextDocs

LEMMA PictureIsPart == ASSUME NEW image PROVE IsPart(Pics, PictureDocs(image))
<1>1. NoDoc \in PictureDocs(image)
  BY DEF PictureDocs, MaybeDoc
<1>2. ASSUME NEW m \in Mutation, NEW doc \in MaybeDoc,
             m.op \notin Pics, doc \in PictureDocs(image)
      PROVE  Apply(m, doc) \in PictureDocs(image)
  <2>1. m.op = "join" /\ m.value \in Doc
    BY <1>2 DEF Pics, Mutation
  <2>2. CASE doc = NoDoc
    BY <1>1, <2>1, <2>2 DEF Apply, PreconditionHolds
  <2>3. CASE doc # NoDoc
    <3>1. doc \in Doc /\ doc.picture = image
      BY <1>2, <2>3 DEF PictureDocs, MaybeDoc
    <3>2. Apply(m, doc) \in Doc /\ Apply(m, doc).picture = image
      BY <2>1, <2>3, <3>1 DEF Apply, PreconditionHolds, Merge, Doc
    <3> QED
      BY <3>2 DEF PictureDocs, MaybeDoc
  <2> QED
    BY <2>2, <2>3
<1> QED
  BY <1>1, <1>2 DEF IsPart

\* What a save and a URL set.
LEMMA WritesBring ==
  /\ \A path \in Path, doc \in Doc :
       /\ Says(SetDoc(path, doc), path, Saves) /\ Says(SetDoc(path, doc), path, Pics)
       /\ Brings(SetDoc(path, doc), TextDocs(doc.text))
       /\ Brings(SetDoc(path, doc), PictureDocs(doc.picture))
  /\ \A path \in Path, image \in Picture :
       /\ Says(UpdatePicture(path, image), path, Pics)
       /\ ~Says(UpdatePicture(path, image), path, Saves)
       /\ Brings(UpdatePicture(path, image), PictureDocs(image))
<1>1. ASSUME NEW path \in Path, NEW doc \in Doc, NEW old \in MaybeDoc
      PROVE  /\ Apply(SetDoc(path, doc), old) = doc
             /\ SetDoc(path, doc).path = path /\ SetDoc(path, doc).op = "set"
  BY DEF SetDoc, Apply, PreconditionHolds, Merge
<1>2. ASSUME NEW path \in Path, NEW image \in Picture, NEW old \in MaybeDoc
      PROVE  /\ UpdatePicture(path, image).path = path
             /\ UpdatePicture(path, image).op = "picture"
             /\ Apply(UpdatePicture(path, image), old) \in PictureDocs(image)
  <2> DEFINE v == [BlankDoc EXCEPT !.picture = image]
             m == UpdatePicture(path, image)
  <2>0. v.picture = image
    BY DEF BlankDoc
  <2> HIDE DEF v
  <2>1. m.path = path /\ m.op = "picture" /\ m.value = v
    BY DEF UpdatePicture, v
  <2> HIDE DEF m
  <2>2. CASE old = NoDoc
    <3>1. Apply(m, old) = NoDoc
      BY <2>1, <2>2 DEF Apply, PreconditionHolds
    <3> QED
      BY <2>1, <3>1 DEF m, PictureDocs, MaybeDoc
  <2>3. CASE old # NoDoc
    <3>1. old \in Doc
      BY <2>3 DEF MaybeDoc
    <3>2. Apply(m, old) = [old EXCEPT !.picture = image]
      BY <2>0, <2>1, <2>3 DEF Apply, PreconditionHolds, Merge
    <3>3. [old EXCEPT !.picture = image] \in Doc
          /\ [old EXCEPT !.picture = image].picture = image
      BY <3>1 DEF Doc
    <3> QED
      BY <2>1, <3>2, <3>3 DEF m, PictureDocs, MaybeDoc
  <2> QED
    BY <2>1, <2>2, <2>3 DEF m, v
<1>3. NoDoc \in MaybeDoc
  BY DEF MaybeDoc
<1> QED
  BY <1>1, <1>2, <1>3 DEF Says, Brings, Saves, Pics, TextDocs, PictureDocs, MaybeDoc

LEMMA SilentAgrees ==
  ASSUME NEW q, NEW e, Silent(q, e, Pics)
  PROVE  Silent(q, e, Saves) /\ \A T : Agrees(q, e, Saves, T) /\ Agrees(q, e, Pics, T)
BY DEF Silent, Agrees, Says, Pics, Saves

\* A step that stores no image, remembers no text and makes no form, upload or
\* call of the profile keeps it in order.
LEMMA OrderStays ==
  ASSUME NEW d, NEW e, InOrder(d, e),
         Silent(queue[d][NoUser], e, Pics) => Silent(queue'[d][NoUser], e, Pics),
         UpsOf(d, e)' \subseteq UpsOf(d, e), CallsOf(d, e)' \subseteq CallsOf(d, e),
         object'[e] = object[e], last'[e] = last[e], form'[d] \in {form[d], NoForm}
  PROVE  InOrder(d, e)'
<1> DEFINE U == UpsOf(d, e)'
           C == CallsOf(d, e)'
<1>1. U \subseteq UpsOf(d, e) /\ C \subseteq CallsOf(d, e)
  OBVIOUS
<1> HIDE DEF U, C
<1>2. /\ \A x, y \in U : x = y
      /\ \A x, y \in C : x = y
      /\ U = {} \/ C = {}
  BY <1>1 DEF InOrder
<1>3. form'[d] # NoForm /\ form'[d].email = e =>
        U = {} /\ C = {} /\ Silent(queue'[d][NoUser], e, Pics)
  BY <1>1 DEF InOrder, Busy
<1>4. \A up \in U : /\ up.stored \/ Silent(queue'[d][NoUser], e, Pics)
                    /\ up.profile.doc.text = last'[e]
  BY <1>1 DEF InOrder
<1>5. \A call \in C : call.reply \in {NoUrl, object'[e]}
  BY <1>1 DEF InOrder
<1> QED
  BY <1>2, <1>3, <1>4, <1>5 DEF InOrder, Busy, U, C

LEMMA PictureStays ==
  ASSUME NEW d, NEW u, NEW e, PictureKept(d, u, e),
         Silent(queue'[d][NoUser], e, Pics), Moving(d, e) => Moving(d, e)',
         object'[e] = object[e], form'[d] \in {form[d], NoForm},
         \A image \in Picture : EndsPicture(d, u, e, image) => EndsPicture(d, u, e, image)'
  PROVE  PictureKept(d, u, e)'
BY DEF PictureKept

\* No step on the queues, the server and the cache.
LEMMA LocalCalm ==
  ASSUME NEW d, NEW u, NEW e, CalmInv(d, u, e), UNCHANGED <<server, queue, cache>>,
         UpsOf(d, e)' \subseteq UpsOf(d, e), CallsOf(d, e)' \subseteq CallsOf(d, e),
         object'[e] = object[e], last'[e] = last[e], form'[d] \in {form[d], NoForm}
  PROVE  /\ CalmInv(d, u, e)'
         /\ PictureKept(d, u, e) /\ (Moving(d, e) => Moving(d, e)') =>
              PictureKept(d, u, e)'
<1>1. \A K, T : EndsIn(d, u, e, K, T) => EndsIn(d, u, e, K, T)'
  BY DEF EndsIn
<1>2. InOrder(d, e)'
  BY OrderStays DEF CalmInv
<1>3. TextKept(d, u, e)'
  BY <1>1 DEF CalmInv, TextKept, EndsText
<1>4. ASSUME PictureKept(d, u, e), Moving(d, e) => Moving(d, e)'
      PROVE  PictureKept(d, u, e)'
  <2>1. Silent(queue'[d][NoUser], e, Pics)
    BY <1>4 DEF PictureKept
  <2> QED
    BY <1>1, <1>4, <2>1, PictureStays DEF EndsPicture
<1> QED
  BY <1>2, <1>3, <1>4 DEF CalmInv

\* A step of the network.
LEMMA NetworkCalm ==
  ASSUME TypeOK, NEW d \in Device, NEW u \in User, User = {u}, NEW e \in Path,
         StreamReflects(d), CalmInv(d, u, e),
         server[e] = NoDoc => cache[d][e] = NoDoc,
         Deliver(d) \/ Ack(d) \/ Reject(d) \/ BreakStream(d) \/ Watch(d),
         UNCHANGED <<appVars, storageVars>>, last'[e] = last[e]
  PROVE  CalmInv(d, u, e)' /\ (PictureKept(d, u, e) => PictureKept(d, u, e)')
<1> DEFINE q == queue[d][NoUser]
           r == queue'[d][NoUser]
<1>0. FirestoreTypeOK /\ user'[d] = user[d]
  BY DEF TypeOK, Deliver, Ack, Reject, BreakStream, Watch
<1>1. u \in Credential /\ NoUser \in Credential /\ u # NoUser /\ user[d] \in {u, NoUser}
  BY <1>0, FirestoreAssumption DEF FirestoreTypeOK, Credential
<1>2. q \in Seq(Mutation)
  BY <1>0, <1>1 DEF FirestoreTypeOK
<1>3. r = q \/ (q # <<>> /\ r = Tail(q))
  <2>1. CASE Deliver(d) \/ BreakStream(d) \/ Watch(d)
    BY <2>1 DEF Deliver, BreakStream, Watch
  <2>2. CASE Ack(d) \/ Reject(d)
    <3>1. queue' = [queue EXCEPT ![d][user[d]] = Tail(@)]
      BY <2>2 DEF Ack, Reject
    <3>2. Pending(d) # <<>>
      BY <1>0, <2>2, PendingType DEF Ack, Reject
    <3>3. r = IF user[d] = NoUser THEN Tail(q) ELSE q
      BY <1>0, <1>1, <3>1 DEF FirestoreTypeOK
    <3> QED
      BY <3>2, <3>3 DEF Pending
  <2> QED
    BY <2>1, <2>2
<1>4. user[d] = u \/ Pending(d) = q
  BY <1>1 DEF Pending
<1> HIDE DEF q, r
<1>5. Silent(q, e, Pics) => Silent(r, e, Pics)
  <2>1. q # <<>> => Len(q) \in 1..Len(q)
    BY <1>2
  <2> QED
    BY <1>2, <1>3, <2>1, TailParts
<1>6. \A K, T : Agrees(q, e, K, T) => Agrees(r, e, K, T)
  BY <1>2, <1>3, AgreesParts
<1>7. /\ UpsOf(d, e)' = UpsOf(d, e) /\ CallsOf(d, e)' = CallsOf(d, e)
      /\ object'[e] = object[e] /\ form'[d] = form[d]
  BY DEF appVars, storageVars, UpsOf, CallsOf
<1>8. InOrder(d, e)'
  BY <1>5, <1>7, OrderStays DEF CalmInv, q, r
<1>9. ASSUME NEW text \in Text, text = last[e], EndsText(d, u, e, text)
      PROVE  EndsText(d, u, e, text)'
  <2>1. Reflected(d, e, Saves, TextDocs(text)) /\ observed[d] <= delivered[d]
    BY DEF StreamReflects
  <2>2. IsPart(Saves, TextDocs(text))
    BY TextIsPart
  <2>3. EndsIn(d, u, e, Saves, TextDocs(text))
    BY <1>9 DEF EndsText
  <2>4. user[d] = u \/ Agrees(Pending(d), e, Saves, TextDocs(text))
    BY <1>4, <1>9 DEF CalmInv, TextKept, q
  <2>5. EndsIn(d, u, e, Saves, TextDocs(text))'
    BY <1>0, <1>1, <2>1, <2>2, <2>3, <2>4, NetworkEnds
  <2> QED
    BY <2>5 DEF EndsText
<1>10. TextKept(d, u, e)'
  <2>1. Agrees(r, e, Saves, TextDocs(last[e]))
    BY <1>6 DEF CalmInv, TextKept, q
  <2> QED
    BY <1>9, <2>1 DEF CalmInv, TextKept, r
<1>11. ASSUME PictureKept(d, u, e) PROVE PictureKept(d, u, e)'
  <2>1. Silent(q, e, Pics) /\ Silent(r, e, Pics)
    BY <1>5, <1>11 DEF PictureKept, q
  <2>2. ASSUME NEW image \in Picture, EndsPicture(d, u, e, image)
        PROVE  EndsPicture(d, u, e, image)'
    <3>1. Reflected(d, e, Pics, PictureDocs(image)) /\ observed[d] <= delivered[d]
      BY DEF StreamReflects
    <3>2. IsPart(Pics, PictureDocs(image))
      BY PictureIsPart
    <3>3. EndsIn(d, u, e, Pics, PictureDocs(image))
      BY <2>2 DEF EndsPicture
    <3>4. user[d] = u \/ Agrees(Pending(d), e, Pics, PictureDocs(image))
      BY <1>4, <2>1, SilentAgrees
    <3>5. EndsIn(d, u, e, Pics, PictureDocs(image))'
      BY <1>0, <1>1, <3>1, <3>2, <3>3, <3>4, NetworkEnds
    <3> QED
      BY <3>5 DEF EndsPicture
  <2>3. Moving(d, e) => Moving(d, e)'
    BY <1>7 DEF Moving
  <2> QED
    BY <1>7, <1>11, <2>1, <2>2, <2>3, PictureStays DEF r
<1> QED
  BY <1>8, <1>10, <1>11 DEF CalmInv

\* A write that does not touch the profile.
LEMMA OtherWriteCalm ==
  ASSUME TypeOK, NEW d \in Device, NEW u \in User, NEW e \in Path, CalmInv(d, u, e),
         NEW ms \in Seq(Mutation), WriteLocally(d, ms), Silent(ms, e, Pics),
         UNCHANGED <<server, user, cache>>,
         UpsOf(d, e)' = UpsOf(d, e), CallsOf(d, e)' = CallsOf(d, e),
         object'[e] = object[e], last'[e] = last[e], form'[d] \in {form[d], NoForm}
  PROVE  CalmInv(d, u, e)' /\ (PictureKept(d, u, e) => PictureKept(d, u, e)')
<1>1. FirestoreTypeOK /\ u \in Credential /\ NoUser \in Credential
  BY DEF TypeOK, Credential
<1>2. Silent(ms, e, Saves) /\ \A T : Agrees(ms, e, Saves, T)
  BY SilentAgrees
<1>3. \A K, T : EndsIn(d, u, e, K, T) /\ Silent(ms, e, K) => EndsIn(d, u, e, K, T)'
  BY <1>1, WriteEnds
<1>4. Silent(queue[d][NoUser], e, Pics) => Silent(queue'[d][NoUser], e, Pics)
  BY <1>1, WriteEnds
<1>5. InOrder(d, e)'
  BY <1>4, OrderStays DEF CalmInv
<1>6. TextKept(d, u, e)'
  <2>1. Agrees(queue'[d][NoUser], e, Saves, TextDocs(last[e]))
    BY <1>1, <1>2, WriteAgrees DEF CalmInv, TextKept
  <2> QED
    BY <1>2, <1>3, <2>1 DEF CalmInv, TextKept, EndsText
<1>7. ASSUME PictureKept(d, u, e) PROVE PictureKept(d, u, e)'
  <2>1. Silent(queue'[d][NoUser], e, Pics)
    BY <1>4, <1>7 DEF PictureKept
  <2>2. Moving(d, e) => Moving(d, e)'
    BY DEF Moving
  <2> QED
    BY <1>3, <1>7, <2>1, <2>2, PictureStays DEF EndsPicture
<1> QED
  BY <1>5, <1>6, <1>7 DEF CalmInv

LEMMA OneWrite ==
  ASSUME TypeOK, NEW d \in Device, NEW e \in Path, NEW m \in Mutation,
         WriteLocally(d, <<m>>), UNCHANGED <<server, user, cache>>
  PROVE  /\ \A u \in Credential : \A K, T :
              EndsIn(d, u, e, K, T) /\ (u # user[d] \/ ~Says(m, e, K)) =>
                EndsIn(d, u, e, K, T)'
         /\ \A u \in Credential : \A K :
              Silent(queue[d][u], e, K) /\ (u # user[d] \/ ~Says(m, e, K)) =>
                Silent(queue'[d][u], e, K)
         /\ \A u \in Credential : \A K, T :
              u = user[d] /\ Says(m, e, K) /\ Brings(m, T) => EndsIn(d, u, e, K, T)'
         /\ \A u \in Credential : \A K, T :
              Agrees(queue[d][u], e, K, T) /\ (~Says(m, e, K) \/ Brings(m, T)) =>
                Agrees(queue'[d][u], e, K, T)
<1> DEFINE ms == <<m>>
<1>1. ms \in Seq(Mutation) /\ Len(ms) = 1 /\ ms[1] = m /\ WriteLocally(d, ms)
  OBVIOUS
<1>2. FirestoreTypeOK
  BY DEF TypeOK
<1> HIDE DEF ms
<1>3. \A K : ~Says(m, e, K) => Silent(ms, e, K)
  BY <1>1 DEF Silent
<1>4. ASSUME NEW u \in Credential, NEW K, NEW T, EndsIn(d, u, e, K, T),
             u # user[d] \/ ~Says(m, e, K)
      PROVE  EndsIn(d, u, e, K, T)'
  BY <1>1, <1>2, <1>3, <1>4, WriteEnds
<1>5. ASSUME NEW u \in Credential, NEW K, Silent(queue[d][u], e, K),
             u # user[d] \/ ~Says(m, e, K)
      PROVE  Silent(queue'[d][u], e, K)
  BY <1>1, <1>2, <1>3, <1>5, WriteEnds
<1>6. ASSUME NEW u \in Credential, NEW K, NEW T, u = user[d], Says(m, e, K), Brings(m, T)
      PROVE  EndsIn(d, u, e, K, T)'
  BY <1>1, <1>2, <1>6, WriteEnds
<1>7. ASSUME NEW u \in Credential, NEW K, NEW T, Agrees(queue[d][u], e, K, T),
             ~Says(m, e, K) \/ Brings(m, T)
      PROVE  Agrees(queue'[d][u], e, K, T)
  <2>1. Agrees(ms, e, K, T)
    BY <1>1, <1>7 DEF Agrees
  <2> QED
    BY <1>1, <1>2, <1>7, <2>1, WriteAgrees
<1> QED
  BY <1>4, <1>5, <1>6, <1>7

\* A write that does not touch the profile, of one mutation.
LEMMA OtherSaveCalm ==
  ASSUME TypeOK, NEW d \in Device, NEW u \in User, NEW e \in Path, CalmInv(d, u, e),
         NEW m \in Mutation, WriteLocally(d, <<m>>), m.path # e,
         UNCHANGED <<server, user, cache>>,
         UpsOf(d, e)' = UpsOf(d, e), CallsOf(d, e)' = CallsOf(d, e),
         object'[e] = object[e], last'[e] = last[e], form'[d] \in {form[d], NoForm}
  PROVE  CalmInv(d, u, e)' /\ (PictureKept(d, u, e) => PictureKept(d, u, e)')
<1>1. <<m>> \in Seq(Mutation) /\ Silent(<<m>>, e, Pics)
  BY DEF Silent, Says
<1> QED
  BY <1>1, OtherWriteCalm

\* Done, with or without a new picture.
LEMMA DoneCalm ==
  ASSUME TypeOK, NEW d \in Device, NEW u \in User, NEW e \in Path, CalmInv(d, u, e),
         form[d] # NoForm => user[d] = u,
         NEW text \in Text, NEW projects \in SUBSET Project,
         \/ Done(d, text, projects)
         \/ \E image \in Picture : DoneWithPicture(d, text, projects, image),
         last'[e] = IF form[d].email = e THEN text ELSE last[e]
  PROVE  CalmInv(d, u, e)' /\ (PictureKept(d, u, e) => PictureKept(d, u, e)')
<1> DEFINE profile == Edited(form[d], text, projects)
           m == SetDoc(profile.email, profile.doc)
<1>1. /\ form[d] # NoForm /\ user[d] = u /\ form'[d] = NoForm /\ object' = object
      /\ updateProfile(d, profile) /\ UNCHANGED <<server, user, cache, urlCalls>>
  BY DEF Done, DoneWithPicture, storageVars, TypeOK
<1>2. /\ form[d] \in Profile /\ profile \in Profile /\ profile.email = form[d].email
      /\ profile.doc.text = text /\ profile.doc.picture = form[d].doc.picture
  <2>1. form[d] \in Profile
    BY <1>1 DEF TypeOK
  <2>2. profile \in Profile /\ profile.email = form[d].email
    BY <2>1, EditedType
  <2>3. profile.doc.text = text /\ profile.doc.picture = form[d].doc.picture
    <3> DEFINE draft == form[d]
    <3>1. draft.doc \in Doc /\ draft \in Profile
      BY <2>1 DEF Profile
    <3> HIDE DEF draft
    <3>2. Edited(draft, text, projects).doc =
            [draft.doc EXCEPT !.text = text, !.projects = projects]
      BY <3>1 DEF Edited, Profile
    <3> QED
      BY <3>1, <3>2 DEF draft, Doc
  <2> QED
    BY <2>1, <2>2, <2>3
<1>3. WriteLocally(d, <<m>>)
  BY <1>1 DEF updateProfile
<1>4. \/ uploads' = uploads
      \/ \E image \in Picture : uploads' = [uploads EXCEPT ![d] = @ \cup
           {[profile |-> profile, image |-> image, stored |-> FALSE]}]
  BY DEF Done, DoneWithPicture
<1> HIDE DEF profile
<1>5. m \in Mutation /\ m.path = profile.email
  BY <1>2, MutationTypes DEF Profile, SetDoc
<1>6. CallsOf(d, e)' = CallsOf(d, e)
  BY <1>1 DEF CallsOf
<1>7. CASE profile.email # e
  <2>1. UpsOf(d, e)' = UpsOf(d, e)
    BY <1>4, <1>7 DEF UpsOf, TypeOK
  <2>2. last'[e] = last[e]
    BY <1>2, <1>7
  <2> HIDE DEF m
  <2> QED
    BY <1>1, <1>3, <1>5, <1>6, <1>7, <2>1, <2>2, OtherSaveCalm
<1>8. CASE profile.email = e
  <2>1. last'[e] = text
    BY <1>2, <1>8
  <2>2. Silent(queue[d][NoUser], e, Pics) /\ ~Busy(d, e) /\ object'[e] = object[e]
    BY <1>1, <1>2, <1>8 DEF CalmInv, InOrder
  <2>3. UpsOf(d, e) = {} /\ CallsOf(d, e) = {} /\ CallsOf(d, e)' = {}
    BY <1>6, <2>2 DEF Busy
  <2>4. \A x, y \in UpsOf(d, e)' : x = y /\ x.profile.doc.text = text
    <3>1. CASE uploads' = uploads
      BY <2>3, <3>1 DEF UpsOf
    <3>2. ASSUME NEW image \in Picture, uploads' = [uploads EXCEPT ![d] = @ \cup
                   {[profile |-> profile, image |-> image, stored |-> FALSE]}]
          PROVE  \A x, y \in UpsOf(d, e)' : x = y /\ x.profile.doc.text = text
      <4> DEFINE up == [profile |-> profile, image |-> image, stored |-> FALSE]
      <4>1. up.profile = profile
        OBVIOUS
      <4>2. uploads'[d] = uploads[d] \cup {up}
        BY <3>2 DEF TypeOK
      <4> HIDE DEF up
      <4>3. \A x \in UpsOf(d, e)' : x = up
        BY <2>3, <4>2 DEF UpsOf
      <4> QED
        BY <1>2, <4>1, <4>3
    <3> QED
      BY <1>4, <3>1, <3>2
  <2>5. u \in Credential /\ NoUser \in Credential /\ u # NoUser
    BY FirestoreAssumption DEF Credential
  <2>6. /\ Says(m, e, Saves) /\ Says(m, e, Pics)
        /\ Brings(m, TextDocs(text)) /\ Brings(m, PictureDocs(form[d].doc.picture))
    BY <1>2, <1>8, WritesBring DEF Profile
  <2> HIDE DEF m
  <2>7. Silent(queue'[d][NoUser], e, Pics)
    BY <1>1, <1>3, <1>5, <2>2, <2>5, OneWrite
  <2>8. TextKept(d, u, e)'
    <3>1. EndsText(d, u, e, text)'
      BY <1>1, <1>3, <1>5, <2>5, <2>6, OneWrite DEF EndsText
    <3>2. Agrees(queue'[d][NoUser], e, Saves, TextDocs(text))
      BY <2>7, SilentAgrees
    <3> QED
      BY <2>1, <3>1, <3>2 DEF TextKept
  <2>9. InOrder(d, e)'
    BY <1>1, <2>1, <2>3, <2>4, <2>7 DEF InOrder
  <2>10. ASSUME PictureKept(d, u, e) PROVE PictureKept(d, u, e)'
    <3>1. form[d].doc.picture = object[e]
      BY <1>1, <1>2, <1>8, <2>10 DEF PictureKept
    <3>2. \A image \in Picture : image = object[e] => EndsPicture(d, u, e, image)'
      BY <1>1, <1>3, <1>5, <2>5, <2>6, <3>1, OneWrite DEF EndsPicture
    <3> QED
      BY <1>1, <2>2, <2>7, <3>2 DEF PictureKept
  <2> QED
    BY <2>8, <2>9, <2>10 DEF CalmInv
<1> QED
  BY <1>7, <1>8

\* The upload's callback saves the text of the last Done once more, whoever is
\* signed in by then; the picture counts on that being the user.
LEMMA UploadSucceededCalm ==
  ASSUME TypeOK, NEW d \in Device, NEW u \in User, NEW e \in Path, CalmInv(d, u, e),
         NEW up \in uploads[d], UploadSucceeded(d, up), last'[e] = last[e]
  PROVE  /\ CalmInv(d, u, e)'
         /\ PictureKept(d, u, e) /\ (up.profile.email = e => user[d] # NoUser) =>
              PictureKept(d, u, e)'
<1> DEFINE profile == up.profile
           m == SetDoc(profile.email, profile.doc)
           call == [email |-> profile.email, image |-> up.image, reply |-> NoUrl]
<1>1. /\ uploads' = [uploads EXCEPT ![d] = @ \ {up}]
      /\ urlCalls' = [urlCalls EXCEPT ![d] = @ \cup {call}]
      /\ WriteLocally(d, <<m>>) /\ UNCHANGED <<server, user, cache, form, object>>
  BY DEF UploadSucceeded, updateProfile, storageVars
<1>2. up \in Upload /\ profile \in Profile
  BY DEF TypeOK, Upload
<1>3. m \in Mutation /\ m.path = profile.email
  BY <1>2, MutationTypes DEF Profile, SetDoc
<1>4. call.email = profile.email /\ call.reply = NoUrl
  OBVIOUS
<1> HIDE DEF profile, call
<1>5. UpsOf(d, e)' = UpsOf(d, e) \ {up}
  BY <1>1 DEF UpsOf, TypeOK
<1>6. CallsOf(d, e)' = IF profile.email = e THEN CallsOf(d, e) \cup {call} ELSE CallsOf(d, e)
  BY <1>1, <1>4 DEF CallsOf, TypeOK
<1>7. CASE profile.email # e
  <2>1. UpsOf(d, e)' = UpsOf(d, e)
    BY <1>5, <1>7 DEF UpsOf, profile
  <2> HIDE DEF m
  <2> QED
    BY <1>1, <1>3, <1>6, <1>7, <2>1, OtherSaveCalm
<1>8. CASE profile.email = e
  <2>1. up \in UpsOf(d, e)
    BY <1>8 DEF UpsOf, profile
  <2>2. /\ UpsOf(d, e) = {up} /\ CallsOf(d, e) = {} /\ profile.doc.text = last[e]
        /\ ~(form[d] # NoForm /\ form[d].email = e)
    BY <2>1 DEF CalmInv, InOrder, Busy, profile
  <2>3. UpsOf(d, e)' = {} /\ CallsOf(d, e)' = {call}
    BY <1>5, <1>6, <1>8, <2>2
  <2>4. u \in Credential /\ NoUser \in Credential /\ u # NoUser
    BY FirestoreAssumption DEF Credential
  <2>5. Says(m, e, Saves) /\ Brings(m, TextDocs(last[e]))
    BY <1>2, <1>8, <2>2, WritesBring DEF Profile
  <2> HIDE DEF m
  <2>6. TextKept(d, u, e)'
    <3>1. Agrees(queue'[d][NoUser], e, Saves, TextDocs(last[e]))
      BY <1>1, <1>3, <2>4, <2>5, OneWrite DEF CalmInv, TextKept
    <3>2. ASSUME NEW text \in Text, last[e] # NoText0, text = last[e]
          PROVE  EndsText(d, u, e, text)'
      <4>1. EndsIn(d, u, e, Saves, TextDocs(text))
        BY <3>2 DEF CalmInv, TextKept, EndsText
      <4>2. EndsIn(d, u, e, Saves, TextDocs(text))'
        BY <1>1, <1>3, <2>4, <2>5, <3>2, <4>1, OneWrite
      <4> QED
        BY <4>2 DEF EndsText
    <3> QED
      BY <3>1, <3>2 DEF TextKept
  <2>7. InOrder(d, e)'
    BY <1>1, <1>4, <2>2, <2>3 DEF InOrder
  <2>8. ASSUME PictureKept(d, u, e), user[d] # NoUser PROVE PictureKept(d, u, e)'
    <3>1. Silent(queue'[d][NoUser], e, Pics)
      BY <1>1, <1>3, <2>4, <2>8, OneWrite DEF PictureKept
    <3>2. Moving(d, e)'
      BY <2>3 DEF Moving
    <3> QED
      BY <1>1, <2>2, <3>1, <3>2 DEF PictureKept
  <2> QED
    BY <1>8, <2>6, <2>7, <2>8 DEF CalmInv, profile
<1> QED
  BY <1>7, <1>8

\* The URL's callback writes the image that is stored; so does the user's queue
\* end with it if the user is signed in.
LEMMA UrlReceivedCalm ==
  ASSUME TypeOK, NEW d \in Device, NEW u \in User, User = {u}, NEW e \in Path,
         CalmInv(d, u, e), NEW call \in urlCalls[d], UrlReceived(d, call),
         last'[e] = last[e]
  PROVE  /\ CalmInv(d, u, e)'
         /\ PictureKept(d, u, e) /\ (call.email = e => user[d] # NoUser) =>
              PictureKept(d, u, e)'
<1> DEFINE m == UpdatePicture(call.email, call.reply)
<1>1. /\ urlCalls' = [urlCalls EXCEPT ![d] = @ \ {call}] /\ call.reply # NoUrl
      /\ WriteLocally(d, <<m>>) /\ UNCHANGED <<server, user, cache, form, uploads, object>>
  BY DEF UrlReceived, storageVars
<1>2. call.email \in Path /\ call.reply \in Picture
  BY <1>1 DEF TypeOK, UrlCall
<1>3. m \in Mutation /\ m.path = call.email
  BY <1>2, MutationTypes DEF UpdatePicture
<1>4. UpsOf(d, e)' = UpsOf(d, e)
  BY <1>1 DEF UpsOf
<1>5. CallsOf(d, e)' = CallsOf(d, e) \ {call}
  BY <1>1 DEF CallsOf, TypeOK
<1>6. CASE call.email # e
  <2>1. CallsOf(d, e)' = CallsOf(d, e)
    BY <1>5, <1>6 DEF CallsOf
  <2> HIDE DEF m
  <2> QED
    BY <1>1, <1>3, <1>4, <1>6, <2>1, OtherSaveCalm
<1>7. CASE call.email = e
  <2>1. call \in CallsOf(d, e)
    BY <1>7 DEF CallsOf
  <2>2. /\ CallsOf(d, e) = {call} /\ UpsOf(d, e) = {} /\ call.reply = object[e]
        /\ ~(form[d] # NoForm /\ form[d].email = e)
    BY <1>1, <2>1 DEF CalmInv, InOrder, Busy
  <2>3. UpsOf(d, e)' = {} /\ CallsOf(d, e)' = {}
    BY <1>4, <1>5, <2>2
  <2>4. u \in Credential /\ NoUser \in Credential /\ u # NoUser /\ user[d] \in {u, NoUser}
    BY FirestoreAssumption DEF Credential, TypeOK, FirestoreTypeOK
  <2>5. Says(m, e, Pics) /\ ~Says(m, e, Saves) /\ Brings(m, PictureDocs(object[e]))
    BY <1>2, <1>7, <2>2, WritesBring
  <2> HIDE DEF m
  <2>6. TextKept(d, u, e)'
    <3>1. Agrees(queue'[d][NoUser], e, Saves, TextDocs(last[e]))
      BY <1>1, <1>3, <2>4, <2>5, OneWrite DEF CalmInv, TextKept
    <3>2. \A text \in Text : EndsText(d, u, e, text) => EndsText(d, u, e, text)'
      BY <1>1, <1>3, <2>4, <2>5, OneWrite DEF EndsText
    <3> QED
      BY <3>1, <3>2 DEF CalmInv, TextKept
  <2>7. InOrder(d, e)'
    BY <1>1, <2>2, <2>3 DEF InOrder
  <2>8. ASSUME PictureKept(d, u, e), user[d] # NoUser PROVE PictureKept(d, u, e)'
    <3>1. Silent(queue'[d][NoUser], e, Pics)
      BY <1>1, <1>3, <2>4, <2>8, OneWrite DEF PictureKept
    <3>2. \A image \in Picture : image = object[e] => EndsPicture(d, u, e, image)'
      BY <1>1, <1>3, <2>4, <2>5, <2>8, OneWrite DEF EndsPicture
    <3> QED
      BY <1>1, <2>2, <3>1, <3>2 DEF PictureKept
  <2> QED
    BY <1>7, <2>6, <2>7, <2>8 DEF CalmInv
<1> QED
  BY <1>6, <1>7

\* An image is stored only for the one upload that is on its way, and from then
\* on its URL is all that is missing, whatever became of the image before.
LEMMA StoreImageCalm ==
  ASSUME TypeOK, NEW d \in Device, NEW u \in User, NEW e \in Path, CalmInv(d, u, e),
         NEW up \in uploads[d], StoreImage(d, up), last'[e] = last[e]
  PROVE  /\ CalmInv(d, u, e)'
         /\ PictureKept(d, u, e) \/ up.profile.email = e => PictureKept(d, u, e)'
<1> DEFINE new == [up EXCEPT !.stored = TRUE]
<1>1. /\ uploads' = [uploads EXCEPT ![d] = (@ \ {up}) \cup {new}] /\ ~up.stored
      /\ object' = [object EXCEPT ![up.profile.email] = up.image]
      /\ UNCHANGED <<server, user, queue, cache, form, urlCalls>>
  BY DEF StoreImage, firestoreVars, appVars
<1>2. new.profile = up.profile /\ new.stored = TRUE /\ up.profile.email \in Path
  BY DEF TypeOK, Upload, Profile
<1> HIDE DEF new
<1>3. UpsOf(d, e)' = IF up.profile.email = e
                       THEN (UpsOf(d, e) \ {up}) \cup {new} ELSE UpsOf(d, e)
  BY <1>1, <1>2 DEF UpsOf, TypeOK
<1>4. CallsOf(d, e)' = CallsOf(d, e)
  BY <1>1 DEF CallsOf
<1>5. CASE up.profile.email # e
  <2>1. object'[e] = object[e] /\ form'[d] = form[d]
    BY <1>1, <1>5 DEF TypeOK
  <2>2. UpsOf(d, e)' = UpsOf(d, e)
    BY <1>3, <1>5
  <2>3. Moving(d, e) => Moving(d, e)'
    BY <1>4, <2>2 DEF Moving
  <2> QED
    BY <1>1, <1>4, <1>5, <2>1, <2>2, <2>3, LocalCalm
<1>6. CASE up.profile.email = e
  <2>1. up \in UpsOf(d, e)
    BY <1>6 DEF UpsOf
  <2>2. /\ Silent(queue[d][NoUser], e, Pics)
        /\ UpsOf(d, e) = {up} /\ CallsOf(d, e) = {} /\ up.profile.doc.text = last[e]
        /\ ~(form[d] # NoForm /\ form[d].email = e)
    BY <1>1, <2>1 DEF CalmInv, InOrder, Busy
  <2>3. UpsOf(d, e)' = {new} /\ CallsOf(d, e)' = {}
    BY <1>3, <1>4, <1>6, <2>2
  <2>4. Moving(d, e)'
    BY <1>2, <2>3 DEF Moving
  <2>5. TextKept(d, u, e)'
    BY <1>1 DEF CalmInv, TextKept, EndsText, EndsIn
  <2>6. InOrder(d, e)'
    BY <1>1, <1>2, <2>2, <2>3 DEF InOrder
  <2>7. PictureKept(d, u, e)'
    BY <1>1, <2>2, <2>4 DEF PictureKept
  <2> QED
    BY <2>5, <2>6, <2>7 DEF CalmInv
<1> QED
  BY <1>5, <1>6

\* The service answers with the image that is stored.
LEMMA AnswerUrlCalm ==
  ASSUME TypeOK, NEW d \in Device, NEW u \in User, NEW e \in Path, CalmInv(d, u, e),
         NEW call \in urlCalls[d], AnswerUrl(d, call), last'[e] = last[e]
  PROVE  CalmInv(d, u, e)' /\ (PictureKept(d, u, e) => PictureKept(d, u, e)')
<1> DEFINE new == [call EXCEPT !.reply = object[call.email]]
<1>1. /\ urlCalls' = [urlCalls EXCEPT ![d] = (@ \ {call}) \cup {new}]
      /\ UNCHANGED <<server, user, queue, cache, form, uploads, object>>
  BY DEF AnswerUrl, firestoreVars, storageVars
<1>2. new.email = call.email /\ new.reply = object[call.email]
  BY DEF TypeOK, UrlCall
<1> HIDE DEF new
<1>3. CallsOf(d, e)' = IF call.email = e
                         THEN (CallsOf(d, e) \ {call}) \cup {new} ELSE CallsOf(d, e)
  BY <1>1, <1>2 DEF CallsOf, TypeOK
<1>4. UpsOf(d, e)' = UpsOf(d, e) /\ object'[e] = object[e] /\ form'[d] = form[d]
  BY <1>1 DEF UpsOf
<1>5. CASE call.email # e
  <2>1. CallsOf(d, e)' = CallsOf(d, e)
    BY <1>3, <1>5
  <2>2. Moving(d, e) => Moving(d, e)'
    BY <1>4, <2>1 DEF Moving
  <2> QED
    BY <1>1, <1>4, <2>1, <2>2, LocalCalm
<1>6. CASE call.email = e
  <2>1. call \in CallsOf(d, e)
    BY <1>6 DEF CallsOf
  <2>2. /\ CallsOf(d, e) = {call} /\ UpsOf(d, e) = {}
        /\ ~(form[d] # NoForm /\ form[d].email = e)
    BY <2>1 DEF CalmInv, InOrder, Busy
  <2>3. UpsOf(d, e)' = {} /\ CallsOf(d, e)' = {new}
    BY <1>3, <1>4, <1>6, <2>2
  <2>4. Moving(d, e)'
    BY <2>3 DEF Moving
  <2>5. TextKept(d, u, e)'
    BY <1>1 DEF CalmInv, TextKept, EndsText, EndsIn
  <2>6. InOrder(d, e)'
    BY <1>2, <1>4, <1>6, <2>2, <2>3 DEF InOrder
  <2>7. PictureKept(d, u, e) => PictureKept(d, u, e)'
    BY <1>1, <2>2, <2>4 DEF PictureKept
  <2> QED
    BY <2>5, <2>6, <2>7 DEF CalmInv
<1> QED
  BY <1>5, <1>6

\* Participants: only the projects of a profile change.
LEMMA ParticipantsCalm ==
  ASSUME TypeOK, NEW d \in Device, NEW u \in User, NEW e \in Path, CalmInv(d, u, e),
         NEW participants \in Selection, NEW project \in Project,
         setParticipants(d, participants, project), last'[e] = last[e]
  PROVE  CalmInv(d, u, e)' /\ (PictureKept(d, u, e) => PictureKept(d, u, e)')
<1> DEFINE ms == [i \in 1..Len(participants) |->
                    UnionProject(participants[i], project)]
<1>1. participants \in Seq(Path)
  BY SelectionType
<1>2. ms \in Seq(Mutation) /\ Len(ms) = Len(participants)
  BY <1>1, MutationTypes
<1>3. Silent(ms, e, Pics)
  BY <1>1, <1>2 DEF Silent, Says, Pics, UnionProject
<1>4. WriteLocally(d, ms) /\ UNCHANGED <<server, user, cache, appVars, storageVars>>
  BY DEF setParticipants
<1> HIDE DEF ms
<1>5. UpsOf(d, e)' = UpsOf(d, e) /\ CallsOf(d, e)' = CallsOf(d, e)
      /\ object'[e] = object[e] /\ form'[d] = form[d]
  BY <1>4 DEF appVars, storageVars, UpsOf, CallsOf
<1> QED
  BY <1>2, <1>3, <1>4, <1>5, OtherWriteCalm

\* A calm edit begins with what the device shows, which has the image that is
\* stored unless that was cut short, and with nothing on its way.
LEMMA OpenCalm ==
  ASSUME TypeOK, NEW d \in Device, NEW u \in User, User = {u}, NEW e \in Path,
         CalmInv(d, u, e), ~Hasty(e), OpenMyProfile(d), last'[e] = last[e]
  PROVE  CalmInv(d, u, e)' /\ (PictureKept(d, u, e) => PictureKept(d, u, e)')
<1>0. FirestoreTypeOK /\ object[e] \in Picture
  BY DEF TypeOK
<1>1. /\ user[d] # NoUser /\ form[d] = NoForm
      /\ UNCHANGED <<server, user, queue, cache, uploads, urlCalls, object>>
      /\ form'[d] = getUserProfile(d)
  BY DEF OpenMyProfile, firestoreVars, storageVars, TypeOK
<1>2. form'[d] # NoForm /\ form'[d] \in Profile
  BY <1>1, getUserProfileType, ProfileAssumption DEF Profile
<1>3. user[d] = u
  BY <1>0, <1>1 DEF FirestoreTypeOK, Credential
<1>4. form'[d].email = e => ~PictureOnItsWay(d, e) /\ form'[d].doc = LocalView(d, e)
  BY <1>1, <1>2 DEF Hasty
<1>5. form'[d].email = e => ~Busy(d, e) /\ Silent(queue[d][NoUser], e, Pics)
  BY <1>4 DEF PictureOnItsWay, Busy, UpsOf, CallsOf, Silent, Says
<1>6. /\ UpsOf(d, e)' = UpsOf(d, e) /\ CallsOf(d, e)' = CallsOf(d, e)
      /\ object'[e] = object[e] /\ queue' = queue
  BY <1>1 DEF UpsOf, CallsOf
<1>7. \A K, T : EndsIn(d, u, e, K, T) => EndsIn(d, u, e, K, T)'
  BY <1>1 DEF EndsIn
<1>8. InOrder(d, e)'
  BY <1>5, <1>6 DEF CalmInv, InOrder, Busy
<1>9. TextKept(d, u, e)'
  BY <1>6, <1>7 DEF CalmInv, TextKept, EndsText
<1>10. ASSUME PictureKept(d, u, e) PROVE PictureKept(d, u, e)'
  <2>1. ASSUME form'[d].email = e PROVE form'[d].doc.picture = object[e]
    <3>1. ~Moving(d, e)
      BY <1>5, <2>1 DEF Busy, Moving
    <3>2. EndsIn(d, user[d], e, Pics, PictureDocs(object[e]))
      BY <1>0, <1>3, <1>10, <3>1 DEF PictureKept, EndsPicture
    <3>3. LocalView(d, e) \in PictureDocs(object[e])
      BY <1>0, <3>2, PictureIsPart, EndsInView
    <3>4. form'[d].doc \in Doc /\ form'[d].doc # NoDoc
      BY <1>2, FirestoreAssumption DEF Profile
    <3> QED
      BY <1>4, <2>1, <3>3, <3>4 DEF PictureDocs
  <2>2. Moving(d, e)' <=> Moving(d, e)
    BY <1>6 DEF Moving
  <2> QED
    BY <1>6, <1>7, <1>10, <2>1, <2>2 DEF PictureKept, EndsPicture
<1> QED
  BY <1>8, <1>9, <1>10 DEF CalmInv

\* Sessions, restarts, failures and views leave the documents and their writes
\* alone, and the work on an image unless they cut it short.
LEMMA SessionCalm ==
  ASSUME TypeOK, NEW d \in Device, NEW u \in User, NEW e \in Path,
         CalmInv(d, u, e), last'[e] = last[e],
         \/ \E v \in User : SignIn(d, v)
         \/ SignOut(d)
         \/ Cancel(d)
         \/ Restart(d)
         \/ \E up \in uploads[d] : UploadFailed(d, up)
         \/ Snapshot(d)
  PROVE  /\ CalmInv(d, u, e)'
         /\ PictureKept(d, u, e) /\ ~CutShort(e) => PictureKept(d, u, e)'
<1>1. UNCHANGED <<server, queue, cache, object>>
  BY DEF SignIn, SignOut, Cancel, Restart, UploadFailed, Snapshot,
         firestoreVars, storageVars
<1>2. form'[d] \in {form[d], NoForm}
  BY DEF SignIn, SignOut, Cancel, Restart, UploadFailed, Snapshot, appVars, TypeOK
<1>3. UpsOf(d, e)' \subseteq UpsOf(d, e) /\ CallsOf(d, e)' \subseteq CallsOf(d, e)
  <2>1. uploads'[d] \subseteq uploads[d] /\ urlCalls'[d] \subseteq urlCalls[d]
    BY DEF SignIn, SignOut, Cancel, Restart, UploadFailed, Snapshot, appVars, TypeOK
  <2> QED
    BY <2>1 DEF UpsOf, CallsOf
<1>4. ASSUME ~CutShort(e), Moving(d, e) PROVE Moving(d, e)'
  <2>1. CASE Restart(d)
    BY <1>4, <2>1 DEF CutShort, Moving, UpsOf, CallsOf
  <2>2. ASSUME NEW up \in uploads[d], UploadFailed(d, up) PROVE Moving(d, e)'
    <3>1. ~(up.profile.email = e /\ up.stored)
      BY <1>4, <2>2 DEF CutShort
    <3>2. uploads'[d] = uploads[d] \ {up} /\ urlCalls' = urlCalls
      BY <2>2 DEF UploadFailed, TypeOK
    <3>3. \A x \in UpsOf(d, e) : x.stored => x \in UpsOf(d, e)'
      BY <3>1, <3>2 DEF UpsOf
    <3>4. CallsOf(d, e)' = CallsOf(d, e)
      BY <3>2 DEF CallsOf
    <3> QED
      BY <1>4, <3>3, <3>4 DEF Moving
  <2>3. CASE UNCHANGED <<uploads, urlCalls>>
    BY <1>4, <2>3 DEF Moving, UpsOf, CallsOf
  <2> QED
    BY <2>1, <2>2, <2>3 DEF SignIn, SignOut, Cancel, Snapshot, appVars
<1> QED
  BY <1>1, <1>2, <1>3, <1>4, LocalCalm

\* What a step does to the stream.
LEMMA StepKinds ==
  ASSUME TypeOK, NEW d \in Device, UserStep(d) \/ Mishap(d) \/ SystemStep(d)
  PROVE  \/ UNCHANGED firestoreVars
         \/ /\ delivered' = [delivered EXCEPT ![d] = 0]
            /\ observed' = [observed EXCEPT ![d] = 0]
         \/ /\ \E ms \in Seq(Mutation) : WriteLocally(d, ms)
            /\ UNCHANGED <<server, user, delivered, observed, cache>>
         \/ Deliver(d) \/ Ack(d) \/ Reject(d) \/ BreakStream(d) \/ Watch(d)
<1>1. ASSUME NEW profile \in Profile, updateProfile(d, profile)
      PROVE  \E ms \in Seq(Mutation) : WriteLocally(d, ms)
  <2>1. <<SetDoc(profile.email, profile.doc)>> \in Seq(Mutation)
    BY MutationTypes DEF Profile
  <2> QED
    BY <1>1, <2>1 DEF updateProfile
<1>2. CASE UserStep(d)
  <2>1. ASSUME NEW text \in Text, NEW projects \in SUBSET Project,
               \/ Done(d, text, projects)
               \/ \E image \in Picture : DoneWithPicture(d, text, projects, image)
        PROVE  /\ \E ms \in Seq(Mutation) : WriteLocally(d, ms)
               /\ UNCHANGED <<server, user, delivered, observed, cache>>
    <3>1. form[d] # NoForm /\ updateProfile(d, Edited(form[d], text, projects))
          /\ UNCHANGED <<server, user, delivered, observed, cache>>
      BY <2>1 DEF Done, DoneWithPicture
    <3>2. Edited(form[d], text, projects) \in Profile
      BY <3>1, EditedType DEF TypeOK
    <3> QED
      BY <1>1, <3>1, <3>2
  <2>2. ASSUME NEW participants \in Selection, NEW project \in Project,
               setParticipants(d, participants, project)
        PROVE  /\ \E ms \in Seq(Mutation) : WriteLocally(d, ms)
               /\ UNCHANGED <<server, user, delivered, observed, cache>>
    <3> DEFINE ms == [i \in 1..Len(participants) |->
                        UnionProject(participants[i], project)]
    <3>1. participants \in Seq(Path)
      BY SelectionType
    <3>2. ms \in Seq(Mutation)
      BY <3>1, MutationTypes
    <3>3. WriteLocally(d, ms) /\ UNCHANGED <<server, user, delivered, observed, cache>>
      BY <2>2 DEF setParticipants
    <3> QED
      BY <3>2, <3>3
  <2>3. ASSUME \/ \E u \in User : SignIn(d, u)
               \/ SignOut(d)
        PROVE  /\ delivered' = [delivered EXCEPT ![d] = 0]
               /\ observed' = [observed EXCEPT ![d] = 0]
    BY <2>3 DEF SignIn, SignOut, ChangeCredential
  <2>4. OpenMyProfile(d) \/ Cancel(d) => UNCHANGED firestoreVars
    BY DEF OpenMyProfile, Cancel
  <2> QED
    BY <1>2, <2>1, <2>2, <2>3, <2>4 DEF UserStep
<1>3. CASE Mishap(d)
  BY <1>3 DEF Mishap, Restart, UploadFailed, Network
<1>4. CASE SystemStep(d)
  <2>1. ASSUME NEW up \in uploads[d], UploadSucceeded(d, up)
        PROVE  /\ \E ms \in Seq(Mutation) : WriteLocally(d, ms)
               /\ UNCHANGED <<server, user, delivered, observed, cache>>
    <3>1. up.profile \in Profile
      BY DEF TypeOK, Upload
    <3> QED
      BY <1>1, <2>1, <3>1 DEF UploadSucceeded
  <2>2. ASSUME NEW call \in urlCalls[d], UrlReceived(d, call)
        PROVE  /\ \E ms \in Seq(Mutation) : WriteLocally(d, ms)
               /\ UNCHANGED <<server, user, delivered, observed, cache>>
    <3>1. call \in UrlCall /\ call.reply # NoUrl
      BY <2>2 DEF TypeOK, UrlReceived
    <3>2. <<UpdatePicture(call.email, call.reply)>> \in Seq(Mutation)
      BY <3>1, MutationTypes DEF UrlCall
    <3> QED
      BY <2>2, <3>2 DEF UrlReceived
  <2> QED
    BY <1>4, <2>1, <2>2 DEF SystemStep, Snapshot, StoreImage, AnswerUrl, Network
<1> QED
  BY <1>2, <1>3, <1>4

LEMMA StreamStep ==
  ASSUME TypeOK, NEW d \in Device, StreamReflects(d),
         UserStep(d) \/ Mishap(d) \/ SystemStep(d)
  PROVE  StreamReflects(d)'
<1>1. FirestoreTypeOK /\ observed[d] <= delivered[d]
  BY DEF TypeOK, StreamReflects
<1>2. /\ \A e \in Path, text \in Text : Reflected(d, e, Saves, TextDocs(text))
      /\ \A e \in Path, image \in Picture : Reflected(d, e, Pics, PictureDocs(image))
  BY DEF StreamReflects
<1>3. SUFFICES
        /\ observed'[d] <= delivered'[d]
        /\ \A e \in Path, text \in Text : Reflected(d, e, Saves, TextDocs(text))'
        /\ \A e \in Path, image \in Picture : Reflected(d, e, Pics, PictureDocs(image))'
  BY DEF StreamReflects
<1>4. CASE UNCHANGED firestoreVars
  BY <1>1, <1>2, <1>4 DEF firestoreVars, Reflected, Pending
<1>5. CASE /\ delivered' = [delivered EXCEPT ![d] = 0]
           /\ observed' = [observed EXCEPT ![d] = 0]
  BY <1>1, <1>5, ClosedReflects
<1>6. CASE /\ \E ms \in Seq(Mutation) : WriteLocally(d, ms)
           /\ UNCHANGED <<server, user, delivered, observed, cache>>
  <2>1. PICK ms \in Seq(Mutation) : WriteLocally(d, ms)
    BY <1>6
  <2> QED
    BY <1>1, <1>2, <1>6, <2>1, WriteReflects
<1>7. CASE Deliver(d) \/ Ack(d) \/ Reject(d) \/ BreakStream(d) \/ Watch(d)
  <2>1. ASSUME NEW e \in Path, NEW text \in Text
        PROVE  Reflected(d, e, Saves, TextDocs(text))'
    BY <1>1, <1>2, <1>7, NetworkReflects, TextIsPart
  <2>2. ASSUME NEW e \in Path, NEW image \in Picture
        PROVE  Reflected(d, e, Pics, PictureDocs(image))'
    BY <1>1, <1>2, <1>7, NetworkReflects, PictureIsPart
  <2>3. observed'[d] <= delivered'[d]
    <3>1. Placeholder \in Path /\ NoPicture \in Picture
      BY ProfileAssumption, FirestoreAssumption
    <3> QED
      BY <1>1, <1>2, <1>7, <3>1, NetworkReflects, PictureIsPart
  <2> QED
    BY <2>1, <2>2, <2>3
<1> QED
  BY <1>4, <1>5, <1>6, <1>7, StepKinds

\* A Done is remembered, and nothing else is.
LEMMA HistoryEffect ==
  ASSUME NEW d, Device = {d}, HistoryNext
  PROVE  /\ UserStep(d) \/ Mishap(d) \/ SystemStep(d)
         /\ \A e \in Path : calm'[e] => calm[e] /\ ~Hasty(e)
         /\ \A e \in Path : ~cut'[e] => Stored(e) \/ (~cut[e] /\ ~CutShort(e))
         /\ last' = [e \in Path |-> last'[e]]
         /\ \A e \in Path :
              last'[e] = IF DoneIn(d) /\ form[d].email = e
                           THEN Last(queue'[d][user[d]]).value.text ELSE last[e]
<1>1. UserStep(d) \/ Mishap(d) \/ SystemStep(d)
  BY DEF HistoryNext, MCNext
<1>2. ASSUME NEW e \in Path, calm'[e] PROVE calm[e] /\ ~Hasty(e)
  <2>1. calm' = [x \in Path |-> calm[x] /\ ~Hasty(x)]
    BY DEF HistoryNext
  <2>2. calm'[e] = (calm[e] /\ ~Hasty(e))
    BY <2>1, Zenon
  <2> QED
    BY <1>2, <2>2, Zenon
<1>6. ASSUME NEW e \in Path, ~cut'[e] PROVE Stored(e) \/ (~cut[e] /\ ~CutShort(e))
  <2>1. cut' = [x \in Path |-> (cut[x] \/ CutShort(x)) /\ ~Stored(x)]
    BY DEF HistoryNext
  <2>2. cut'[e] = ((cut[e] \/ CutShort(e)) /\ ~Stored(e))
    BY <2>1, Zenon
  <2> QED
    BY <1>6, <2>2, Zenon
<1>3. last' = [e \in Path |->
         IF \E c \in Device : DoneIn(c) /\ form[c].email = e
           THEN Last(queue'[CHOOSE c \in Device : DoneIn(c)]
                         [user[CHOOSE c \in Device : DoneIn(c)]]).value.text
           ELSE last[e]]
  BY DEF HistoryNext
<1>4. last' = [e \in Path |-> last'[e]]
  BY <1>3
<1>5. ASSUME NEW e \in Path
      PROVE  last'[e] = IF DoneIn(d) /\ form[d].email = e
                          THEN Last(queue'[d][user[d]]).value.text ELSE last[e]
  <2>1. CASE \E c \in Device : DoneIn(c) /\ form[c].email = e
    <3>1. DoneIn(d) /\ form[d].email = e
      BY <2>1
    <3>2. (CHOOSE c \in Device : DoneIn(c)) = d
      BY <3>1
    <3> QED
      BY <1>3, <2>1, <3>1, <3>2
  <2>2. CASE ~\E c \in Device : DoneIn(c) /\ form[c].email = e
    BY <1>3, <2>2
  <2> QED
    BY <2>1, <2>2
<1> QED
  BY <1>1, <1>2, <1>4, <1>5, <1>6, Zenon

LEMMA LastOfDone ==
  ASSUME TypeOK, NEW d, Device = {d}, HistoryNext,
         NEW text \in Text, NEW projects \in SUBSET Project,
         \/ Done(d, text, projects)
         \/ \E image \in Picture : DoneWithPicture(d, text, projects, image)
  PROVE  \A e \in Path : last'[e] = IF form[d].email = e THEN text ELSE last[e]
<1> DEFINE profile == Edited(form[d], text, projects)
           m == SetDoc(profile.email, profile.doc)
           q == Pending(d)
<1>1. /\ form[d] # NoForm /\ form'[d] = NoForm /\ WriteLocally(d, <<m>>)
      /\ d \in Device /\ FirestoreTypeOK
  BY DEF Done, DoneWithPicture, updateProfile, TypeOK
<1>2. profile \in Profile /\ profile.doc.text = text
  <2> DEFINE draft == form[d]
  <2>1. draft \in Profile
    BY <1>1 DEF TypeOK
  <2>2. draft.doc \in Doc
    BY <2>1 DEF Profile
  <2> HIDE DEF draft
  <2>3. Edited(draft, text, projects).doc =
          [draft.doc EXCEPT !.text = text, !.projects = projects]
    BY <2>1 DEF Edited, Profile
  <2> QED
    BY <2>1, <2>2, <2>3, EditedType DEF draft, Doc
<1> HIDE DEF profile
<1>3. m \in Mutation /\ m.value.text = text
  BY <1>2, MutationTypes DEF SetDoc, Profile
<1> HIDE DEF m
<1>4. q \in Seq(Mutation) /\ <<m>> \in Seq(Mutation) /\ q = queue[d][user[d]]
  BY <1>1, <1>3, PendingType
<1>5. queue'[d][user[d]] = q \o <<m>>
  BY <1>1, <1>4, WriteLocallyQueue
<1> HIDE DEF q
<1>6. Last(q \o <<m>>) = m /\ q \o <<m>> # q
  <2>1. Len(q) \in Nat /\ Len(q \o <<m>>) = Len(q) + 1 /\ (q \o <<m>>)[Len(q) + 1] = m
    BY <1>3, <1>4
  <2> QED
    BY <2>1 DEF Last
<1>7. DoneIn(d)
  <2>1. queue'[d] # queue[d]
    BY <1>4, <1>5, <1>6
  <2> QED
    BY <1>1, <2>1 DEF DoneIn
<1>8. Last(queue'[d][user[d]]).value.text = text
  BY <1>3, <1>5, <1>6
<1>9. \A e \in Path :
        last'[e] = IF DoneIn(d) /\ form[d].email = e
                     THEN Last(queue'[d][user[d]]).value.text ELSE last[e]
  BY HistoryEffect
<1> HIDE DEF DoneIn
<1> QED
  BY <1>7, <1>8, <1>9

LEMMA LastStays ==
  ASSUME TypeOK, NEW d, Device = {d}, HistoryNext,
         form'[d] = form[d] \/ form[d] = NoForm \/ queue' = queue
  PROVE  \A e \in Path : last'[e] = last[e]
<1>1. ~DoneIn(d)
  BY DEF DoneIn
<1> QED
  BY <1>1, HistoryEffect

LEMMA StepCalm ==
  ASSUME TypeOK, CachedIsThere, NEW d, Device = {d}, NEW u, User = {u},
         HistoryInv(d, u), HistoryNext, NEW e \in Path, calm'[e]
  PROVE  CalmInv(d, u, e)' /\ (~cut'[e] => PictureKept(d, u, e)')
<1>1. /\ d \in Device /\ u \in User /\ CalmInv(d, u, e) /\ ~Hasty(e)
      /\ UserStep(d) \/ Mishap(d) \/ SystemStep(d)
      /\ StreamReflects(d) /\ (form[d] # NoForm => user[d] = u)
  BY HistoryEffect DEF HistoryInv
<1>2. ~cut'[e] => Stored(e) \/ (PictureKept(d, u, e) /\ ~CutShort(e))
  BY HistoryEffect DEF HistoryInv
<1>3. CASE Stored(e)
  <2>1. PICK up \in uploads[d] : up.profile.email = e /\ StoreImage(d, up)
    BY <1>3 DEF Stored
  <2>2. last'[e] = last[e]
    BY <2>1, LastStays DEF StoreImage
  <2> QED
    BY <1>1, <2>1, <2>2, StoreImageCalm
<1>4. SUFFICES ASSUME ~Stored(e)
               PROVE  /\ CalmInv(d, u, e)'
                      /\ PictureKept(d, u, e) /\ ~CutShort(e) => PictureKept(d, u, e)'
  BY <1>2, <1>3
<1> DEFINE Goal == /\ CalmInv(d, u, e)'
                   /\ PictureKept(d, u, e) /\ ~CutShort(e) => PictureKept(d, u, e)'
<1>5. ASSUME NEW text \in Text, NEW projects \in SUBSET Project,
             \/ Done(d, text, projects)
             \/ \E image \in Picture : DoneWithPicture(d, text, projects, image)
      PROVE  Goal
  BY <1>1, <1>5, LastOfDone, DoneCalm
<1>6. ASSUME \/ \E v \in User : SignIn(d, v)
             \/ SignOut(d)
             \/ Cancel(d)
             \/ Restart(d)
             \/ \E up \in uploads[d] : UploadFailed(d, up)
             \/ Snapshot(d)
      PROVE  Goal
  <2>1. queue' = queue
    BY <1>6 DEF SignIn, SignOut, Cancel, Restart, UploadFailed, Snapshot, firestoreVars
  <2> QED
    BY <1>1, <1>6, <2>1, LastStays, SessionCalm
<1>7. ASSUME OpenMyProfile(d) PROVE Goal
  <2>1. form[d] = NoForm
    BY <1>7 DEF OpenMyProfile
  <2> QED
    BY <1>1, <1>7, <2>1, LastStays, OpenCalm
<1>8. ASSUME NEW participants \in Selection, NEW project \in Project,
             setParticipants(d, participants, project)
      PROVE  Goal
  <2>1. form[d] = NoForm
    BY <1>8 DEF setParticipants
  <2> QED
    BY <1>1, <1>8, <2>1, LastStays, ParticipantsCalm
<1>9. ASSUME NEW up \in uploads[d], StoreImage(d, up) \/ UploadSucceeded(d, up)
      PROVE  Goal
  <2>1. form' = form
    BY <1>9 DEF StoreImage, UploadSucceeded
  <2>2. last'[e] = last[e]
    BY <2>1, LastStays
  <2>3. UploadSucceeded(d, up) /\ ~CutShort(e) =>
          (up.profile.email = e => user[d] # NoUser)
    BY <1>1 DEF CutShort
  <2> QED
    BY <1>1, <1>9, <2>2, <2>3, StoreImageCalm, UploadSucceededCalm
<1>10. ASSUME NEW call \in urlCalls[d], AnswerUrl(d, call) \/ UrlReceived(d, call)
       PROVE  Goal
  <2>1. form' = form
    BY <1>10 DEF AnswerUrl, UrlReceived
  <2>2. last'[e] = last[e]
    BY <2>1, LastStays
  <2>3. UrlReceived(d, call) /\ ~CutShort(e) => (call.email = e => user[d] # NoUser)
    BY <1>1 DEF CutShort
  <2> QED
    BY <1>1, <1>10, <2>2, <2>3, AnswerUrlCalm, UrlReceivedCalm
<1>11. ASSUME Network(Deliver(d) \/ Ack(d) \/ Reject(d) \/ (listening[d] /\ Watch(d)))
              \/ Network(BreakStream(d))
       PROVE  Goal
  <2>1. /\ Deliver(d) \/ Ack(d) \/ Reject(d) \/ BreakStream(d) \/ Watch(d)
        /\ UNCHANGED <<appVars, storageVars>>
    BY <1>11 DEF Network
  <2>2. form' = form
    BY <2>1 DEF appVars
  <2>3. last'[e] = last[e]
    BY <2>2, LastStays
  <2>4. server[e] = NoDoc => cache[d][e] = NoDoc
    BY <1>1 DEF CachedIsThere
  <2> QED
    BY <1>1, <2>1, <2>3, <2>4, NetworkCalm
<1>12. CASE UserStep(d)
  BY <1>5, <1>6, <1>7, <1>8, <1>12 DEF UserStep
<1>13. CASE Mishap(d)
  BY <1>6, <1>11, <1>13 DEF Mishap
<1>14. CASE SystemStep(d)
  BY <1>6, <1>9, <1>10, <1>11, <1>14 DEF SystemStep
<1>15. Goal
  BY <1>1, <1>12, <1>13, <1>14
<1> QED
  BY <1>15 DEF Goal

LEMMA HistoryStep ==
  ASSUME TypeOK, CachedIsThere, NEW d, Device = {d}, NEW u, User = {u},
         HistoryInv(d, u), HistoryNext
  PROVE  HistoryInv(d, u)'
<1>1. /\ d \in Device /\ u \in User /\ u # NoUser
      /\ UserStep(d) \/ Mishap(d) \/ SystemStep(d)
  BY HistoryEffect, FirestoreAssumption
<1>2. StreamReflects(d)'
  BY <1>1, StreamStep DEF HistoryInv
<1>3. \A e \in Path :
        calm'[e] => CalmInv(d, u, e)' /\ (~cut'[e] => PictureKept(d, u, e)')
  BY StepCalm
<1>4. last' \in [Path -> Text \cup {NoText0}]
  <2>1. last' = [e \in Path |-> last'[e]] /\ last \in [Path -> Text \cup {NoText0}]
    BY HistoryEffect DEF HistoryInv
  <2>2. CASE \E text \in Text, projects \in SUBSET Project :
               \/ Done(d, text, projects)
               \/ \E image \in Picture : DoneWithPicture(d, text, projects, image)
    <3>1. \A e \in Path : last'[e] \in Text \cup {NoText0}
      BY <2>1, <2>2, LastOfDone
    <3> QED
      BY <2>1, <3>1
  <2>3. CASE ~\E text \in Text, projects \in SUBSET Project :
               \/ Done(d, text, projects)
               \/ \E image \in Picture : DoneWithPicture(d, text, projects, image)
    <3>1. form'[d] = form[d] \/ form[d] = NoForm \/ queue' = queue
      <4>1. CASE UserStep(d)
        BY <2>3, <4>1 DEF UserStep, SignIn, SignOut, OpenMyProfile, Cancel,
                          setParticipants, firestoreVars, appVars
      <4>2. CASE Mishap(d)
        BY <4>2 DEF Mishap, Restart, UploadFailed, Network, appVars
      <4>3. CASE SystemStep(d)
        BY <4>3 DEF SystemStep, Snapshot, StoreImage, UploadSucceeded, AnswerUrl,
                    UrlReceived, Network, appVars
      <4> QED
        BY <1>1, <4>1, <4>2, <4>3
    <3>2. \A e \in Path : last'[e] \in Text \cup {NoText0}
      BY <2>1, <3>1, LastStays
    <3> QED
      BY <2>1, <3>2
  <2> QED
    BY <2>2, <2>3
<1>5. form'[d] # NoForm => user'[d] = u
  <2>1. form[d] # NoForm => user[d] = u
    BY DEF HistoryInv
  <2>2. user[d] \in {u, NoUser}
    BY <1>1 DEF TypeOK, FirestoreTypeOK, Credential
  <2>3. CASE UserStep(d)
    BY <1>1, <2>1, <2>2, <2>3
       DEF UserStep, SignIn, SignOut, OpenMyProfile, Cancel, setParticipants, Done,
           DoneWithPicture, ChangeCredential, firestoreVars, appVars, TypeOK
  <2>4. CASE Mishap(d)
    BY <2>1, <2>4 DEF Mishap, Restart, UploadFailed, Network, BreakStream,
                      firestoreVars, appVars, TypeOK
  <2>5. CASE SystemStep(d)
    BY <2>1, <2>5 DEF SystemStep, Snapshot, StoreImage, UploadSucceeded, AnswerUrl,
           UrlReceived, Network, Deliver, Ack, Reject, Watch, firestoreVars, appVars
  <2> QED
    BY <1>1, <2>3, <2>4, <2>5
<1> QED
  BY <1>2, <1>3, <1>4, <1>5 DEF HistoryInv

LEMMA HistoryStart ==
  ASSUME NEW d, Device = {d}, NEW u, User = {u}, HistoryInit
  PROVE  HistoryInv(d, u)
<1>1. /\ d \in Device /\ u \in User /\ u \in Credential /\ NoUser \in Credential
      /\ u # NoUser /\ Init
  BY FirestoreAssumption DEF Credential, HistoryInit, MCInit
<1>2. /\ user[d] = NoUser /\ form[d] = NoForm /\ uploads[d] = {} /\ urlCalls[d] = {}
      /\ delivered[d] = 0 /\ observed[d] = 0
      /\ \A c \in Credential : queue[d][c] = <<>>
      /\ \A e \in Path : object[e] = NoPicture /\ cache[d][e] = NoDoc
                         /\ server[e] \in {BlankDoc, NoDoc}
  BY <1>1 DEF Init
<1>3. last \in [Path -> Text \cup {NoText0}] /\ \A e \in Path : last[e] = NoText0
  BY DEF HistoryInit
<1>4. StreamReflects(d)
  BY <1>2 DEF StreamReflects, Reflected, Shows
<1>5. ASSUME NEW e \in Path PROVE CalmInv(d, u, e) /\ PictureKept(d, u, e)
  <2>1. UpsOf(d, e) = {} /\ CallsOf(d, e) = {} /\ ~Busy(d, e)
    BY <1>2 DEF UpsOf, CallsOf, Busy
  <2>2. \A c \in Credential : \A K : Silent(queue[d][c], e, K)
    BY <1>2 DEF Silent
  <2>3. InOrder(d, e)
    BY <1>1, <1>2, <2>1 DEF InOrder
  <2>4. server[e] \in PictureDocs(NoPicture) /\ cache[d][e] \in PictureDocs(NoPicture)
    <3>1. BlankDoc.picture = NoPicture
      BY DEF BlankDoc
    <3> QED
      BY <1>2, <3>1, BlankDocType DEF PictureDocs, MaybeDoc
  <2>5. EndsPicture(d, u, e, NoPicture)
    BY <1>1, <2>2, <2>4 DEF EndsPicture, EndsIn
  <2>6. TextKept(d, u, e)
    BY <1>1, <1>3, <2>2, SilentAgrees DEF TextKept
  <2>7. PictureKept(d, u, e)
    BY <1>1, <1>2, <2>2, <2>5 DEF PictureKept
  <2> QED
    BY <2>3, <2>6, <2>7 DEF CalmInv
<1> QED
  BY <1>2, <1>3, <1>4, <1>5 DEF HistoryInv

LEMMA HistoryRefines == HistorySpec => Spec
<1>1. HistoryInit => Init
  BY DEF HistoryInit, MCInit
<1>2. [HistoryNext]_historyVars => [Next]_vars
  <2>1. HistoryNext => Next
    BY DEF HistoryNext, MCNext, Next
  <2>2. UNCHANGED historyVars => UNCHANGED vars
    BY DEF historyVars, mcVars
  <2> QED
    BY <2>1, <2>2
<1> QED
  BY <1>1, <1>2, PTL DEF HistorySpec, Spec

LEMMA HistoryCorrect ==
  ASSUME NEW d, Device = {d}, NEW u, User = {u}
  PROVE  HistorySpec => [](TypeOK /\ HistoryInv(d, u))
<1>1. HistoryInit => HistoryInv(d, u)
  BY HistoryStart
<1>2. TypeOK /\ JoinsInv /\ HistoryInv(d, u) /\ [HistoryNext]_historyVars
        => HistoryInv(d, u)'
  <2>1. HistoryInv(d, u) /\ UNCHANGED historyVars => HistoryInv(d, u)'
    BY DEF historyVars, mcVars, vars, firestoreVars, appVars, storageVars,
           HistoryInv, StreamReflects, Reflected, Pending, CalmInv, InOrder,
           TextKept, PictureKept, Moving, Busy, UpsOf, CallsOf, EndsPicture,
           EndsText, EndsIn
  <2> QED
    BY <2>1, HistoryStep DEF JoinsInv
<1> QED
  BY <1>1, <1>2, HistoryRefines, TypeCorrect, JoinsCorrect, PTL DEF HistorySpec

\* On its one device, the only user always sees the text of the last Done,
\* whatever of it is queued, sent, acknowledged, sent again or watched, and
\* across restarts, failed uploads and sign-outs at any moment, as long as the
\* edits were calm.  (With a second
\* account a save may wait in the queue of the first until it signs in again.)
THEOREM OwnEditsSeen ==
  ASSUME NEW d, Device = {d}, NEW u, User = {u}
  PROVE  HistorySpec => []ReadYourWrites
<1>1. TypeOK /\ HistoryInv(d, u) => ReadYourWrites
  <2> SUFFICES ASSUME TypeOK, HistoryInv(d, u) PROVE ReadYourWrites
    OBVIOUS
  <2>1. /\ d \in Device /\ FirestoreTypeOK /\ user[d] \in {u, NoUser}
        /\ last \in [Path -> Text \cup {NoText0}]
    BY DEF TypeOK, FirestoreTypeOK, Credential, HistoryInv
  <2>2. ASSUME NEW e \in Path, user[d] = e, e # NoUser, last[e] # NoText0, calm[e]
        PROVE  LocalView(d, e).text = last[e]
    <3>1. CalmInv(d, u, e) /\ last[e] \in Text /\ user[d] = u
      BY <2>1, <2>2 DEF HistoryInv
    <3>2. EndsText(d, u, e, last[e])
      BY <2>2, <3>1 DEF CalmInv, TextKept
    <3>3. LocalView(d, e) \in TextDocs(last[e])
      BY <2>1, <3>1, <3>2, TextIsPart, EndsInView DEF EndsText
    <3> QED
      BY <3>3 DEF TextDocs
  <2>3. User \subseteq Path
    BY ProfileAssumption
  <2> QED
    BY <2>1, <2>2, <2>3 DEF ReadYourWrites
<1> QED
  BY <1>1, HistoryCorrect, PTL

\* There, when nothing is left to do, a profile that was edited calmly shows the
\* image that is stored for it, unless the app was killed, the upload's callback
\* got an error or one of the two callbacks saved while nobody was signed in,
\* after that image was stored and before its URL was written.  No older URL comes
\* last, and the next image that is stored makes good what was cut short.
THEOREM StoredPictureShown ==
  ASSUME NEW d, Device = {d}, NEW u, User = {u}
  PROVE  HistorySpec => []PictureInTheEnd
<1>1. TypeOK /\ HistoryInv(d, u) => PictureInTheEnd
  <2> SUFFICES ASSUME TypeOK, HistoryInv(d, u) PROVE PictureInTheEnd
    OBVIOUS
  <2>1. d \in Device /\ u \in Credential
    BY DEF Credential
  <2>2. ASSUME form[d] = NoForm, uploads[d] = {}, urlCalls[d] = {},
               \A c \in Credential : queue[d][c] = <<>>,
               NEW e \in Path, server[e] # NoDoc, calm[e], ~cut[e]
        PROVE  server[e].picture = object[e]
    <3>1. PictureKept(d, u, e) /\ ~Moving(d, e) /\ object[e] \in Picture
      BY <2>2 DEF HistoryInv, Moving, UpsOf, CallsOf, TypeOK
    <3>2. EndsPicture(d, u, e, object[e])
      BY <3>1 DEF PictureKept
    <3>3. server[e] \in PictureDocs(object[e])
      BY <2>1, <2>2, <3>2 DEF EndsPicture, EndsIn
    <3> QED
      BY <2>2, <3>3 DEF PictureDocs
  <2> QED
    BY <2>1, <2>2 DEF PictureInTheEnd
<1> QED
  BY <1>1, HistoryCorrect, PTL
=============================================================================
