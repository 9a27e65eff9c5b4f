# myBowfolio in TLA+

myBowfolio is an iOS app in which the members of a community keep a profile
(name, biography, interests, projects, picture), announce projects with their
participants, and browse each other's profiles, projects and interests.  It is
written in SwiftUI on top of three Firebase services: Authentication, the
Firestore database and Storage.  There is no server code of its own: what the
users of different devices see of each other is whatever the clients write into
the shared collections `users`, `profiles` and `projects` and the buckets
`profileImages` and `projectImages`.

That is why the difficult part of this small program is not in any one function.
A view copies a document, the user edits the copy for minutes, a write returns
before anything has left the phone, an upload comes back after the user has
signed out, a listener delivers a snapshot in the middle of a form.  The modules
in this directory model those interleavings.

## 1. Inventory

Paths below are relative to `src/myBowfolio/myBowfolio/`, those that start with
`Pods/` to `src/myBowfolio/`.

| Component | State | Operations | Talks to |
|---|---|---|---|
| Session (`HelpClasses/SessionStore.swift`) | `session`, `handle` | `listen`, `signUp`, `signIn`, `signOut`, `unbind` (never called) | Firebase Auth, `HomeView` |
| Registration (`Views/SignUpView.swift`, `ViewModel/UserViewModel.swift`, `ViewModel/ProfileViewModel.swift`) | typed email and passwords, alert | `signUp` and its completion, `addUser`, `addProfile` | Session, Firestore |
| Login (`Views/LoginView.swift`, `Views/ContentView.swift`) | typed email and password, alert | `login` | Session |
| Home (`Views/HomeView.swift`) | which sheet is shown, the profile to edit, the selected page | menu buttons, `getUserProfile`, `fetchData` on appearance | everything |
| Profile editing (`Views/EditProfileView.swift`, `ViewModel/ProfilesViewModel.swift`) | a draft of a profile, the picked image, `isLoadImage` | `handleDoneTapped`, `uploadPicureToStorage`, `save`, `updateProfile`, `loadImageFromStorage` | Firestore, Storage |
| Project creation (`Views/AddProjectView.swift`, `ViewModel/ProjectViewModel.swift`) | a draft of a project, selected participants and interests, the picked image | `checkNameToBeIdentical`, `handleDoneTapped`, `setParticipants`, `setPicureOfProject`, `save`, `loadImageFromStorage` | Firestore, Storage |
| Selection lists (`Views/FilterView.swift`: `Selections`, `SelectionRow`) | one flag per row, the shared array | tapping a row, appearance of a row | both forms, the filter page |
| Directory pages (`ProfilesView`, `ProjectsView`, `InterestsView`, `FilterView`, the three cards) | latest snapshots | pure functions of them | Firestore |
| Model (`Model/*.swift`) | value types, bundled JSON | decoding | |
| Firestore client (`Pods/FirebaseFirestore/Firestore/core/src`) | mutation queues per user, cache, write stream, watch stream, views, online state | local write, acknowledge, reject, watch, change of credential, the handlers of both streams | the backend, Auth |
| Auth client (`Pods/FirebaseAuth`) | current user, listeners | sign-in and sign-out, notification | the backend |
| Storage client (`Pods/FirebaseStorage`) | running tasks | `putData`, `downloadURL` | the backend |
| Debug and unused code (`Views/Test.swift`, `EditProject.swift`, `Filter.swift`, `ImageView.swift`, `Button.swift`, `Resource/`, `UsersViewModel.swift`) | | | nobody |

### How they interact, and what is hard about it

* **Everything returns at once.**  `setData`, `updateData`, `putData`,
  `downloadURL`, `createUser` and `signIn` only hand work over.  A handler runs to
  its end on the main queue; the results come as later blocks of that queue, in an
  order that the services and the network choose.  No handler waits for a result
  and most look at none.
* **Copies.**  `HomeView` copies a profile out of a snapshot, `EditProfileView`
  edits the copy, the upload's callback keeps it, the mutation queue keeps it on
  disk.  Each save writes the whole document, so an old copy overwrites what other
  devices did since (`EditProfileView.swift:191` and `:222`).
* **Queues per user.**  Firestore files a write under the credential in force when
  it is made.  Callbacks of one user may run when another one is signed in, and
  queues wait for their user's next sign-in.
* **Delivery at least once.**  When the stream breaks, all that is not
  acknowledged is sent again, also what the server has applied; acknowledgements
  and watch snapshots of the same write arrive in either order.
* **Non-atomic units of work.**  A sign-up is an account, a record and a profile; a
  project is one write per participant, an upload, a save and a URL.  The app may
  be killed, and any step may fail, between any two of them.
* **Three threads for one token.**  The user changes on Auth's queue, the main thread
  hears of it, the worker thread of Firestore works for that user; a request for a
  token goes the other way and comes back the same way, perhaps after a refresh.
* **Two ways back from the server.**  A device hears of its own write by the answer on
  the write stream and by a snapshot on the watch stream, in either order; a page has
  as many listeners as it has appeared, and each is told for itself.
* **Two sources of one fact.**  The signed-in user is held by Auth, by Firestore,
  by `SessionStore` and by the listener's `previousUserID`; the selection by an
  array and by a flag in every row; a project's participants by names in profiles.

### What makes each component correct

| Component | Properties |
|---|---|
| Session, Login | Firestore works with the user whom Auth holds (`CredentialFollowsAuth`); no page of a user is shown after that user is gone (`SessionHasItsUser`) and, as the comments say, the session is the user of Auth (`SessionFollowsAuth`: violated) |
| Registration | every account gets its profile, unless one of three things happens that the model names (`AccountsGetTheirProfile`) |
| Home, Profile editing | a device saves only profiles of accounts that were on it (`SavesStayOnDevice`), others can only add projects (`OthersOnlyJoin`), additions find their document (`JoinsFindTheirProfile`) and get lost only through copies that are older than they are (`SettledStaysSettled`), a user sees his own last edit unless it was made in haste (`ReadYourWrites`), the form is that of the user (`MyProfileIsMine`: violated) |
| Pictures of profiles | no picture reaches another profile (`PicturesKeepTheirOwner`), the stored one is shown in the end, unless its own work was cut short (`PictureInTheEnd`), the endless retry has an end (`UrlCallsCanBeAnswered`, `PictureWorkEnds`) |
| Project creation | what Done wrote survives (`DoneIsDurable`), profiles name only projects that exist or are coming (`ProfilesNameProjects`), pictures fit names (`PicturesMatchNames`) and arrive (`ProjectsGetTheirPicture`), names in use are refused (`SavedNamesAreNew`: violated) |
| Selection lists | flags and array agree (`MarksTellSelection`) and are a set to the outside (`IsASelectionSet`); the unwrapped index exists (`NeverTraps`: violated for lists with duplicates) |
| Directory pages | filter, cards and lists agree (`PagesAgree`, `CardsAgree`) in whatever spelling an email was typed (`SpellingDoesNotMatter`); lists name nothing twice (part of `MarksTellSelection`); a page ends with what the server holds (`PageShowsServerInTheEnd`) and every listener hears something (`FirstEvent`) |
| Firestore client, writing | an open stream has the token of its queue's owner (`TokenOfQueuesOwner`), a write is filed under its author (`QueuedUnderAuthor`), the pipeline is the head of the queue (`PipelineIsHead`), an answer is taken for the batch it belongs to (`AnswersFitPipeline`), the client's assertions hold (`StreamAssertions`), the whole is the queue that the app's modules assume (`ImplementsStore`), and it drains (`QueueDrains`) |
| Firestore client, reading | documents never go back (`NeverOlder`), the last event on its way to a page is the view (`PageCatchesUp`), who has heard nothing is waiting for someone (`NobodyIsForgotten`), the tracker's assertions hold (`TrackerAssertions`), a device catches up with the server (`DevicesConverge`) |

## 2. Modules

```
Firestore  <---- ProfileEditing  <---- MCProfileEditing <---- MCProfileHistory <---- ProfileEditingProofs
           <---- ProjectCreation <---- MCProjectCreation
           <---- Registration    <---- MCRegistration
           <---- WriteStream (INSTANCE, as the promise)
           <---- FirestoreProofs <---- ProfileEditingProofs, RegistrationProofs, ProjectCreationProofs
Credentials  <---- WriteStream <---- MCWriteStream, WriteStreamProofs
Listening    <---- MCListening, ListeningProofs
SelectionSet (promise) <---- SelectionRows <---- Pages <---- MCPages, SelectionProofs
Directory    <---- Pages
InductionLemmas <---- FirestoreProofs, ListeningProofs, SelectionProofs
```

An arrow means EXTENDS, or INSTANCE for the promises.  Operators
that begin with the comment "Mistake:" are plausible errors of the code, used to
confirm that a property would notice them (`mutants` in `PROJECT.json`); no
specification uses them.

**`Firestore`** is the database as the app uses it: `server`, and per device the
credential, one mutation queue per credential, how many mutations of the current
queue the server has applied (`delivered`), how many of these the last watch
snapshot included (`observed`), and the cache.  A document is reduced to the parts
that the app writes in different ways: what only a whole save writes (`text`), the
picture URL and the array of projects.

| Operator | Code |
|---|---|
| `SetDoc`, `UpdatePicture`, `UnionProject` | `setData`, `updateData(["picture": ...])`, `arrayUnion` in the view models |
| `PreconditionHolds`, `Merge`, `Apply` | `model/precondition.cc`, `patch_mutation.cc`, `transform_mutation.cc` |
| `WriteLocally`, `Ack`, `Reject`, `Watch` | `LocalStore::WriteLocally`, `AcknowledgeBatch`, `RejectBatch`, `ApplyRemoteEvent` |
| `LocalView` | `LocalDocumentsView`: cache plus waiting mutations of the current user |
| `ChangeCredential` | `SyncEngine::HandleCredentialChange` with `LocalStore::HandleUserChange` and the restart of the streams |
| `Deliver`, `BreakStream` | the write pipeline of `RemoteStore` |

`Deliver` stands for "the server applies the next mutation that was sent": mutations
are sent ahead of acknowledgements, and one that was applied and not acknowledged is
applied again after `BreakStream`.  Both orders of `Ack` and `Watch` are possible;
`observed` is what the version comparison at `local_store.cc:213` amounts to.  The
rules of the backend are not in the repository: the models assume that they refuse
a write only when nobody is signed in, or when an update finds no document.

**`ProfileEditing`** is HomeView, EditProfileView and ProfilesViewModel for a number
of devices and accounts.  `shown` is `HomeView.profile`, `form` the draft,
`uploads` and `urlCalls` the calls to Storage whose callback is still to run, with
what the callback captured.  `OpenMyProfile` is the menu's button with
`getUserProfile`; `Done` and `DoneWithPicture` are `handleDoneTapped` without and
with an image, edits of the fields included; `UploadSucceeded` and `UrlReceived` are
the two callbacks; an error of `downloadURL` leaves its call open, which is what the
immediate repetition amounts to.  `setParticipants` brings in the writes that the
project form makes to other profiles.  A `Restart` keeps queue, cache and credential
and loses the rest.

**`MCProfileHistory`** adds what only the properties know: `last`, the text of the last
Done for a profile; `calm`, which an edit made in haste (`Hasty`) ends for good; and
`cut`, which is set when the work on a stored image is cut short (`CutShort`) and reset
when the next image is stored (`Stored`).

**`ProjectCreation`** is AddProjectView with its view models.  `handed` is the
in-memory queue of Firestore's worker: here a kill may cut a Done into two, which
`ProfileEditing` and `Registration` leave out (their units are one write, or two in
one direction, and are taken to be on disk when the action ends).  `Done` is the
five calls of `handleDoneTapped` in their order, `Rebuild` what SwiftUI does to
view models held by `@ObservedObject`, `RetryUrl` the repetition of `downloadURL`.
`made` and `cut` are history.

**`Registration`** is the session: the Auth client changes its user on its own queue
(`Answered`, one block of that queue) and puts blocks into the main queue, of which
`Post` gives Firestore its credential and runs the listener, and `Register` is the
completion in SignUpView.  `heard` is the `previousUserID` of the listener.  Touches
are handled when the main queue is empty, so the user's actions need an empty
`blocks`.  `StartBlocks` has both orders in which a restarted app may learn of the
stored user.  The listener is started once per process: `HomeView`'s `onAppear` (line 139)
is taken not to run again when the page changes its branch; if it did, a new listener
would repair the session of finding 4.  `RegisterNobody` is the completion with an emptied field: the path
"profiles/" stops the app after the record was saved.

**`Credentials`** is the way of a user and of a token from Auth to the worker thread of
Firestore: `currentUser` on Auth's queue, `mainQueue` with the posted changes and
the answers to requests for tokens, `contentsUser` and `tokenCounter` of the
credentials provider, and `workQueue`, the tasks of the worker.  A request carries
the token counter of the moment (`IsCurrent`) and the close count of the stream that
made it.  `StartRefresh`, `FinishRefresh` and `FailRefresh` are an expired token.

**`WriteStream`** adds the worker: `pipeline`, `state`, `closeCount` and the idle timer
are those of `RemoteStore` and `Stream`; `requests`, `responses` and `status` are the
connection, on which answers carry no more than their order (the ids in `responses`
are ours, to state what they are for).  Each handler is one action with all that it
calls: `WriteMutations`, `HandleCredentialChange`, `ResumeStartWithCredentials`,
`OnWriteStreamHandshakeComplete`, `OnWriteStreamMutationResult`, `HandleWriteError`,
`OnWriteStreamClose`, with `Refill` for `FillWritePipeline` and `StartIfNeeded` for
`ShouldStartWriteStream` and `Stream::Start`.  `RestartApp` keeps the queues of
mutations and Auth's user; what waits for a thread is lost.  `Firestore` is
instantiated over this state: `delivered` is the number of answers that have not been
read, queues lose their ids, and `ImplementsStore` says that every step is one of
`Firestore` or changes nothing of it.  So what the app's modules assume of the client
is what this module does.  Two differences remain: a mutation enters the queue of
`Firestore` when the worker takes it, and `WriteStream` has one device, so that the
precondition of a refused write is the same for the server and for the client when
it hears of the refusal.  The server is assumed to read nothing more from a stream
that it has ended.

**`Listening`** is what a page hears of: `cache` with the versions of documents, the
device's own `queue` and its `answers`, the `watch` stream, the view (`shown`,
`current`), the listeners (`raised`) with their events in `mainQueue`, and the online
state with its timer.  `Committed` and `IsNews` are the two comparisons of versions
that bring answers and snapshots into one order; `Changes` is `View::ComputeDocumentChanges`;
`Raise` is `EventManager` with `QueryListener`; `FetchData` is the appearance of a
page; `RestartNetwork` and `LoseWatchStream` are what the tracker hears of.  One
collection stands for the three: they share nothing but the stream.

**`SelectionRows`** is `Selections` and `SelectionRow`; a row's flag is read once, when
the row appears.  Each occurrence of a duplicate is taken to have a row and a flag of its
own: `ForEach(id: \.self)` with repeated ids is undefined in SwiftUI, so finding 3 is one
of the outcomes it may have.  **`SelectionSet`** is the abstract specification: a set of chosen
items, changed by one tap at a time.  **`Directory`** holds the pure functions of the
pages, in the shape of the code's loops (`Collect` is the loop that appends what it
finds), with the letter case of emails as each of them treats it (`Lower`).
**`Pages`** puts the two together: the listeners report snapshots (`Report`), the
"plus" buttons feed lists computed from them to the rows (`OpenInterests`,
`OpenProjects`), and rows are tapped (`Tap`).  It states how the functions must agree,
against definitions without a loop: `InOrder` says by places, not by appending, what a
list of findings is.  `MCPages` gives it small snapshots, lets the first report be any
of them, and opens lists on the smallest only (`ReportFirst`, `OpenOnSmallest`).

## 3. Runs

| Run | Instance | Shows |
|---|---|---|
| `profile_editing` | 1 device with 2 accounts or 2 devices with 1 account, 1 picture, 1 project, queue of 2; 5 user steps, 1 mishap; devices, mishaps and new pictures together at most 3; accounts and devices symmetric; 898,874 states | ownership of saves, pictures, joins and URL calls; a settled participant is not lost |
| `profile_history` | 1 device, 1 account, 2 pictures, 2 texts, queue of 2; 5 steps, 2 mishaps, the same sum at most 4; fairness; 274,949 states | own edits stay visible, the stored picture in the end (under the conditions of section 4), devices converge, picture work ends |
| `profile_mine` | 1 device, 2 accounts | **violation** of `MyProfileIsMine` |
| `project_creation` | 1 device, 2 accounts, 2 names that differ in white space, 2 pictures, 2 ids; 6 steps, 1 setback, 1 loss; accounts and pictures symmetric | durability, names, pictures |
| `project_liveness` | 1 device, 1 account, 2 ids; 6 steps, 1 setback, no loss; fairness | the picture arrives |
| `project_unique` | the names of `project_creation` | **violation** of `SavedNamesAreNew` |
| `registration` | 1 device, 2 accounts, 2 requests at once, 2 forms; 8 steps, 1 setback | credential, session, profiles |
| `registration_two_calls` | the same without setbacks | **violation** of `SessionFollowsAuth` |
| `pages` | up to 2 profiles and 2 projects, 3 interests, an email in two spellings; lists of interests; 153,798 states | the directory's functions, the selection |
| `pages_twice` | lists of project names | **violation** of `NeverTraps` |
| `write_stream` | 1 account and nobody, 1 document, a save and an update; pipeline of 2, 3 writes, 2 mishaps (a change of user, a refresh, a lost connection, a change of network, a restart); fairness; 563,982 states | tokens, order, assertions, refinement of `Firestore`, the queue drains |
| `listening` | 1 document, a save and an addition, 2 listeners, 3 versions, 2 messages in flight, 1 mishap; fairness; 125,262 states | versions, events, online state, the page in the end |

*Bounds.*  The specifications are unbounded but for `MaxQueue`, `MaxParticipants`,
`MaxCalls`, `MaxForms`, `MaxCopies`, `MaxOld`, `MaxWrites`, `MaxMishaps`, `MaxListeners`,
`MaxCommits` and `MaxInFlight`; `MaxPendingWrites` is the code's own limit, which is
10.  The MC modules count what users do and what goes wrong; the steps of clients and
services are free.  Two accounts are enough for every confusion of one with another,
since no action involves three; the user steps suffice for "sign in, open, Done, sign
out, sign in as somebody else" with all callbacks late, or for two complete edits or
projects in a row; one mishap at any place covers each kind of interruption, and
`profile_history` allows two, so that a restart may follow a broken stream, and a sum of
four, so that a picture cut short by a restart may be followed by a second one that is
not; its queue of two holds a save and a URL, and the proofs of its invariants are for
every length.  In
`write_stream` nobody and one account are the two users (nobody has a queue and a token
of his own); three writes overfill a pipeline of two, so that it is refilled behind an
answer, behind a refusal and behind a restart; two mishaps are a sign-out with the next
sign-in, or a lost connection in the middle of a change.  In `listening` a second
listener joins a first one at any point; one document suffices for the order of
versions, since no step compares two documents, and three versions are a document that
is there, changed here and changed elsewhere.  Runs stop when budgets are used up, and
users may stop at any time: deadlock is not checked.

*Fairness.*  Weak fairness of the steps of the client libraries and the services, and
none of users, kills or failures: Storage answers each call and GCD runs each callback;
the worker queue of Firestore and the main queue run their tasks; Auth answers a request
for a token, with or without a refresh; a stream that broke is opened again by the
back-off of `RemoteStore`; the server answers what it receives; timers elapse.  Weak
fairness is enough because each of these steps, once possible, stays possible until it
is taken or a mishap or a user ends it.  In `profile_history` one fairness condition
covers all system steps of a device and in `write_stream` one covers all tasks and
events of the worker, which is a single thread: no kind of step is singled out, and
the runs show that none has to be.

## 4. What the runs found

1. *My Profile may be somebody else's* (`profile_mine`).  Directly after a sign-in,
   before the listener has reported, `getUserProfile` returns what was shown last:
   the profile of the account that was signed in before, or the placeholder "a".
   Done saves it under that email.  The other properties bound the damage: only
   accounts that were on the same device can be hit.
2. *A name in use is accepted with a space* (`project_unique`).  Only the new name is
   trimmed before the comparison, and it is stored untrimmed; the same name with a
   space can then be used any number of times, with one picture for all.
3. *The second deselection stops the app* (`pages_twice`).  With two projects of one
   name two rows are marked for one entry of the array.
4. *Signed in, on the page for signed-out users* (`registration_two_calls`).  The
   buttons stay enabled while a request is under way.  After sign-up and login of
   one account are answered with a log-out in between, Auth holds the user, the
   listener is not called, the session stays nil.

What the runs confirm needs conditions that a reader should know.  `ReadYourWrites` and
`PictureInTheEnd` hold for calm edits: none was made on a copy older than what the device
shows, or while the picture of an earlier edit was on its way.  `PictureInTheEnd` excepts
a second thing, which the code does do: when the app is killed after an image was stored
and before its URL is written, or the callback of that upload gets an error, or one of
the two callbacks (`EditProfileView.swift:214-222`) runs while nobody is signed in, the
image stays in Storage and the profile does not show it, for nothing resumes the work.
The exception is for that image only: the next one stored for the profile ends it.
`ReadYourWrites` needs no such exception.

`SettledStaysSettled` does not promise a participant anything while a copy of the profile
without the project is still somewhere, and nothing to the placeholder, which a restart
empties; `AccountsGetTheirProfile` exempts accounts in `lost`; `ProjectsGetTheirPicture` needs uploads that do not fail
and no kill, since the loop of `ProjectViewModel.swift:52` has no end otherwise and
nothing resumes it; `MarksTellSelection` needs lists without duplicates;
`SpellingDoesNotMatter` needs addresses of which one spelling is in use, which Auth
provides; `PageShowsServerInTheEnd` and `FirstEvent` except a query that was refused,
since then all its listeners are dropped for good and the page keeps what it shows
until `fetchData` runs again.

A suspicion that did not come true: a token fetched for one user cannot open the stream
of another.  The answer to a request for a token waits in the main queue behind the
notification of every change that Auth made before it, and the change closes the stream
that asked; so the close count alone tells a late answer, and the token counter at
`firebase_credentials_provider_apple.mm:94` is a second safeguard of the same thing.
Each of the three parts of the argument (the order of the main queue, the order of the
work queue, the close count) has a mutant that breaks a property.

## 5. Proofs

TLAPS checks the following for every value of the constants: any number of devices,
accounts, documents, texts, pictures, requests, forms and listeners, every queue bound
and every length of the pipeline.  The only assumptions are the named ones of the
modules (`FirestoreAssumption`, `ProfileAssumption`, `ProjectAssumption`, `RegistrationAssumption`,
`CredentialsAssumption`, `WriteStreamAssumption`, `ListeningAssumption`, `SelectionAssumption`,
`PagesAssumption`), which say that the different kinds of names are distinct, that
snapshots and lists have the types of their documents, and that bounds are natural numbers
(`Listening` starts with a first commit, so its bound is not zero); TLC evaluates them
in the runs.  Three conditions are stated in the theorems themselves: `ListsNameOnce`, in
`UniqueNamesAgree` that the names of projects are items and unique in every snapshot, and
in the two theorems about `HistorySpec` that there is one account and one device.

| Theorem | Property | Argument |
|---|---|---|
| `ProfileEditingProofs!TypeCorrect` | `TypeOK` | inductive as it stands; one lemma per action |
| `SavesStay` | `SavesStayOnDevice` | inductive together with `TypeOK` |
| `OthersJoin` | `OthersOnlyJoin` | an action property, from `SavesStay` |
| `UrlCallsAnswerable` | `UrlCallsCanBeAnswered` | from `StoredImagesStay`: uploads marked as stored have their image as well, and images do not vanish |
| `JoinsFind` | `JoinsFindTheirProfile` | from `JoinsInv` |
| `PicturesKept` | `PicturesKeepTheirOwner` | from `PicturesInv`, a case of `DocsWithin` |
| `SettledStays` | `SettledStaysSettled` | an action property, from the types and a case of `DocsWithin` |
| `OwnEditsSeen` | `ReadYourWrites` | from `HistoryInv`, for one account on one device |
| `StoredPictureShown` | `PictureInTheEnd` | from `HistoryInv`, for one account on one device |
| `ProjectCreationProofs!TypeCorrect` | `TypeOK` | together with `KindsInv` |
| `PicturesMatch` | `PicturesMatchNames` | from `KindsInv` |
| `DurableDone` | `DoneIsDurable` | from `DurabilityInv` |
| `NamedProjects` | `ProfilesNameProjects` | from `KindsInv` and `DurabilityInv` |
| `RegistrationProofs!TypeCorrect` | `TypeOK` | part of `IInv` |
| `CredentialFollows` | `CredentialFollowsAuth` | from `MainQueueTells` |
| `ProfilesArrive` | `AccountsGetTheirProfile` | from the whole of `IInv` |
| `SessionHasUser` | `SessionHasItsUser` | from `SessionTells` |
| `WriteStreamProofs!TokenIsOwners` | `TokenOfQueuesOwner` | from `OwnerInv`, below |
| `QueuesAreAuthors` | `QueuedUnderAuthor` | from `WorkInv` and `QueueInv` |
| `PipelineIsHeadAlways` | `PipelineIsHead` | from `WholeInv` |
| `AssertionsHold` | `StreamAssertions` | from `LiveInv` and `StreamInv` |
| `AnswersFit` | `AnswersFitPipeline` | from `WholeInv` |
| `StreamTypes` | `TypeOK` | from `WholeInv` |
| `StreamImplementsStore` | `ImplementsStore` | from `WholeInv`, `LedgerInv` and `RefusedInv`, one lemma per kind of step |
| `ListeningProofs!TrackerSound` | `TrackerAssertions` | inductive with what a message on its way says of the stream |
| `PageCatches` | `PageCatchesUp` | part of `ListenersInv` |
| `NobodyWaitsForNothing` | `NobodyIsForgotten` | from `ListenersInv` and the tracker's invariant |
| `TypesAndVersions` | `TypeOK` | from `VersionsInv` |
| `NothingGoesBack` | `NeverOlder` | an action property, from `VersionsInv` |
| `SelectionProofs!MarksAgree` | `MarksTellSelection` | inductive with the types, for lists that name nothing twice (`ListsNameOnce`) |
| `RowsImplementSet` | `IsASelectionSet` | from the same invariant, one step per action |
| `NoTrap` | `NeverTraps` | from the same invariant; `pages_twice` shows that the assumption is needed |
| `InterestListsAgree` | all three | for `InterestsSpec`, whose lists name nothing twice (`InterestsOnce`), without a condition |
| `UniqueNamesAgree` | all three | for `ProjectsSpec`, as long as names are unique: the condition that `pages_twice` lacks |
| `SpellingHarmless` | `SpellingDoesNotMatter` | in every state with typed snapshots, from `OwnPlace` and `ParticipantsJoined` |
| `PagesAlwaysAgree` | `PagesAgree` | likewise, from `Collected`, `OnCards` and `InterestsOnce` |
| `CardsAlwaysAgree` | `CardsAgree` | likewise, from `Collected` and `ProjectFound` |

**`InductionLemmas`.**  The provers cannot instantiate a theorem that takes an operator as
a parameter, and so none of the library's rules of induction.  Where the parameter is a
set or a function they can: `LeastOfNat` is the library's rule for well-founded relations
applied to one, `NatInSet` is induction for the members of a set, `RecursionOnNat` says
that a function whose steps are given as functions exists.  `FoldExists` and `FoldRuns`
use these for the community modules' `FoldLeft`, which is a recursive function on sets of
indices, chosen by what it satisfies: a fold over a sequence goes through its elements in
order, as a loop does.  With them the proofs know what the four folds of the models
compute for every input: the overlay of `Firestore!LocalView` and of `Listening!LocalView`,
the writes of `ProjectCreation!setParticipants`, and the list of `getInterests`.

**`FirestoreProofs`** has what the proofs of the app's modules rest on: the types that
each step of the client keeps, and what a step may do to queued saves.  A save that is
queued stays queued when anything is appended, when another credential comes into
force, and when the head of another queue is removed; when its own acknowledgement
removes it, the server has its document (`SentIsThere`: every `setData` counted in
`delivered` has left a document, and documents do not vanish).  A save is never at the
head of a rejection while somebody is signed in.  `DocsWithin(A, M)` is an invariant for
any use: all documents at a path `p`, on the server and in caches, are in `A[p]`, and all
waiting mutations in `M`.  If the mutations of `M` keep the sets of `A` (`Closed`), no step
of the client and the server leads out of it, and what `LocalView` computes is in `A` as
well, which is the induction over the queue.  Three of the proofs below are cases of it.

The last part of the module is about the last write of one part of a document, say the
picture: the mutations with an operation in `K` set it, all others leave it alone, and `T`
holds the documents with a given value in it (`IsPart`).  `EndsIn(d, u, e, K, T)` says that
the queue of `u` ends with that value: its last mutation that sets the part brings it, or
none sets it and server and cache have it.  No step of the client and the server changes
that (`NetworkEnds`), although after a broken stream the writes are sent again and the
server goes back to the first of them.  What makes it true is `Reflected`: of the mutations that were
sent, the last one that sets the part shows on the server, and of those that the last
watch snapshot included, in the cache.  `EndsInView` concludes that the listener of `u` shows
the value now, whatever of the queue is sent or acknowledged.

**`ProfileEditingProofs`.**  `SavesStayOnDevice` speaks of everything that may become a
save (forms, callbacks that captured a draft, what is shown, queues), and so is
inductive by itself.  `OthersOnlyJoin` follows: only `Deliver` changes the server, and
the mutation it applies is in a queue that the invariant covers.

`JoinsFindTheirProfile` needs `JoinsInv`: a device can choose only participants whose
profile it shows; what it shows is cached, and then the document was on the server and
stays there (`CachedIsThere`), or waits in the same queue ahead of the addition.  That
this is still so when the head of the queue goes is `SentIsThere`; that the queue of a
signed-out device, whose writes are refused, has no additions is `SignedOutJoinNothing`.
`PicturesKeepTheirOwner` is about forms, callbacks and the server.  `PicturesInv` adds
caches, queues and snapshots: no document or waiting mutation of a path has an image of
another (`OwnDocs`, `OwnMutations`).  For `SettledStaysSettled` the sets are the documents
of one profile that name a given project, and the mutations of it that do not remove
that project: while all are in there, every step keeps all in there, save Done with a
draft from which the user took the project.  The proof found what no run had met.  The
property was false for the placeholder profile "a", which a restarted app shows again
with no project although a device has saved one under that name (four user steps and a
restart, more than the run's bounds allow together); it now speaks of profiles other than
the placeholder.

`ReadYourWrites` and `PictureInTheEnd` follow from `HistoryInv`.  It has `Reflected` for every
text and picture (`StreamReflects`) and, for every profile whose edits were calm, two
parts.  `InOrder`: at most one upload or URL call of the profile is under way, none while
its form is open; the upload has the text of the last Done, and an answer is the image
that is stored.  `TextKept`: the account's queue ends with the text of the last Done, and
whatever callbacks saved in the queue of the signed-out device brings no other text
(`Agrees`), so that no step of that queue disturbs this.  Both
survive a kill, a failed upload and a sign-out at any moment, which only take work away.
The second save of an upload's callback is harmless because of the first part.  Where in
addition nothing was cut short, `PictureKept` says that the draft has the image that is
stored and that the account's queue ends with it, unless an upload or URL call is moving
it there.  A kill or a callback of a signed-out device can end that, and the invariant
asks nothing about pictures until an image is stored again: then the upload is marked as
stored and is the only work under way, which is all that `PictureKept` asks.  Both theorems are
for one account on one device, where alone they are true: with two accounts a form
that was opened on the previous user's profile is saved under the wrong credential
(finding 1), and with two devices the other's save is seen.

**`ProjectCreationProofs`.**  `KindsInv` lists the writes that exist: saves and picture
updates of made projects with an image of their own name, and additions of made names to
profiles of users; the documents are what these writes leave (`DocsWithin` again), and
uploads and calls know the same.  `PicturesMatchNames` is part of it.  What
`setParticipants` hands over is exactly one addition per chosen participant whom the
device shows (`IsJoins`).  `DoneIsDurable` and `ProfilesNameProjects` need
`DurabilityInv`, which follows every write of a Done that was not cut from the worker's
memory into the queue and to the server: an addition is ahead of the save of its project
in memory, so that a kill which loses the one loses the other and counts the project as
cut; a save that has left a queue has left a document, an addition its name in the profile
(`JoinsAreThere`), which only grows since nothing else writes the list of projects there;
and what the server refuses, the writes of a signed-out device, are pictures only
(`SignedOutWrites`).

**`RegistrationProofs`.**  Neither `CredentialFollowsAuth` nor `AccountsGetTheirProfile` is
inductive: the first says nothing while blocks wait, the second does not say under
which credential the completion will file its save.  `MainQueueTells` adds both.  The
last block that posts a change carries the user whom Auth holds, and if there is none
Firestore has that user already (`Tells`); a completion stands directly behind the
block that posts its own account, or is first when that credential is in force
(`Ordered`).  So the save of a completion always goes into the queue of its account,
where the lemmas of `FirestoreProofs` follow it to the server.  `FormsKnown` gives
the completion a form to read.  `SessionHasItsUser` has an invariant of its own: the
session is empty or what the listener heard last, and the listener has heard what Auth
holds unless a block that runs it is waiting.  (It cannot be strengthened to
`SessionFollowsAuth`: finding 4.)

**`WriteStreamProofs`.**  Part I, owners.  `TokenOfQueuesOwner` speaks of the moment at which a stream opens,
when the decision is already behind: the token was asked for, answered, handed on.
`OwnerInv` follows it back through all the queues.  `MainInv` says that the last change
in the main queue, or `contentsUser` if there is none, is Auth's user, and that every
answer in it carries the user of the change before it, or was made for a token counter
that will be over when it is read.  `WorkInv` says the same of the work queue: its last
change, or `user`, is `contentsUser`; each write has the author who is then current; a
token that comes after a change has a close count that the change makes old.
`QueueInv` has the authors of the queued batches, and that their ids ascend and are
below `nextBatchId` (`FirstFreeId` after a change of user: `FreeIds`).

Part II, order.  `PipelineIsHead` is inductive only with the ids ascending,
since `Refill` looks for the batches behind the last one of the pipeline
(`RefillIsHead`), and an answer removes from the queue by id what it removes from the
pipeline as the first (`WithoutFirst`).  `LiveInv` says that at most one token is under
way for the present stream, in one place out of four, and that it is there exactly when
the state is "starting"; a close makes it late (`ClosesPast`).  `StreamInv` has, for an
open stream with and without its handshake and for one that has failed, how many of the
pipeline are answered, refused and still to be received (`Fits`), and that the idle timer
runs on an empty queue only.  `WholeInv` is the conjunction.

Part III, the refinement.  The mapping forgets the ids and the authors of batches
(`Mutations`) and has as `delivered` the answers that wait to be read, which after the
handshake are all of `responses` and before it none (`DeliveredIs`).  `WholeInv` gives most
of the guards: an answer is for the head of the queue, the batch that the server applies is
the next one of the queue.  Two guards need more.  That a write is in bounds when it joins
a queue follows from `LedgerInv`: the writes that wait for the worker can be numbered, in
their order, above the length of every queue and up to the number of writes made.  That a
batch is dropped only if the server had to refuse it follows from `RefusedInv`: while the
refusal is on its way, the batch behind the answered ones is still one that is not allowed,
and the token with which it was refused is that of the queue's owner.

**`ListeningProofs`.**  The assertions of the tracker do not hold by themselves: a message
that arrives makes the state "Online" and must find a stream that was started, and a
started stream of which nothing is known has the timer running (`TrackerInv`).  For the
page, `ListenersInv` has `PageCatchesUp` and `NothingIsHeldBack`: a listener that has
raised nothing could not have been told anything, since the view is empty and neither
current nor that of a device known to be offline.  `RaiseEffect` says how many events a
snapshot adds to the main queue, and that they all are the view.

`NeverOlder` compares a document of the view with what the next step shows.  What is shown
of a document is a write of this device alone, or no later than what is cached of it
(`ShownOf`), and a cached version only grows: `Committed` and `IsNews` see to it.  Both
take a number from a message as a version, so that `VersionsInv` also says where such
numbers come from: none is later than the server's version of that document
(`AnswersInv`, `WatchedInv`, `CacheInv`).  The overlay of waiting writes never loses a
document or changes its version (`LocalViewStays`).

**`SelectionProofs`.**  Flags and array agree only as long as every item has one row, so
the theorems assume that no list names an item twice (`ListsNameOnce`), which is exactly
what `MCPagesTwice` gives up.  `SelectionInv` adds to the agreement the types and that the
list on screen names nothing twice: then a list opened anew has a first row for every item
in it and no second (`CopiesOnce`), a tap that finds the flag down appends an item that is
not selected (`AppendedOnce`), and one that finds it up removes the only occurrence
(`RemovedOnce`), which is to add and to remove a member of the set of `SelectionSet`.

The condition is dropped for interests.  `InterestsOnce` proves of `getInterests`, for all
snapshots, that its list names every interest that some document mentions, no other, and
each once; so `InterestListsAgree` has the three properties for `InterestsSpec` without
`ListsNameOnce`.  Both it and the theorems about `Spec` go through `OnceSpec`, what the
rows do whoever fills the lists, as long as nothing is listed twice.

What the pages compute depends on the latest snapshots alone, so their three properties are
proved for every state in which the snapshots have the types of their documents
(`SpellingOfSnapshots`, `PagesOfSnapshots`, `CardsOfSnapshots`), of any length and for any
number of chosen items; the theorems add that the listeners report nothing else
(`SnapshotsTyped`).  The core is `Collected`: by induction over the snapshot, what a loop
has appended so far lists the matching places passed, each once and in their order
(`InOrder`).  From this follow the set of what is found (`FoundElements`) and, where one
place matches, the only finding (`FoundOne`).  `OwnPlace` says where that is so: if no two
profiles have the same address up to case, each is the only match of its own, which gives
`getUserProfile`, `imageName` and, with the outer loop (`ParticipantsJoined`),
`setParticipants`.  `ProjectFound` is about the first match instead, which exists by
`LeastOfNat`.

**Only model-checked.**  The liveness properties (`DevicesConverge`, `PictureWorkEnds`,
`ProjectsGetTheirPicture`, `QueueDrains`, `PageShowsServerInTheEnd`, `FirstEvent`), since
fairness and `ENABLED` are out of the prover's reach.  Every safety property of a passing
run is stated by a theorem.

## 6. What is not modelled

* *Layout and wording*, the pager, the menus, alerts, `ImagePicker` and the text field:
  their results are inputs of the forms' actions.
* *The two sheets of HomeView* with their flags (`HomeView.swift:50` and `:119`): which one
  SwiftUI presents, and when it clears the flags, is decided in the framework, whose code
  is not in the repository; a model of it would be an invention.
* *Letter case of emails in the state machines.*  There an account, its profile and its
  image are named by one value; `Directory` has the comparisons of the code, in which one
  side or both are lower-cased, and `SpellingDoesNotMatter` when that makes no difference.
* *InterestsView's list*, which is computed from JSON in the bundle, and decoding of
  that JSON (`Model/Data.swift`).
* *Firestore*: deletes, transactions, queries with filters and limits, garbage collection,
  times of back-off.  `Listening` has no limbo documents, existence filters, resume tokens
  and restarts, and no change of the user whose queue is on top (`Firestore` has it).
  `WriteStream` loses the writes that wait in the worker's queue when the app is killed,
  and has no writes that fail on disk.
* *Auth*: other providers, and when a token expires (a refresh may happen at any request).
  *Storage*: the inner states of its tasks.
* *The backend's rules*, which are not in the repository (see `Firestore` above).
* `Registration` leaves watch snapshots out: nothing in it reads them.
* Code that no page reaches, see the inventory.
* *The vendored libraries* below the Firebase clients (gRPC, BoringSSL, abseil, LevelDB,
  protocol buffers, the image cache) and generated code.  They are almost all of the
  repository's lines, so the share of lines that the models cover stays a fraction of a
  percent however much of the app and of the clients is modelled.

## 7. Plan

Done in this order: `Firestore` and `ProfileEditing` with their first theorems,
`ProjectCreation`, `SelectionRows` and `Directory`, `Registration` with its proofs;
then `Credentials` and `WriteStream`, `Listening`, letter case in `Directory`, and the
proofs about both streams and the selection lists, with both refinements; then the lemmas
on induction and folds, and with them all safety properties of `ProfileEditing`,
`ProjectCreation` and `Listening` and of the user's history in `MCProfileHistory`; and at
last those of `Pages`, with the selections of `Directory` as folds.  Next:

1. In-memory hand-over of writes in `Registration`, as `ProjectCreation` has it.
2. Limbo documents and existence filters in `Listening`.
