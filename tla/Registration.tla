----------------------------- MODULE Registration -----------------------------
(***************************************************************************)
(* Who is signed in, and how a new account gets its profile.               *)
(*                                                                         *)
(* The Auth client changes its current user on a queue of its own when the *)
(* service answers, and tells the rest of the process by blocks that it    *)
(* appends to the main queue: one that posts the change, which gives       *)
(* Firestore its credential and runs the app's listener, and, for a        *)
(* sign-up, a second one that runs the completion of SignUpView, which     *)
(* writes the first documents of the account.  A listener does not run     *)
(* when the user is the one it saw last.  Requests may be repeated while   *)
(* the first is under way, their answers may get lost, the user may type   *)
(* on, and the app may be killed between any two of these steps.           *)
(***************************************************************************)
EXTENDS Firestore

CONSTANTS
  Record,    \* ids of documents in "users", each fresh
  NotHeard,  \* the listener has not run since the app was started
  NoCall,    \* a slot without a request
  MaxCalls,  \* bound on the requests under way on one device
  MaxForms   \* bound on the sign-up forms opened between two starts

Call == [kind : {"signUp", "signIn"}, email : User, form : Nat, made : BOOLEAN]

ASSUME RegistrationAssumption ==
  /\ Path = User \cup Record
  /\ User \cap Record = {}
  /\ User \subseteq Text
  /\ NotHeard \notin Credential
  /\ MaxCalls \in Nat /\ MaxForms \in Nat
  /\ NoCall \notin Call

VARIABLES
  accounts,  \* the accounts of the Auth service
  calls,     \* calls[d][n]: a request under way, or NoCall
  auth,      \* auth[d]: Auth.currentUser, kept in the keychain
  blocks,    \* blocks[d]: the blocks waiting in the main queue
  heard,     \* heard[d]: previousUserID of the app's listener
  session,   \* session[d]: the user of SessionStore
  field,     \* field[d][k]: the email in the k-th sign-up form, NoUser if empty
  shown,     \* shown[d]: the last sign-up form is on screen
  lost       \* history: accounts whose sign-up did not come to its end

authVars == <<accounts, calls, auth>>
appVars == <<heard, session, field, shown>>
vars == <<firestoreVars, authVars, blocks, appVars, lost>>

Block == [do : {"listen", "changed", "registered"}, user : Credential, form : Nat]

Listen == [do |-> "listen", user |-> NoUser, form |-> 0]
Changed(u) == [do |-> "changed", user |-> u, form |-> 0]
Registered(u, form) == [do |-> "registered", user |-> u, form |-> form]

UserRecord(email) == [BlankDoc EXCEPT !.text = email]

\* What the main queue holds when the app starts with a stored user: the Auth
\* client has loaded it before or after the first page appears.
StartBlocks(u) ==
  IF u = NoUser THEN {<<Listen>>}
  ELSE {<<Changed(u), Listen>>, <<Listen, Changed(u)>>}

Init ==
  /\ accounts \in SUBSET User
  /\ server = [p \in Path |-> IF p \in accounts THEN BlankDoc ELSE NoDoc]
  /\ user = [d \in Device |-> NoUser]
  /\ queue = [d \in Device |-> [u \in Credential |-> <<>>]]
  /\ delivered = [d \in Device |-> 0]
  /\ observed = [d \in Device |-> 0]
  /\ cache = [d \in Device |-> [p \in Path |-> NoDoc]]
  /\ calls = [d \in Device |-> [n \in 1..MaxCalls |-> NoCall]]
  /\ auth = [d \in Device |-> NoUser]
  /\ blocks = [d \in Device |-> <<Listen>>]
  /\ heard = [d \in Device |-> NotHeard]
  /\ session = [d \in Device |-> NoUser]
  /\ field = [d \in Device |-> <<>>]
  /\ shown = [d \in Device |-> FALSE]
  /\ lost = {}

-----------------------------------------------------------------------------
(* The user's actions.  Touches reach the app when the main queue is empty.  *)

OpenSignUp(d) ==
  /\ blocks[d] = <<>> /\ session[d] = NoUser
  /\ Len(field[d]) < MaxForms
  /\ field' = [field EXCEPT ![d] = Append(@, NoUser)]
  /\ shown' = [shown EXCEPT ![d] = TRUE]
  /\ UNCHANGED <<firestoreVars, authVars, blocks, heard, session, lost>>

Type(d, email) ==
  /\ blocks[d] = <<>> /\ session[d] = NoUser /\ shown[d]
  /\ field' = [field EXCEPT ![d][Len(field[d])] = email]
  /\ UNCHANGED <<firestoreVars, authVars, blocks, heard, session, shown, lost>>

Request(d, n, call) ==
  /\ blocks[d] = <<>> /\ session[d] = NoUser
  /\ calls[d][n] = NoCall
  /\ calls' = [calls EXCEPT ![d][n] = call]
  /\ UNCHANGED <<firestoreVars, accounts, auth, blocks, appVars, lost>>

\* The button is not disabled while a request is under way.
signUp(d, n) ==
  LET email == Last(field[d])
  IN /\ shown[d]
     /\ email # NoUser
     /\ Request(d, n, [kind |-> "signUp", email |-> email,
                       form |-> Len(field[d]), made |-> FALSE])

login(d, n, email) ==
  Request(d, n, [kind |-> "signIn", email |-> email, form |-> 0, made |-> FALSE])

\* Auth changes first and posts the change; the session is cleared at once.
signOut(d) ==
  /\ blocks[d] = <<>> /\ session[d] # NoUser
  /\ auth' = [auth EXCEPT ![d] = NoUser]
  /\ blocks' = [blocks EXCEPT ![d] =
       IF auth[d] = NoUser THEN @ ELSE Append(@, Changed(NoUser))]
  /\ session' = [session EXCEPT ![d] = NoUser]
  /\ UNCHANGED <<firestoreVars, accounts, calls, heard, field, shown, lost>>

-----------------------------------------------------------------------------
(* The Auth service and its client *)

\* The service makes the account; the client still has to hear of it.
AccountMade(d, n) ==
  LET c == calls[d][n]
  IN /\ c # NoCall /\ c.kind = "signUp" /\ ~c.made
     /\ c.email \notin accounts
     /\ accounts' = accounts \cup {c.email}
     /\ calls' = [calls EXCEPT ![d][n].made = TRUE]
     /\ UNCHANGED <<firestoreVars, auth, blocks, appVars, lost>>

\* Mistake: the completion is put in the main queue before the change.
AnsweredCompletionFirst(d, n) ==
  LET c == calls[d][n]
  IN /\ c # NoCall
     /\ IF c.kind = "signUp" THEN c.made ELSE c.email \in accounts
     /\ auth' = [auth EXCEPT ![d] = c.email]
     /\ blocks' = [blocks EXCEPT ![d] =
          IF c.kind = "signUp"
            THEN Append(Append(@, Registered(c.email, c.form)), Changed(c.email))
            ELSE Append(@, Changed(c.email))]
     /\ calls' = [calls EXCEPT ![d][n] = NoCall]
     /\ UNCHANGED <<firestoreVars, accounts, appVars, lost>>

\* A good answer: one block of the Auth queue changes the current user, posts
\* the change and then the completion.  A login's completion changes nothing.
Answered(d, n) ==
  LET c == calls[d][n]
  IN /\ c # NoCall
     /\ IF c.kind = "signUp" THEN c.made ELSE c.email \in accounts
     /\ auth' = [auth EXCEPT ![d] = c.email]
     /\ blocks' = [blocks EXCEPT ![d] =
          IF c.kind = "signUp"
            THEN Append(Append(@, Changed(c.email)), Registered(c.email, c.form))
            ELSE Append(@, Changed(c.email))]
     /\ calls' = [calls EXCEPT ![d][n] = NoCall]
     /\ UNCHANGED <<firestoreVars, accounts, appVars, lost>>

\* An error, which is shown in an alert: the address is taken or unknown, or the
\* network failed, perhaps after the service had made the account.
Failed(d, n) ==
  LET c == calls[d][n]
  IN /\ c # NoCall
     /\ calls' = [calls EXCEPT ![d][n] = NoCall]
     /\ lost' = IF c.made THEN lost \cup {c.email} ELSE lost
     /\ UNCHANGED <<firestoreVars, accounts, auth, blocks, appVars>>

-----------------------------------------------------------------------------
(* The main queue *)

\* Mistake: the listener is removed as soon as it has seen a user.
HearFirstUser(d) ==
  LET u == auth[d]
      new == heard[d] # u /\ heard[d] \notin User
  IN /\ heard' = [heard EXCEPT ![d] = IF new THEN u ELSE @]
     /\ session' = [session EXCEPT ![d] = IF new THEN u ELSE @]
     /\ shown' = [shown EXCEPT ![d] = @ /\ session'[d] = NoUser]

\* The listener looks at the current user of the moment it runs, and does
\* nothing if it saw the same one the last time.  Home and the pages that lead
\* to SignUpView replace each other as the session changes.
Hear(d) ==
  LET u == auth[d]
      new == heard[d] # u
  IN /\ heard' = [heard EXCEPT ![d] = u]
     /\ session' = [session EXCEPT ![d] = IF new THEN u ELSE @]
     /\ shown' = [shown EXCEPT ![d] = @ /\ session'[d] = NoUser]

NextBlock(d, do) == blocks[d] # <<>> /\ Head(blocks[d]).do = do
BlockDone(d) == blocks' = [blocks EXCEPT ![d] = Tail(@)]

listen(d) ==
  /\ NextBlock(d, "listen")
  /\ BlockDone(d)
  /\ Hear(d)
  /\ UNCHANGED <<firestoreVars, authVars, field, lost>>

\* Mistake: Firestore is told only of the changes that the listener is told of.
PostNewOnly(d) ==
  /\ NextBlock(d, "changed")
  /\ BlockDone(d)
  /\ IF heard[d] # auth[d]
       THEN ChangeCredential(d, Head(blocks[d]).user)
       ELSE UNCHANGED <<user, delivered, observed>>
  /\ Hear(d)
  /\ UNCHANGED <<server, queue, cache, authVars, field, lost>>

\* Firestore takes the user that was posted, the listener asks Auth.
Post(d) ==
  /\ NextBlock(d, "changed")
  /\ BlockDone(d)
  /\ ChangeCredential(d, Head(blocks[d]).user)
  /\ Hear(d)
  /\ UNCHANGED <<server, queue, cache, authVars, field, lost>>

Fresh(id) ==
  /\ server[id] = NoDoc
  /\ \A d \in Device, u \in Credential : \A i \in 1..Len(queue[d][u]) :
       queue[d][u][i].path # id

\* The completion of SignUpView reads the email field, not the account it was
\* given, and saves a record of the user and a blank profile.
Register(d) ==
  LET block == Head(blocks[d])
      email == field[d][block.form]
  IN /\ NextBlock(d, "registered")
     /\ BlockDone(d)
     /\ email # NoUser
     /\ \E id \in Record :
          /\ Fresh(id)
          /\ WriteLocally(d, <<SetDoc(id, UserRecord(email)),
                              SetDoc(email, BlankDoc)>>)
     /\ lost' = IF email = block.user THEN lost ELSE lost \cup {block.user}
     /\ UNCHANGED <<server, user, delivered, observed, cache, authVars, appVars>>

-----------------------------------------------------------------------------
(* The process dies and is started again; what is on disk are the queues of  *)
(* Firestore and the current user.                                           *)

Underway(d) ==
  {u \in User : \/ \E n \in 1..MaxCalls : /\ calls[d][n] # NoCall
                                        /\ calls[d][n].made
                                        /\ calls[d][n].email = u
               \/ \E i \in 1..Len(blocks[d]) :
                    blocks[d][i].do = "registered" /\ blocks[d][i].user = u}

Die(d) ==
  /\ blocks' \in {[blocks EXCEPT ![d] = start] : start \in StartBlocks(auth[d])}
  /\ calls' = [calls EXCEPT ![d] = [n \in 1..MaxCalls |-> NoCall]]
  /\ heard' = [heard EXCEPT ![d] = NotHeard]
  /\ session' = [session EXCEPT ![d] = NoUser]
  /\ field' = [field EXCEPT ![d] = <<>>]
  /\ shown' = [shown EXCEPT ![d] = FALSE]
  /\ ChangeCredential(d, NoUser)
  /\ lost' = lost \cup Underway(d)
  /\ UNCHANGED <<server, cache, accounts, auth>>

Kill(d) == Die(d) /\ UNCHANGED queue

\* The completion with an empty field: the record of the user is saved, and
\* the path of the profile, "profiles/", stops the app.
RegisterNobody(d) ==
  /\ NextBlock(d, "registered")
  /\ field[d][Head(blocks[d]).form] = NoUser
  /\ \E id \in Record :
       Fresh(id) /\ WriteLocally(d, <<SetDoc(id, UserRecord(NoText))>>)
  /\ Die(d)

-----------------------------------------------------------------------------
Network(d) ==
  /\ Deliver(d) \/ Ack(d) \/ Reject(d)
  /\ UNCHANGED <<authVars, blocks, appVars, lost>>

StreamBreaks(d) ==
  /\ BreakStream(d)
  /\ UNCHANGED <<authVars, blocks, appVars, lost>>

UserStep(d) ==
  \/ OpenSignUp(d)
  \/ \E email \in Credential : Type(d, email)
  \/ \E n \in 1..MaxCalls : signUp(d, n) \/ \E u \in User : login(d, n, u)
  \/ signOut(d)

MainQueue(d) == listen(d) \/ Post(d) \/ Register(d) \/ RegisterNobody(d)

Service(d) == \E n \in 1..MaxCalls : AccountMade(d, n) \/ Answered(d, n)

Setback(d) == (\E n \in 1..MaxCalls : Failed(d, n)) \/ Kill(d) \/ StreamBreaks(d)

Next ==
  \E d \in Device : \/ UserStep(d) \/ MainQueue(d) \/ Service(d)
                   \/ Network(d) \/ Setback(d)

Spec == Init /\ [][Next]_vars

-----------------------------------------------------------------------------
(* Properties *)

\* Every variable has its type.
TypeOK ==
  /\ FirestoreTypeOK
  /\ accounts \subseteq User
  /\ calls \in [Device -> [1..MaxCalls -> Call \cup {NoCall}]]
  /\ auth \in [Device -> Credential]
  /\ blocks \in [Device -> Seq(Block)]
  /\ heard \in [Device -> Credential \cup {NotHeard}]
  /\ session \in [Device -> Credential]
  /\ field \in [Device -> Seq(Credential)]
  /\ shown \in [Device -> BOOLEAN]
  /\ lost \subseteq User
  /\ \A d \in Device : shown[d] => field[d] # <<>>

Idle(d) == blocks[d] = <<>>

\* When the main queue is empty, Firestore files writes under the user that
\* Auth holds, however sign-ins, sign-outs and restarts overlapped.
CredentialFollowsAuth == \A d \in Device : Idle(d) => user[d] = auth[d]

\* When the main queue is empty, the app shows the pages of the user that Auth
\* holds: "if we have a user, create a new user model" (SessionStore.listen).
SessionFollowsAuth == \A d \in Device : Idle(d) => session[d] = auth[d]

\* When the main queue is empty, the app shows no page of a user whom Auth does
\* not hold any more, although the session is set in two places, the listener
\* skips the users it saw last and requests may be answered at any time.
SessionHasItsUser == \A d \in Device : Idle(d) => session[d] \in {NoUser, auth[d]}

\* Every account has its profile, or has it under way on the device where it
\* was made: a request that will be answered, a completion in the main queue, a
\* save in the queue of that account.  No overlap of sign-ups, logins, sign-outs
\* and broken streams files the save under another credential, where it would be
\* refused or wait for somebody else.  What does lose a profile is in "lost": an
\* answer that does not arrive, a kill, an email field that is edited meanwhile.
AccountsGetTheirProfile ==
  \A a \in accounts \ lost :
    \/ server[a] # NoDoc
    \/ \E d \in Device :
         \/ a \in Underway(d)
         \/ Queued(d, a, a)
=============================================================================
