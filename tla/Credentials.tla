----------------------------- MODULE Credentials -----------------------------
(***************************************************************************)
(* How a change of the signed-in user, and the token of a user, travel     *)
(* from the Auth library to the worker queue of the Firestore client.      *)
(*                                                                         *)
(* Three threads take part.  Auth works on its own queue and changes the   *)
(* user there; everything it has to tell others it posts to the main       *)
(* queue.  There the credentials provider hears of the change and hands it *)
(* on to the worker queue; the answers to its requests for a token take    *)
(* the same way.  All the queues are first-in first-out, and between two   *)
(* of them anything else may happen.                                       *)
(***************************************************************************)
EXTENDS Naturals, Sequences

CONSTANTS
  User,       \* accounts
  NoUser,     \* nobody is signed in; also the token of nobody
  Failed      \* the answer of Auth when a token cannot be fetched

ASSUME CredentialsAssumption ==
  NoUser \notin User /\ Failed \notin User \cup {NoUser}

Credential == User \cup {NoUser}
Token == Credential \cup {Failed}

VARIABLES
  currentUser,   \* Auth's user
  mainQueue,     \* blocks that wait for the main thread
  contentsUser,  \* the user that the credentials provider knows
  tokenCounter,  \* changes it has heard of
  asked,         \* requests for a token that Auth has not looked at
  refreshing,    \* requests that wait for the token service
  workQueue      \* tasks that wait for the worker thread

authVars == <<currentUser, mainQueue, contentsUser, tokenCounter, refreshing>>
credentialVars == <<authVars, asked, workQueue>>

-----------------------------------------------------------------------------
(* What waits in the queues.  "closes" is the number of times the stream     *)
(* that wants the token had been closed when it asked.                       *)

Request(counter, closes) == [counter |-> counter, closes |-> closes]
Refresh(u, request) ==
  [user |-> u, counter |-> request.counter, closes |-> request.closes]
Changed(u) == [kind |-> "changed", user |-> u]
Answer(t, request) == [kind |-> "token", token |-> t,
                       counter |-> request.counter, closes |-> request.closes]
Resume(t, closes) == [kind |-> "resume", token |-> t, closes |-> closes]

GetToken(closes) == asked \cup {Request(tokenCounter, closes)}

-----------------------------------------------------------------------------
\* Sign-in, sign-up and sign-out: the user changes on Auth's queue, and the
\* notification of it is posted.
UpdateCurrentUser(u) ==
  /\ u # currentUser
  /\ currentUser' = u
  /\ mainQueue' = Append(mainQueue, Changed(u))
  /\ UNCHANGED <<contentsUser, tokenCounter, asked, refreshing, workQueue>>

\* Mistake: the answer does not wait its turn behind the notifications.
AnswerAtOnce(r) ==
  /\ asked' = asked \ {r}
  /\ workQueue' = Append(workQueue, Resume(currentUser, r.closes))
  /\ UNCHANGED <<currentUser, mainQueue, contentsUser, tokenCounter, refreshing>>

\* Auth answers with the token it has, or with none when nobody is signed in.
AnswerWithToken(r) ==
  /\ asked' = asked \ {r}
  /\ mainQueue' = Append(mainQueue, Answer(currentUser, r))
  /\ UNCHANGED <<currentUser, contentsUser, tokenCounter, refreshing, workQueue>>

\* The token has expired: the token service is asked for a new one.
StartRefresh(r) ==
  /\ currentUser # NoUser
  /\ asked' = asked \ {r}
  /\ refreshing' = refreshing \cup {Refresh(currentUser, r)}
  /\ UNCHANGED <<currentUser, mainQueue, contentsUser, tokenCounter, workQueue>>

\* A new token is a change too, posted before the answer, if the user it
\* belongs to is still signed in.
FinishRefresh(f) ==
  /\ refreshing' = refreshing \ {f}
  /\ mainQueue' = mainQueue
       \o (IF f.user = currentUser THEN <<Changed(f.user)>> ELSE <<>>)
       \o <<Answer(f.user, f)>>
  /\ UNCHANGED <<currentUser, contentsUser, tokenCounter, asked, workQueue>>

FailRefresh(f) ==
  /\ refreshing' = refreshing \ {f}
  /\ mainQueue' = Append(mainQueue, Answer(Failed, f))
  /\ UNCHANGED <<currentUser, contentsUser, tokenCounter, asked, workQueue>>

-----------------------------------------------------------------------------
\* Mistake: the change overtakes the writes that wait for the worker.
NoteChangeAtOnce ==
  /\ mainQueue # <<>> /\ Head(mainQueue).kind = "changed"
  /\ mainQueue' = Tail(mainQueue)
  /\ contentsUser' = Head(mainQueue).user
  /\ tokenCounter' = tokenCounter + 1
  /\ workQueue' = <<Changed(Head(mainQueue).user)>> \o workQueue
  /\ UNCHANGED <<currentUser, asked, refreshing>>

\* The provider hears of the change.
NoteChange ==
  /\ mainQueue # <<>> /\ Head(mainQueue).kind = "changed"
  /\ mainQueue' = Tail(mainQueue)
  /\ contentsUser' = Head(mainQueue).user
  /\ tokenCounter' = tokenCounter + 1
  /\ workQueue' = Append(workQueue, Changed(Head(mainQueue).user))
  /\ UNCHANGED <<currentUser, asked, refreshing>>

IsCurrent(answer) == answer.counter = tokenCounter

\* An answer to a request made before the latest change is thrown away, and
\* the request is made again; otherwise the stream may go on.
TakeAnswer ==
  /\ mainQueue # <<>> /\ Head(mainQueue).kind = "token"
  /\ mainQueue' = Tail(mainQueue)
  /\ LET answer == Head(mainQueue)
     IN IF IsCurrent(answer)
          THEN /\ workQueue' = Append(workQueue, Resume(answer.token, answer.closes))
               /\ asked' = asked
          ELSE /\ asked' = GetToken(answer.closes)
               /\ workQueue' = workQueue
  /\ UNCHANGED <<currentUser, contentsUser, tokenCounter, refreshing>>
=============================================================================
