----------------------------- MODULE WriteStream -----------------------------
(***************************************************************************)
(* The write stream of the Firestore client: how the mutations that wait   *)
(* in the queue of the current user reach the server, one stream at a      *)
(* time, and leave the queue when they are answered.                       *)
(*                                                                         *)
(* All of it runs on the client's worker thread: the tasks that the main   *)
(* thread posts (module Credentials), the events of the stream, and the    *)
(* timers.  Each is a step here, whole: a handler that closes the stream,  *)
(* refills the pipeline and starts the next stream does so at once.        *)
(***************************************************************************)
EXTENDS Credentials, SequencesExt

CONSTANTS
  Here,        \* the device
  Path, Text, NoText, Picture, NoPicture, Project, NoDoc,  \* see Firestore
  NoMutation,  \* the content of the handshake
  AppWrite,    \* the mutations that the app makes
  MaxPendingWrites,  \* length of the pipeline
  MaxWrites,   \* bound on the mutations made
  MaxMishaps   \* bound on changes of user, refreshes, restarts, lost streams

ASSUME WriteStreamAssumption ==
  /\ MaxPendingWrites \in Nat \ {0}
  /\ MaxWrites \in Nat /\ MaxMishaps \in Nat

VARIABLES
  server, cache,  \* documents on the server, and those the client knows of
  user,        \* the user whose queue the client works on
  queue,       \* queue[u]: batches made under u, not yet answered, on disk
  nextBatchId,
  pipeline,    \* batches of the current queue that were fetched for the stream
  state,       \* "initial", "starting", "open", "error" or "backoff"
  closeCount,
  handshake,   \* the server has answered the handshake
  idle,        \* the idle timer of the stream runs
  token,       \* the user as whom the open stream was authenticated
  requests,    \* what the client has written to the stream, not yet received
  responses,   \* ids of the batches answered, not yet read; 0 for the handshake
  status,      \* how the server's end of the stream is: "ok", or its error
  written,     \* number of mutations the app has made
  mishaps      \* number of changes of user, refreshes, restarts, lost streams

documents == <<server, cache>>
local == <<user, queue, nextBatchId>>
stream == <<pipeline, state, closeCount, handshake, idle, token,
            requests, responses, status>>
counters == <<written, mishaps>>
vars == <<credentialVars, documents, local, stream, counters>>

\* The queue and the server as the module Firestore has them.
Mutations(batches) == [i \in 1..Len(batches) |-> batches[i].mutation]
Delivered == Cardinality({i \in 1..Len(responses) : responses[i] # 0})

Store == INSTANCE Firestore WITH
  Device <- {Here},
  MaxQueue <- MaxWrites,
  user <- [d \in {Here} |-> user],
  queue <- [d \in {Here} |-> [u \in Credential |-> Mutations(queue[u])]],
  delivered <- [d \in {Here} |-> Delivered],
  observed <- [d \in {Here} |-> 0],
  cache <- [d \in {Here} |-> cache]

Batch == [id : Nat, mutation : AppWrite, author : Credential]
Handshake == [id |-> 0, mutation |-> NoMutation, author |-> NoUser]

-----------------------------------------------------------------------------
(* Parts of the handlers.  "s" is the state of the stream, "p" the pipeline  *)
(* and "q" the current queue as the handler has left them so far.            *)

Without(q, batch) ==
  LET at == {i \in 1..Len(q) : q[i].id = batch.id}
  IN IF at = {} THEN q ELSE RemoveAt(q, CHOOSE i \in at : TRUE)

IsStarted(s) == s \in {"starting", "open", "backoff"}

\* Mistake: the search for the next batch begins at the first one again.
RefillFromFirst(p, q) ==
  LET room == MaxPendingWrites - Len(p)
  IN p \o SubSeq(q, 1, IF Len(q) < room THEN Len(q) ELSE room)

\* The pipeline takes the batches that follow its last one while it has room.
Refill(p, q) ==
  LET next == {i \in 1..Len(q) : p = <<>> \/ q[i].id > Last(p).id}
      end == Min(next) + MaxPendingWrites - Len(p) - 1
  IN IF next = {} THEN p
     ELSE p \o SubSeq(q, Min(next), IF Len(q) < end THEN Len(q) ELSE end)

\* Mistake: after an error the stream waits for the next write.
StartUnlessError(s, p, closes) ==
  IF p = <<>> \/ s # "initial"
    THEN state' = s /\ asked' = asked
    ELSE state' = "starting" /\ asked' = GetToken(closes)

\* A stream that has work and is not started is started, after an error only
\* when the delay is over.
StartIfNeeded(s, p, closes) ==
  IF p = <<>> \/ IsStarted(s)
    THEN state' = s /\ asked' = asked
    ELSE IF s = "error"
      THEN state' = "backoff" /\ asked' = asked
      ELSE state' = "starting" /\ asked' = GetToken(closes)

\* Mistake: a write leaves the idle timer running.
IdleAfterFillForgetful(s, p, sent) ==
  s = "open" /\ (p = <<>> \/ idle)

\* The idle timer starts when the pipeline runs dry, and a write stops it.
IdleAfterFill(s, p, sent) ==
  s = "open" /\ (p = <<>> \/ (idle /\ sent = <<>>))

FillWritePipeline(s, p, q, closes) ==
  LET sent == IF s = "open" /\ handshake
                THEN SubSeq(Refill(p, q), Len(p) + 1, Len(Refill(p, q)))
                ELSE <<>>
  IN /\ pipeline' = Refill(p, q)
     /\ requests' = requests \o sent
     /\ idle' = IdleAfterFill(s, Refill(p, q), sent)
     /\ StartIfNeeded(s, Refill(p, q), closes)

\* Mistake: answers that were not read are kept for the next stream.
DropStreamOnly ==
  /\ handshake' = FALSE
  /\ idle' = FALSE
  /\ token' = NoUser
  /\ requests' = <<>>
  /\ responses' = responses
  /\ status' = "ok"

\* What a stream that is closed leaves behind, on both ends.
DropStream ==
  /\ handshake' = FALSE
  /\ idle' = FALSE
  /\ token' = NoUser
  /\ requests' = <<>>
  /\ responses' = <<>>
  /\ status' = "ok"

\* Mistake: closing a stream that is not open yet does not count.
ClosesIfOpen == IF state = "open" THEN closeCount + 1 ELSE closeCount

ClosesOfStop == IF IsStarted(state) THEN closeCount + 1 ELSE closeCount

\* Both ends are dropped, and a stream is started anew if there is work for u.
RestartNetwork(u) ==
  /\ DropStream
  /\ closeCount' = ClosesOfStop
  /\ pipeline' = Refill(<<>>, queue[u])
  /\ StartIfNeeded("initial", Refill(<<>>, queue[u]), ClosesOfStop)

\* The stream is closed with an error; s and p are the state and the pipeline
\* that the handler of the error leaves.
CloseWithError(s, p) ==
  /\ DropStream
  /\ closeCount' = closeCount + 1
  /\ pipeline' = p
  /\ StartIfNeeded(s, p, closeCount + 1)

-----------------------------------------------------------------------------
(* Steps of the main thread and of Auth. *)

\* setData and updateData return at once; the worker gets the mutation.
WriteDocument(m) ==
  /\ written < MaxWrites
  /\ written' = written + 1
  /\ workQueue' = Append(workQueue,
                    [kind |-> "write", mutation |-> m, author |-> contentsUser])
  /\ UNCHANGED <<authVars, asked, documents, local, stream, mishaps>>

Mishap == mishaps < MaxMishaps /\ mishaps' = mishaps + 1

AuthStep ==
  /\ \/ (\E u \in Credential : UpdateCurrentUser(u)) /\ Mishap
     \/ (\E r \in asked : StartRefresh(r)) /\ Mishap
     \/ (\E r \in asked : AnswerWithToken(r)) /\ UNCHANGED mishaps
     \/ (\E f \in refreshing : FinishRefresh(f) \/ FailRefresh(f)) /\ UNCHANGED mishaps
  /\ UNCHANGED <<documents, local, stream, written>>

MainStep ==
  /\ NoteChange \/ TakeAnswer
  /\ UNCHANGED <<documents, local, stream, counters>>

-----------------------------------------------------------------------------
(* Tasks of the worker queue. *)

TakeTask(kind) ==
  /\ workQueue # <<>> /\ Head(workQueue).kind = kind
  /\ workQueue' = Tail(workQueue)
  /\ UNCHANGED authVars

WriteMutations ==
  /\ TakeTask("write")
  /\ LET batch == [id |-> nextBatchId, mutation |-> Head(workQueue).mutation,
                   author |-> Head(workQueue).author]
     IN queue' = [queue EXCEPT ![user] = Append(@, batch)]
  /\ nextBatchId' = nextBatchId + 1
  /\ FillWritePipeline(state, pipeline, queue'[user], closeCount)
  /\ UNCHANGED <<documents, user, closeCount, handshake, token, responses,
                 status, counters>>

\* The numbering of the batches goes on after those that are on disk.
FirstFreeId ==
  LET ids == UNION {{queue[u][i].id : i \in 1..Len(queue[u])} : u \in Credential}
  IN 1 + Max(ids \cup {0})

HandleCredentialChange ==
  /\ TakeTask("changed")
  /\ LET u == Head(workQueue).user
     IN /\ user' = u
        /\ nextBatchId' = IF u = user THEN nextBatchId ELSE FirstFreeId
        /\ RestartNetwork(u)
  /\ UNCHANGED <<documents, queue, counters>>

IsLive(task) == task.closes = closeCount

\* The stream that asked for the token was closed since.
IgnoreToken ==
  /\ TakeTask("resume")
  /\ ~IsLive(Head(workQueue))
  /\ UNCHANGED <<asked, documents, local, stream, counters>>

\* Mistake: the outcome of the request for a token is not looked at.
ResumeWithAnything ==
  /\ TakeTask("resume")
  /\ IsLive(Head(workQueue))
  /\ state' = "open"
  /\ token' = Head(workQueue).token
  /\ requests' = <<Handshake>>
  /\ UNCHANGED <<asked, documents, local, pipeline, closeCount, handshake, idle,
                 responses, status, counters>>

\* The stream opens, without waiting for the server, and sends its handshake.
ResumeStartWithCredentials ==
  /\ TakeTask("resume")
  /\ IsLive(Head(workQueue))
  /\ Head(workQueue).token # Failed
  /\ state' = "open"
  /\ token' = Head(workQueue).token
  /\ requests' = <<Handshake>>
  /\ UNCHANGED <<asked, documents, local, pipeline, closeCount, handshake, idle,
                 responses, status, counters>>

FailToStart ==
  /\ TakeTask("resume")
  /\ IsLive(Head(workQueue))
  /\ Head(workQueue).token = Failed
  /\ CloseWithError("error", pipeline)
  /\ UNCHANGED <<documents, local, counters>>

-----------------------------------------------------------------------------
(* Timers, and the network monitor. *)

BackoffElapses ==
  /\ state = "backoff"
  /\ StartIfNeeded("initial", pipeline, closeCount)
  /\ UNCHANGED <<authVars, workQueue, documents, local, pipeline, closeCount,
                 handshake, idle, token, requests, responses, status, counters>>

\* A graceful stop: nothing is to be sent.
IdleTimeout ==
  /\ idle
  /\ DropStream
  /\ closeCount' = closeCount + 1
  /\ state' = "initial"
  /\ UNCHANGED <<authVars, asked, workQueue, documents, local, pipeline, counters>>

ConnectivityChange ==
  /\ Mishap
  /\ RestartNetwork(user)
  /\ UNCHANGED <<authVars, workQueue, documents, local, written>>

-----------------------------------------------------------------------------
(* Events of the stream. *)

\* The handshake is answered: the whole pipeline is sent.
OnWriteStreamHandshakeComplete ==
  /\ responses # <<>> /\ ~handshake
  /\ handshake' = TRUE
  /\ requests' = requests \o pipeline
  /\ idle' = (idle /\ pipeline = <<>>)
  /\ responses' = Tail(responses)
  /\ UNCHANGED <<authVars, asked, workQueue, documents, local, pipeline, state,
                 closeCount, token, status, counters>>

\* The first batch of the pipeline has been written: it leaves the queue, and
\* its effect on the document is noted.
OnWriteStreamMutationResult ==
  /\ responses # <<>> /\ handshake
  /\ LET m == Head(pipeline).mutation
     IN cache' = [cache EXCEPT ![m.path] = Store!Apply(m, @)]
  /\ queue' = [queue EXCEPT ![user] = Without(@, Head(pipeline))]
  /\ FillWritePipeline(state, Tail(pipeline), queue'[user], closeCount)
  /\ responses' = Tail(responses)
  /\ UNCHANGED <<authVars, workQueue, server, user, nextBatchId, closeCount,
                 handshake, token, status, counters>>

\* Mistake: every error that follows the handshake counts as permanent.
IsWriteError == status # "ok" /\ handshake

IsPermanentWriteError == status = "permanent" /\ handshake

\* A permanent error is the first batch's: it is dropped, and the rest goes to
\* a new stream at once.
HandleWriteError ==
  /\ IsPermanentWriteError /\ responses = <<>> /\ pipeline # <<>>
  /\ queue' = [queue EXCEPT ![user] = Without(@, Head(pipeline))]
  /\ CloseWithError("initial", Refill(Tail(pipeline), queue'[user]))
  /\ UNCHANGED <<authVars, workQueue, documents, user, nextBatchId, counters>>

\* Any other error: everything is sent again, after a delay.
OnWriteStreamClose ==
  /\ status # "ok" /\ responses = <<>>
  /\ ~IsPermanentWriteError \/ pipeline = <<>>
  /\ CloseWithError("error", pipeline)
  /\ UNCHANGED <<authVars, workQueue, documents, local, counters>>

-----------------------------------------------------------------------------
(* The server and the network. *)

Receive ==
  /\ requests # <<>> /\ status = "ok"
  /\ requests' = Tail(requests)
  /\ UNCHANGED <<credentialVars, cache, local, pipeline, state, closeCount,
                 handshake, idle, token, counters>>

AnswerHandshake ==
  /\ Receive
  /\ Head(requests) = Handshake
  /\ responses' = Append(responses, 0)
  /\ UNCHANGED <<server, status>>

Allowed(batch) ==
  token # NoUser
    /\ Store!PreconditionHolds(batch.mutation, server[batch.mutation.path])

ApplyWrite ==
  /\ Receive
  /\ Head(requests) # Handshake /\ Allowed(Head(requests))
  /\ LET m == Head(requests).mutation
     IN server' = [server EXCEPT ![m.path] = Store!Merge(m, @)]
  /\ responses' = Append(responses, Head(requests).id)
  /\ UNCHANGED status

\* The rules, or the precondition, refuse the write: the stream ends.
RefuseWrite ==
  /\ Receive
  /\ Head(requests) # Handshake /\ ~Allowed(Head(requests))
  /\ status' = "permanent"
  /\ UNCHANGED <<server, responses>>

\* The connection is lost with everything on its way in either direction.
LoseConnection ==
  /\ Mishap
  /\ state = "open" /\ status = "ok"
  /\ status' = "transient"
  /\ requests' = <<>> /\ responses' = <<>>
  /\ UNCHANGED <<credentialVars, documents, local, pipeline, state, closeCount,
                 handshake, idle, token, written>>

\* The process ends and the app is started again: the queues of mutations are
\* on disk, everything that waited for a thread is gone.
RestartApp ==
  /\ Mishap
  /\ mainQueue' = <<>> /\ workQueue' = <<>> /\ refreshing' = {}
  /\ contentsUser' = currentUser /\ user' = currentUser
  /\ tokenCounter' = 0 /\ closeCount' = 0
  /\ nextBatchId' = FirstFreeId
  /\ DropStream
  /\ pipeline' = Refill(<<>>, queue[currentUser])
  /\ IF pipeline' = <<>> THEN state' = "initial" /\ asked' = {}
     ELSE state' = "starting" /\ asked' = {Request(0, 0)}
  /\ UNCHANGED <<currentUser, documents, queue, written>>

-----------------------------------------------------------------------------
Init ==
  /\ currentUser \in Credential
  /\ contentsUser = currentUser /\ user = currentUser
  /\ mainQueue = <<>> /\ workQueue = <<>>
  /\ tokenCounter = 0 /\ asked = {} /\ refreshing = {}
  /\ server = [p \in Path |-> NoDoc] /\ cache = server
  /\ queue = [u \in Credential |-> <<>>] /\ nextBatchId = 1
  /\ pipeline = <<>> /\ state = "initial" /\ closeCount = 0
  /\ handshake = FALSE /\ idle = FALSE /\ token = NoUser
  /\ requests = <<>> /\ responses = <<>> /\ status = "ok"
  /\ written = 0 /\ mishaps = 0

WorkerStep ==
  \/ WriteMutations \/ HandleCredentialChange
  \/ IgnoreToken \/ ResumeStartWithCredentials \/ FailToStart
  \/ BackoffElapses
  \/ OnWriteStreamHandshakeComplete \/ OnWriteStreamMutationResult
  \/ HandleWriteError \/ OnWriteStreamClose

ServerStep == AnswerHandshake \/ ApplyWrite \/ RefuseWrite

Next ==
  \/ \E m \in AppWrite : WriteDocument(m)
  \/ AuthStep \/ MainStep \/ WorkerStep \/ ServerStep
  \/ IdleTimeout \/ ConnectivityChange \/ LoseConnection \/ RestartApp

\* Every thread goes on with what waits for it, Auth and the server answer,
\* and a delay ends.  Nobody has to write, nothing has to fail.
Fairness ==
  /\ WF_vars(WorkerStep) /\ WF_vars(MainStep) /\ WF_vars(ServerStep)
  /\ WF_vars((\E r \in asked : AnswerWithToken(r))
             /\ UNCHANGED <<documents, local, stream, counters>>)
  /\ WF_vars((\E f \in refreshing : FinishRefresh(f) \/ FailRefresh(f))
             /\ UNCHANGED <<documents, local, stream, counters>>)

Spec == Init /\ [][Next]_vars
FairSpec == Spec /\ Fairness

-----------------------------------------------------------------------------
(* What the stream promises. *)

Task == [kind : {"changed"}, user : Credential]
  \cup [kind : {"resume"}, token : Token, closes : Nat]
  \cup [kind : {"write"}, mutation : AppWrite, author : Credential]

TypeOK ==
  /\ currentUser \in Credential /\ contentsUser \in Credential /\ user \in Credential
  /\ mainQueue \in Seq([kind : {"changed"}, user : Credential]
       \cup [kind : {"token"}, token : Token, counter : Nat, closes : Nat])
  /\ workQueue \in Seq(Task)
  /\ tokenCounter \in Nat /\ closeCount \in Nat /\ nextBatchId \in Nat
  /\ asked \subseteq [counter : Nat, closes : Nat]
  /\ refreshing \subseteq [user : User, counter : Nat, closes : Nat]
  /\ queue \in [Credential -> Seq(Batch)] /\ pipeline \in Seq(Batch)
  /\ state \in {"initial", "starting", "open", "error", "backoff"}
  /\ handshake \in BOOLEAN /\ idle \in BOOLEAN
  /\ token \in Credential
  /\ requests \in Seq(Batch \cup {Handshake}) /\ responses \in Seq(Nat)
  /\ status \in {"ok", "transient", "permanent"}

\* The mutations of a user are never sent under the token of another, nor of
\* nobody: on an open stream the token is that of the queue's owner.
TokenOfQueuesOwner == state = "open" => token = user

\* "State should still be 'Starting'": a token that comes back for the present
\* stream finds it waiting for the token.
ResumeFindsStarting ==
  \A i \in 1..Len(workQueue) :
    workQueue[i].kind = "resume" /\ IsLive(workQueue[i]) => state = "starting"

\* "Write stream was stopped gracefully while still needed": while the idle
\* timer runs nothing is in the pipeline, and the queue is empty.
IdleMeansDone == idle => state = "open" /\ queue[user] = <<>>

\* The client's assertions that a token finds its stream waiting and that a
\* stream in use is not stopped as idle.
StreamAssertions == ResumeFindsStarting /\ IdleMeansDone

\* No batch is overtaken, left out or fetched twice: the pipeline holds the
\* head of the queue, as much of it as there is room for.
PipelineIsHead ==
  LET q == queue[user]
  IN pipeline = SubSeq(q, 1, IF Len(q) < MaxPendingWrites
                               THEN Len(q) ELSE MaxPendingWrites)

\* "Got result for empty write pipeline", "correlated to the first write": what
\* is answered, refused or on its way is the pipeline, batch by batch, so that
\* each answer is taken for the batch it belongs to.
AnswersFitPipeline ==
  LET sent == [i \in 1..Len(requests) |-> requests[i].id]
      ids == [i \in 1..Len(pipeline) |-> pipeline[i].id]
      refused == IF status = "permanent" THEN 1 ELSE 0
  IN IF handshake
       THEN /\ IsPrefix(responses, ids) /\ IsSuffix(sent, ids)
            /\ status # "transient" =>
                 Len(responses) + refused + Len(sent) = Len(ids)
       ELSE responses \in {<<>>, <<0>>} /\ status # "permanent"

\* A mutation waits in the queue of the user under whom the app made it, even
\* when the user changes before the worker gets to it.
QueuedUnderAuthor ==
  \A u \in Credential : \A i \in 1..Len(queue[u]) : queue[u][i].author = u

\* The client is the one of module Firestore: every step is one of its steps
\* or changes nothing of what that module speaks about.
StoreVars == Store!firestoreVars
ImplementsStore ==
  [][\/ Store!Deliver(Here) \/ Store!Ack(Here) \/ Store!Reject(Here)
     \/ Store!BreakStream(Here)
     \/ \E m \in AppWrite : /\ Store!WriteLocally(Here, <<m>>)
                            /\ UNCHANGED <<server, user, Delivered, cache>>
     \/ \E u \in Credential : /\ Store!ChangeCredential(Here, u)
                              /\ UNCHANGED <<server, queue, cache>>]_StoreVars

\* The queue of the current user does not stay filled for ever.
QueueDrains == queue[user] # <<>> ~> queue[user] = <<>>
=============================================================================
