------------------------------ MODULE Firestore ------------------------------
(***************************************************************************)
(* The Firestore database as the app uses it: the documents on the server, *)
(* and on every device the client library's mutation queues (one per       *)
(* signed-in user, kept on disk), its cache of server documents and the    *)
(* write stream that empties the queue of the current user.                *)
(*                                                                         *)
(* A document is reduced to the three parts that the app writes in         *)
(* different ways: the fields that are only ever written together by a     *)
(* whole-document save ("text"), the picture URL, which updateData also    *)
(* writes alone, and the projects array, which arrayUnion also extends.    *)
(***************************************************************************)
EXTENDS Naturals, Sequences, SequencesExt

CONSTANTS
  Device,     \* installations of the app
  User,       \* accounts, named by their email address
  NoUser,     \* the credential of a signed-out device
  Path,       \* document paths; in a collection keyed by email, the email
  Text,       \* values of the fields written only by a whole save
  NoText,     \* those fields when they are all blank
  Picture,    \* picture URLs
  NoPicture,  \* the empty URL
  Project,    \* project names
  NoDoc,      \* a document that does not exist
  MaxQueue    \* bound on the mutations waiting in one queue

Doc == [text : Text, picture : Picture, projects : SUBSET Project]

ASSUME FirestoreAssumption ==
  /\ NoUser \notin User
  /\ NoText \in Text
  /\ NoPicture \in Picture
  /\ NoDoc \notin Doc
  /\ MaxQueue \in Nat

VARIABLES
  server,     \* server[p]: the document at path p, or NoDoc
  user,       \* user[d]: the credential the client library works with
  queue,      \* queue[d][u]: mutations made on d under u, not yet acknowledged
  delivered,  \* how many mutations of the current queue the server has applied
  observed,   \* how many of those the last watch snapshot already included
  cache       \* cache[d][p]: the latest server version of p that d knows

firestoreVars == <<server, user, queue, delivered, observed, cache>>

Credential == User \cup {NoUser}
MaybeDoc == Doc \cup {NoDoc}
BlankDoc == [text |-> NoText, picture |-> NoPicture, projects |-> {}]

-----------------------------------------------------------------------------
(* Mutations.  "set" replaces the document (every save of the app writes all *)
(* fields); "picture" and "join" are updateData calls, which change one      *)
(* field of "value" and require that the document exists.                    *)

Mutation == [op : {"set", "picture", "join"}, path : Path, value : Doc]

SetDoc(path, doc) == [op |-> "set", path |-> path, value |-> doc]

UpdatePicture(path, url) ==
  [op |-> "picture", path |-> path, value |-> [BlankDoc EXCEPT !.picture = url]]

UnionProject(path, project) ==
  [op |-> "join", path |-> path,
   value |-> [BlankDoc EXCEPT !.projects = {project}]]

PreconditionHolds(m, doc) == m.op = "set" \/ doc # NoDoc

\* Mistake: the URL is written with setData, not updateData.
MergeReplacing(m, doc) ==
  CASE m.op \in {"set", "picture"} -> m.value
    [] m.op = "join" -> [doc EXCEPT !.projects = @ \cup m.value.projects]

\* Mistake: the entry is toggled, so a join that is sent again undoes itself.
MergeToggling(m, doc) ==
  CASE m.op = "set" -> m.value
    [] m.op = "picture" -> [doc EXCEPT !.picture = m.value.picture]
    [] m.op = "join" -> [doc EXCEPT !.projects =
                           (@ \ m.value.projects) \cup (m.value.projects \ @)]

Merge(m, doc) ==
  CASE m.op = "set" -> m.value
    [] m.op = "picture" -> [doc EXCEPT !.picture = m.value.picture]
    [] m.op = "join" -> [doc EXCEPT !.projects = @ \cup m.value.projects]

\* A mutation whose precondition fails leaves the document as it was.
Apply(m, doc) == IF PreconditionHolds(m, doc) THEN Merge(m, doc) ELSE doc

-----------------------------------------------------------------------------
(* What a snapshot listener on device d reports: the cached documents with   *)
(* the waiting mutations of the current user on top.                         *)

Pending(d) == queue[d][user[d]]

Overlaid(doc, path, mutations) ==
  LET Overlay(view, m) == IF m.path = path THEN Apply(m, view) ELSE view
  IN FoldLeft(Overlay, doc, mutations)

LocalView(d, path) == Overlaid(cache[d][path], path, Pending(d))

-----------------------------------------------------------------------------
(* Steps of the client library, taken by the app's actions or by the network *)

\* setData and updateData return at once: the mutations join the queue of
\* the credential in force.
WriteLocally(d, mutations) ==
  /\ Len(Pending(d)) + Len(mutations) <= MaxQueue
  /\ queue' = [queue EXCEPT ![d][user[d]] = @ \o mutations]

\* Mistake: the write stream goes on after a change of credential.
ChangeCredentialOnly(d, u) ==
  /\ user' = [user EXCEPT ![d] = u]
  /\ UNCHANGED <<delivered, observed>>

\* A change of credential swaps the queues and restarts the write stream.
ChangeCredential(d, u) ==
  /\ user' = [user EXCEPT ![d] = u]
  /\ delivered' = [delivered EXCEPT ![d] = 0]
  /\ observed' = [observed EXCEPT ![d] = 0]

\* The stream carries the queue in order and ahead of the acknowledgements;
\* the server applies the next mutation.
Deliver(d) ==
  /\ delivered[d] < Len(Pending(d))
  /\ LET m == Pending(d)[delivered[d] + 1]
     IN /\ PreconditionHolds(m, server[m.path])
        /\ server' = [server EXCEPT ![m.path] = Merge(m, @)]
  /\ delivered' = [delivered EXCEPT ![d] = @ + 1]
  /\ UNCHANGED <<user, queue, observed, cache>>

\* Mistake: an acknowledged mutation is not carried over into the cache.
AckForgetting(d) ==
  /\ delivered[d] > 0
  /\ queue' = [queue EXCEPT ![d][user[d]] = Tail(@)]
  /\ delivered' = [delivered EXCEPT ![d] = @ - 1]
  /\ observed' = [observed EXCEPT ![d] = IF @ > 0 THEN @ - 1 ELSE 0]
  /\ UNCHANGED <<server, user, cache>>

\* The acknowledgement of the oldest mutation arrives: it leaves the queue,
\* and the cached document is brought forward unless a watch snapshot that
\* already included the mutation has arrived before.
Ack(d) ==
  /\ delivered[d] > 0
  /\ LET m == Head(Pending(d))
     IN cache' = IF observed[d] > 0
                   THEN cache
                   ELSE [cache EXCEPT ![d][m.path] = Apply(m, @)]
  /\ queue' = [queue EXCEPT ![d][user[d]] = Tail(@)]
  /\ delivered' = [delivered EXCEPT ![d] = @ - 1]
  /\ observed' = [observed EXCEPT ![d] = IF @ > 0 THEN @ - 1 ELSE 0]
  /\ UNCHANGED <<server, user>>

\* Mistake: a transient error is taken for a permanent one.
RejectOnAnyError(d) ==
  /\ delivered[d] = 0
  /\ Pending(d) # <<>>
  /\ queue' = [queue EXCEPT ![d][user[d]] = Tail(@)]
  /\ UNCHANGED <<server, user, delivered, observed, cache>>

\* A permanent error closes the stream and drops the oldest mutation: an
\* update of a document the server does not have, or a write that the rules
\* refuse because nobody is signed in.
Reject(d) ==
  /\ delivered[d] = 0
  /\ Pending(d) # <<>>
  /\ LET m == Head(Pending(d))
     IN user[d] = NoUser \/ ~PreconditionHolds(m, server[m.path])
  /\ queue' = [queue EXCEPT ![d][user[d]] = Tail(@)]
  /\ UNCHANGED <<server, user, delivered, observed, cache>>

\* A transient error closes the stream: whatever was not acknowledged is
\* sent again on the next one, including what the server has applied.
BreakStream(d) ==
  /\ delivered[d] > 0
  /\ delivered' = [delivered EXCEPT ![d] = 0]
  /\ observed' = [observed EXCEPT ![d] = 0]
  /\ UNCHANGED <<server, user, queue, cache>>

\* A consistent watch snapshot of the listened collections.
Watch(d) ==
  /\ cache[d] # server \/ observed[d] # delivered[d]
  /\ cache' = [cache EXCEPT ![d] = server]
  /\ observed' = [observed EXCEPT ![d] = delivered[d]]
  /\ UNCHANGED <<server, user, queue, delivered>>

-----------------------------------------------------------------------------
\* There is a save of the document at "path" in the queue of u on d.
Queued(d, u, path) ==
  \E i \in 1..Len(queue[d][u]) :
    queue[d][u][i].op = "set" /\ queue[d][u][i].path = path

FirestoreTypeOK ==
  /\ server \in [Path -> MaybeDoc]
  /\ user \in [Device -> Credential]
  /\ queue \in [Device -> [Credential -> Seq(Mutation)]]
  /\ delivered \in [Device -> Nat]
  /\ observed \in [Device -> Nat]
  /\ cache \in [Device -> [Path -> MaybeDoc]]
  /\ \A d \in Device : delivered[d] <= Len(Pending(d))
=============================================================================
