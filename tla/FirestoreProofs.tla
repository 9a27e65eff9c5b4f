--------------------------- MODULE FirestoreProofs ---------------------------
(* What the steps of Firestore preserve, whichever module takes them.           *)
EXTENDS Firestore, InductionLemmas, SequenceTheorems

-----------------------------------------------------------------------------
(* Mutations and queues *)

\* Applying a mutation whose precondition holds to a document, or to none,
\* gives a document.
LEMMA MergeType ==
  ASSUME NEW m \in Mutation, NEW doc \in MaybeDoc, PreconditionHolds(m, doc)
  PROVE  Merge(m, doc) \in Doc
<1>1. CASE m.op = "set"
  BY <1>1 DEF Merge, Mutation
<1>2. CASE m.op = "picture"
  <2>1. doc \in Doc
    BY <1>2 DEF PreconditionHolds, MaybeDoc
  <2>2. QED
    BY <1>2, <2>1 DEF Merge, Mutation, Doc
<1>3. CASE m.op = "join"
  <2>1. doc \in Doc
    BY <1>3 DEF PreconditionHolds, MaybeDoc
  <2>2. QED
    BY <1>3, <2>1 DEF Merge, Mutation, Doc
<1>4. QED
  BY <1>1, <1>2, <1>3 DEF Mutation

LEMMA ApplyType ==
  ASSUME NEW m \in Mutation, NEW doc \in MaybeDoc
  PROVE  Apply(m, doc) \in MaybeDoc
BY MergeType DEF Apply, MaybeDoc

LEMMA BlankDocType == BlankDoc \in Doc
BY FirestoreAssumption DEF BlankDoc, Doc

\* The mutations that the app's actions build are mutations.
LEMMA MutationTypes ==
  /\ \A p \in Path, doc \in Doc : SetDoc(p, doc) \in Mutation
  /\ \A p \in Path, url \in Picture : UpdatePicture(p, url) \in Mutation
  /\ \A p \in Path, project \in Project : UnionProject(p, project) \in Mutation
BY BlankDocType
   DEF SetDoc, UpdatePicture, UnionProject, Mutation, Doc, BlankDoc

\* A write appends to the queue of the credential in force.
LEMMA WriteLocallyQueue ==
  ASSUME FirestoreTypeOK, NEW d \in Device, NEW ms \in Seq(Mutation),
         WriteLocally(d, ms)
  PROVE  /\ queue' \in [Device -> [Credential -> Seq(Mutation)]]
         /\ user[d] \in Credential
         /\ queue'[d][user[d]] = Pending(d) \o ms
         /\ \A c \in Device, u \in Credential :
              c # d \/ u # user[d] => queue'[c][u] = queue[c][u]
<1>1. user[d] \in Credential
  BY DEF FirestoreTypeOK
<1>2. Pending(d) \in Seq(Mutation)
  BY <1>1 DEF FirestoreTypeOK, Pending
<1>3. Pending(d) \o ms \in Seq(Mutation)
  BY <1>2
<1>4. queue' = [queue EXCEPT ![d][user[d]] = Pending(d) \o ms]
  BY DEF WriteLocally, Pending
<1>5. QED
  BY <1>1, <1>3, <1>4 DEF FirestoreTypeOK

\* Such a write keeps Firestore's part of the type invariant.
LEMMA WriteLocallyType ==
  ASSUME FirestoreTypeOK, NEW d \in Device, NEW ms \in Seq(Mutation),
         WriteLocally(d, ms), UNCHANGED <<server, user, delivered, observed,
                                          cache>>
  PROVE  FirestoreTypeOK'
<1>1. /\ queue' \in [Device -> [Credential -> Seq(Mutation)]]
      /\ user[d] \in Credential
      /\ queue'[d][user[d]] = Pending(d) \o ms
      /\ \A c \in Device, u \in Credential :
           c # d \/ u # user[d] => queue'[c][u] = queue[c][u]
  BY WriteLocallyQueue
<1>2. ASSUME NEW c \in Device
      PROVE  delivered'[c] <= Len(Pending(c)')
  <2>1. user[c] \in Credential /\ Pending(c) \in Seq(Mutation)
        /\ delivered[c] \in Nat /\ delivered[c] <= Len(Pending(c))
    BY DEF FirestoreTypeOK, Pending
  <2>2. CASE c = d
    <3>1. Pending(c)' = Pending(c) \o ms
      BY <1>1, <2>2 DEF Pending
    <3>2. Len(Pending(c) \o ms) = Len(Pending(c)) + Len(ms)
      BY <2>1
    <3>3. QED
      BY <2>1, <3>1, <3>2
  <2>3. CASE c # d
    BY <1>1, <2>1, <2>3 DEF Pending
  <2>4. QED
    BY <2>2, <2>3
<1>3. QED
  BY <1>1, <1>2 DEF FirestoreTypeOK

-----------------------------------------------------------------------------
(* Steps of the Firestore client keep its part of the type invariant.         *)

LEMMA PendingType ==
  ASSUME FirestoreTypeOK, NEW d \in Device
  PROVE  /\ user[d] \in Credential
         /\ Pending(d) = queue[d][user[d]]
         /\ Pending(d) \in Seq(Mutation)
         /\ delivered[d] \in Nat
         /\ delivered[d] <= Len(Pending(d))
BY DEF FirestoreTypeOK, Pending

LEMMA DeliverType ==
  ASSUME FirestoreTypeOK, NEW d \in Device, Deliver(d)
  PROVE  FirestoreTypeOK'
<1> DEFINE m == Pending(d)[delivered[d] + 1]
<1>1. m \in Mutation
  BY PendingType DEF Deliver
<1>2. m.path \in Path /\ server[m.path] \in MaybeDoc
  BY <1>1 DEF Mutation, FirestoreTypeOK
<1>3. Merge(m, server[m.path]) \in MaybeDoc
  BY <1>1, <1>2, MergeType DEF Deliver, MaybeDoc
<1>4. server' \in [Path -> MaybeDoc]
  BY <1>2, <1>3 DEF Deliver, FirestoreTypeOK
<1>5. ASSUME NEW c \in Device
      PROVE  delivered'[c] <= Len(Pending(c)')
  <2>1. /\ user' = user /\ queue' = queue
        /\ delivered' = [delivered EXCEPT ![d] = @ + 1]
        /\ delivered[d] < Len(Pending(d))
    BY DEF Deliver
  <2>2. Pending(c)' = Pending(c)
    BY <2>1 DEF Pending
  <2>3. /\ delivered \in [Device -> Nat] /\ delivered[c] <= Len(Pending(c))
        /\ Pending(d) \in Seq(Mutation)
    BY PendingType DEF FirestoreTypeOK
  <2>4. QED
    BY <2>1, <2>2, <2>3
<1>6. QED
  BY <1>4, <1>5 DEF Deliver, FirestoreTypeOK

\* The queue of the current user loses its head.
LEMMA PopType ==
  ASSUME FirestoreTypeOK, NEW d \in Device, Pending(d) # <<>>,
         queue' = [queue EXCEPT ![d][user[d]] = Tail(Pending(d))],
         user' = user
  PROVE  /\ queue' \in [Device -> [Credential -> Seq(Mutation)]]
         /\ Len(Pending(d)') = Len(Pending(d)) - 1
         /\ \A c \in Device : c # d => Pending(c)' = Pending(c)
<1>1. Pending(d) \in Seq(Mutation) /\ user[d] \in Credential
  BY PendingType
<1>2. Tail(Pending(d)) \in Seq(Mutation) /\ Len(Tail(Pending(d))) = Len(Pending(d)) - 1
  BY <1>1
<1>3. Pending(d)' = Tail(Pending(d))
  BY <1>1 DEF Pending, FirestoreTypeOK
<1>4. \A c \in Device : c # d => Pending(c)' = Pending(c)
  BY DEF Pending, FirestoreTypeOK
<1>5. QED
  BY <1>1, <1>2, <1>3, <1>4 DEF FirestoreTypeOK

LEMMA AckType ==
  ASSUME FirestoreTypeOK, NEW d \in Device, Ack(d)
  PROVE  FirestoreTypeOK'
<1> DEFINE m == Head(Pending(d))
<1>1. Pending(d) # <<>> /\ m \in Mutation
  BY PendingType DEF Ack
<1>2. queue' = [queue EXCEPT ![d][user[d]] = Tail(Pending(d))] /\ user' = user
  BY DEF Ack, Pending
<1>3. /\ queue' \in [Device -> [Credential -> Seq(Mutation)]]
      /\ Len(Pending(d)') = Len(Pending(d)) - 1
      /\ \A c \in Device : c # d => Pending(c)' = Pending(c)
  BY <1>1, <1>2, PopType
<1>4. cache' \in [Device -> [Path -> MaybeDoc]]
  <2>1. m.path \in Path /\ cache[d][m.path] \in MaybeDoc
    BY <1>1 DEF Mutation, FirestoreTypeOK
  <2>2. Apply(m, cache[d][m.path]) \in MaybeDoc
    BY <1>1, <2>1, ApplyType
  <2>3. QED
    BY <2>1, <2>2 DEF Ack, FirestoreTypeOK
<1>5. ASSUME NEW c \in Device
      PROVE  delivered'[c] \in Nat /\ delivered'[c] <= Len(Pending(c)')
  <2>1. Len(Pending(c)) \in Nat /\ delivered[c] \in Nat
        /\ delivered[c] <= Len(Pending(c))
    BY PendingType
  <2>2. CASE c = d
    BY <1>3, <2>1, <2>2 DEF Ack, FirestoreTypeOK
  <2>3. CASE c # d
    BY <1>3, <2>1, <2>3 DEF Ack, FirestoreTypeOK
  <2>4. QED
    BY <2>2, <2>3
<1>6. delivered' \in [Device -> Nat] /\ observed' \in [Device -> Nat]
  BY DEF Ack, FirestoreTypeOK
<1>7. QED
  BY <1>3, <1>4, <1>5, <1>6 DEF Ack, FirestoreTypeOK

LEMMA RejectType ==
  ASSUME FirestoreTypeOK, NEW d \in Device, Reject(d)
  PROVE  FirestoreTypeOK'
<1>1. queue' = [queue EXCEPT ![d][user[d]] = Tail(Pending(d))] /\ user' = user
  BY DEF Reject, Pending
<1>2. /\ queue' \in [Device -> [Credential -> Seq(Mutation)]]
      /\ Len(Pending(d)') = Len(Pending(d)) - 1
      /\ \A c \in Device : c # d => Pending(c)' = Pending(c)
  BY <1>1, PopType DEF Reject
<1>3. ASSUME NEW c \in Device
      PROVE  delivered'[c] <= Len(Pending(c)')
  <2>1. CASE c = d
    <3>1. delivered'[c] = 0 /\ Len(Pending(c)) \in Nat /\ Len(Pending(c)) # 0
      BY <2>1, PendingType DEF Reject
    <3>2. QED
      BY <1>2, <2>1, <3>1
  <2>2. CASE c # d
    BY <1>2, <2>2, PendingType DEF Reject
  <2>3. QED
    BY <2>1, <2>2
<1>4. QED
  BY <1>2, <1>3 DEF Reject, FirestoreTypeOK

LEMMA WatchType ==
  ASSUME FirestoreTypeOK, NEW d \in Device, Watch(d)
  PROVE  FirestoreTypeOK'
BY PendingType DEF Watch, FirestoreTypeOK, Pending

\* Closing the stream, by an error or with the process, forgets what was sent.
LEMMA StreamClosedType ==
  ASSUME FirestoreTypeOK, NEW d \in Device,
         delivered' = [delivered EXCEPT ![d] = 0],
         observed' = [observed EXCEPT ![d] = 0],
         UNCHANGED <<server, user, queue, cache>>
  PROVE  FirestoreTypeOK'
<1>1. ASSUME NEW c \in Device
      PROVE  delivered'[c] <= Len(Pending(c)')
  <2>1. /\ Len(Pending(c)) \in Nat /\ Pending(c)' = Pending(c)
        /\ delivered[c] <= Len(Pending(c))
    BY PendingType DEF Pending
  <2>2. QED
    BY <2>1 DEF FirestoreTypeOK
<1>2. QED
  BY <1>1 DEF FirestoreTypeOK

LEMMA ChangeCredentialType ==
  ASSUME FirestoreTypeOK, NEW d \in Device, NEW u \in Credential,
         ChangeCredential(d, u), UNCHANGED <<server, cache>>,
         queue' \in [Device -> [Credential -> Seq(Mutation)]],
         \A c \in Device : c # d => queue'[c] = queue[c]
  PROVE  FirestoreTypeOK'
<1>1. user' \in [Device -> Credential]
  BY DEF ChangeCredential, FirestoreTypeOK
<1>2. ASSUME NEW c \in Device
      PROVE  delivered'[c] <= Len(Pending(c)')
  <2>1. CASE c = d
    <3>1. Pending(c)' \in Seq(Mutation)
      BY <1>1 DEF Pending
    <3>2. QED
      BY <2>1, <3>1 DEF ChangeCredential, FirestoreTypeOK
  <2>2. CASE c # d
    BY <2>2, PendingType DEF ChangeCredential, FirestoreTypeOK, Pending
  <2>3. QED
    BY <2>1, <2>2
<1>3. QED
  BY <1>1, <1>2 DEF ChangeCredential, FirestoreTypeOK

-----------------------------------------------------------------------------
(* Durability: a save that was queued under an account stays queued until the *)
(* server has the document.                                                   *)

\* The server has the document of every save that was delivered.
SentIsThere ==
  \A d \in Device : \A i \in 1..delivered[d] :
    Pending(d)[i].op = "set" => server[Pending(d)[i].path] # NoDoc

LEMMA DeliverKeepsDocs ==
  ASSUME FirestoreTypeOK, NEW d \in Device, Deliver(d),
         NEW path \in Path, server[path] # NoDoc
  PROVE  server'[path] # NoDoc
<1> DEFINE m == Pending(d)[delivered[d] + 1]
<1>1. m \in Mutation
  BY PendingType DEF Deliver
<1>2. m.path \in Path /\ server[m.path] \in MaybeDoc
  BY <1>1 DEF Mutation, FirestoreTypeOK
<1>3. Merge(m, server[m.path]) # NoDoc
  BY <1>1, <1>2, MergeType, FirestoreAssumption DEF Deliver
<1>4. server' = [server EXCEPT ![m.path] = Merge(m, server[m.path])]
  BY DEF Deliver
<1>5. QED
  BY <1>2, <1>3, <1>4 DEF FirestoreTypeOK

LEMMA DeliverSends ==
  ASSUME FirestoreTypeOK, SentIsThere, NEW d \in Device, Deliver(d)
  PROVE  SentIsThere'
<1> DEFINE m == Pending(d)[delivered[d] + 1]
<1>0. m \in Mutation
  BY PendingType DEF Deliver
<1>1. m \in Mutation /\ m.path \in Path
  BY <1>0 DEF Mutation
<1>2. server[m.path] \in MaybeDoc /\ Merge(m, server[m.path]) # NoDoc
  BY <1>1, MergeType, FirestoreAssumption DEF Deliver, FirestoreTypeOK
<1>3. server'[m.path] # NoDoc
  BY <1>1, <1>2 DEF Deliver, FirestoreTypeOK
<1>4. ASSUME NEW c \in Device, NEW i \in 1..delivered'[c],
             Pending(c)'[i].op = "set"
      PROVE  server'[Pending(c)'[i].path] # NoDoc
  <2>1. /\ Pending(c)' = Pending(c) /\ Pending(c) \in Seq(Mutation)
        /\ delivered[c] \in Nat /\ delivered[c] <= Len(Pending(c))
    BY PendingType DEF Deliver, Pending
  <2>2. CASE i \in 1..delivered[c]
    <3>1. server[Pending(c)[i].path] # NoDoc
      BY <1>4, <2>1, <2>2 DEF SentIsThere
    <3>2. Pending(c)[i] \in Mutation
      BY <2>1, <2>2
    <3>3. QED
      BY <2>1, <3>1, <3>2, DeliverKeepsDocs DEF Mutation
  <2>3. CASE i \notin 1..delivered[c]
    <3>1. c = d /\ i = delivered[d] + 1
      BY <2>1, <2>3 DEF Deliver, FirestoreTypeOK
    <3>2. QED
      BY <1>3, <2>1, <3>1
  <2>4. QED
    BY <2>2, <2>3
<1>5. QED
  BY <1>4 DEF SentIsThere

\* Where the queue of the current user loses its head, what was sent moves up.
LEMMA AckSends ==
  ASSUME FirestoreTypeOK, SentIsThere, NEW d \in Device, Ack(d)
  PROVE  SentIsThere'
<1>1. Pending(d) # <<>> /\ user' = user
      /\ queue' = [queue EXCEPT ![d][user[d]] = Tail(Pending(d))]
  BY PendingType DEF Ack, Pending
<1>2. ASSUME NEW c \in Device, NEW i \in 1..delivered'[c],
             Pending(c)'[i].op = "set"
      PROVE  server'[Pending(c)'[i].path] # NoDoc
  <2>1. /\ Pending(c) \in Seq(Mutation)
        /\ delivered[c] \in Nat /\ delivered[c] <= Len(Pending(c))
    BY PendingType
  <2>2. CASE c = d
    <3>1. Pending(c)' = Tail(Pending(c))
      BY <1>1, <2>2 DEF Pending, FirestoreTypeOK
    <3>2. delivered'[c] = delivered[c] - 1
      BY <2>2 DEF Ack, FirestoreTypeOK
    <3>3. i + 1 \in 1..delivered[c] /\ Pending(c)'[i] = Pending(c)[i + 1]
      BY <1>1, <2>1, <2>2, <3>1, <3>2
    <3>4. QED
      BY <1>2, <3>3 DEF SentIsThere, Ack
  <2>3. CASE c # d
    <3>1. Pending(c)' = Pending(c) /\ delivered'[c] = delivered[c]
      BY <1>1, <2>3 DEF Pending, FirestoreTypeOK, Ack
    <3>2. QED
      BY <1>2, <3>1 DEF SentIsThere, Ack
  <2>4. QED
    BY <2>2, <2>3
<1>3. QED
  BY <1>2 DEF SentIsThere

\* Nothing of a stream that is closed counts as sent.
LEMMA ClosedSends ==
  ASSUME FirestoreTypeOK, SentIsThere, NEW d \in Device, delivered'[d] = 0,
         server' = server,
         \A c \in Device : c # d => /\ delivered'[c] = delivered[c]
                                   /\ Pending(c)' = Pending(c)
  PROVE  SentIsThere'
<1>1. ASSUME NEW c \in Device, NEW i \in 1..delivered'[c],
             Pending(c)'[i].op = "set"
      PROVE  server'[Pending(c)'[i].path] # NoDoc
  <2>1. c # d
    BY <1>1
  <2>2. QED
    BY <1>1, <2>1 DEF SentIsThere
<1>2. QED
  BY <1>1 DEF SentIsThere

LEMMA RejectSends ==
  ASSUME FirestoreTypeOK, SentIsThere, NEW d \in Device, Reject(d)
  PROVE  SentIsThere'
<1>1. Pending(d) # <<>> /\ user' = user
      /\ queue' = [queue EXCEPT ![d][user[d]] = Tail(Pending(d))]
  BY DEF Reject, Pending
<1>2. \A c \in Device : c # d => Pending(c)' = Pending(c)
  BY <1>1 DEF Pending, FirestoreTypeOK
<1>3. QED
  BY <1>2, ClosedSends DEF Reject

LEMMA WriteLocallySends ==
  ASSUME FirestoreTypeOK, SentIsThere, NEW d \in Device,
         NEW ms \in Seq(Mutation), WriteLocally(d, ms),
         UNCHANGED <<server, user, delivered>>
  PROVE  SentIsThere'
<1>1. ASSUME NEW c \in Device, NEW i \in 1..delivered'[c]
      PROVE  Pending(c)'[i] = Pending(c)[i]
  <2>1. /\ Pending(c) \in Seq(Mutation)
        /\ delivered[c] \in Nat /\ delivered[c] <= Len(Pending(c))
    BY PendingType
  <2>2. CASE c = d
    <3>1. Pending(c)' = Pending(c) \o ms
      BY <2>2, WriteLocallyQueue DEF Pending
    <3>2. QED
      BY <2>1, <3>1
  <2>3. CASE c # d
    BY <2>3, WriteLocallyQueue, PendingType DEF Pending
  <2>4. QED
    BY <2>2, <2>3
<1>2. QED
  BY <1>1 DEF SentIsThere

\* Only the head of the current user's queue ever leaves it.
LEMMA PopKeepsQueued ==
  ASSUME FirestoreTypeOK, NEW d \in Device, Pending(d) # <<>>,
         queue' = [queue EXCEPT ![d][user[d]] = Tail(Pending(d))],
         NEW c \in Device, NEW u \in Credential, NEW path \in Path,
         Queued(c, u, path)
  PROVE  \/ Queued(c, u, path)'
         \/ /\ c = d /\ u = user[d]
            /\ Head(Pending(d)).op = "set" /\ Head(Pending(d)).path = path
<1>1. PICK i \in 1..Len(queue[c][u]) :
        queue[c][u][i].op = "set" /\ queue[c][u][i].path = path
  BY DEF Queued
<1>2. CASE c = d /\ u = user[d]
  <2>1. Pending(d) = queue[c][u] /\ Pending(d) \in Seq(Mutation)
    BY <1>2, PendingType
  <2>2. queue'[c][u] = Tail(Pending(d))
    BY <1>2, PendingType DEF FirestoreTypeOK
  <2>3. CASE i = 1
    BY <1>1, <1>2, <2>1, <2>3
  <2>4. CASE i # 1
    <3>1. /\ i - 1 \in 1..Len(Tail(Pending(d)))
          /\ Tail(Pending(d))[i - 1] = queue[c][u][i]
      BY <2>1, <2>4
    <3>2. QED
      BY <1>1, <2>2, <3>1 DEF Queued
  <2>5. QED
    BY <2>3, <2>4
<1>3. CASE ~(c = d /\ u = user[d])
  <2>1. queue'[c][u] = queue[c][u]
    BY <1>3 DEF FirestoreTypeOK
  <2>2. QED
    BY <2>1 DEF Queued
<1>4. QED
  BY <1>2, <1>3

\* No step of the network loses a save that is queued under an account.
LEMMA NetworkKeepsSaves ==
  ASSUME FirestoreTypeOK, SentIsThere, NEW d \in Device,
         Deliver(d) \/ Ack(d) \/ Reject(d) \/ BreakStream(d),
         NEW c \in Device, NEW u \in User, NEW path \in Path,
         server[path] # NoDoc \/ Queued(c, u, path)
  PROVE  server'[path] # NoDoc \/ Queued(c, u, path)'
<1>0. u \in Credential
  BY DEF Credential
<1>1. CASE Deliver(d)
  BY <1>1, DeliverKeepsDocs DEF Deliver, Queued
<1>2. CASE Ack(d)
  <2>1. /\ Pending(d) # <<>> /\ Pending(d) \in Seq(Mutation)
        /\ queue' = [queue EXCEPT ![d][user[d]] = Tail(Pending(d))]
        /\ 1 \in 1..delivered[d] /\ server' = server
    BY <1>2, PendingType DEF Ack, Pending
  <2>2. Head(Pending(d)) = Pending(d)[1]
    BY <2>1
  <2>3. Head(Pending(d)).op = "set" => server[Head(Pending(d)).path] # NoDoc
    BY <2>1, <2>2 DEF SentIsThere
  <2>4. QED
    BY <1>0, <2>1, <2>3, PopKeepsQueued
<1>3. CASE Reject(d)
  <2>1. /\ Pending(d) # <<>> /\ server' = server
        /\ queue' = [queue EXCEPT ![d][user[d]] = Tail(Pending(d))]
        /\ user[d] = NoUser \/ Head(Pending(d)).op # "set"
    BY <1>3 DEF Reject, Pending, PreconditionHolds
  <2>2. u # NoUser
    BY FirestoreAssumption
  <2>3. QED
    BY <1>0, <2>1, <2>2, PopKeepsQueued, ZenonT(60)
<1>4. CASE BreakStream(d)
  BY <1>4 DEF BreakStream, Queued
<1>5. QED
  BY <1>1, <1>2, <1>3, <1>4

LEMMA WriteKeepsSaves ==
  ASSUME FirestoreTypeOK, NEW d \in Device, NEW ms \in Seq(Mutation),
         WriteLocally(d, ms),
         NEW c \in Device, NEW u \in Credential, NEW path \in Path,
         Queued(c, u, path)
  PROVE  Queued(c, u, path)'
<1>1. PICK i \in 1..Len(queue[c][u]) :
        queue[c][u][i].op = "set" /\ queue[c][u][i].path = path
  BY DEF Queued
<1>2. queue[c][u] \in Seq(Mutation)
  BY DEF FirestoreTypeOK
<1>3. CASE c = d /\ u = user[d]
  <2>1. queue'[c][u] = queue[c][u] \o ms
    BY <1>3, WriteLocallyQueue DEF Pending
  <2>2. i \in 1..Len(queue[c][u] \o ms) /\ (queue[c][u] \o ms)[i] = queue[c][u][i]
    BY <1>2
  <2>3. QED
    BY <1>1, <2>1, <2>2 DEF Queued
<1>4. CASE ~(c = d /\ u = user[d])
  BY <1>4, WriteLocallyQueue DEF Queued
<1>5. QED
  BY <1>3, <1>4

-----------------------------------------------------------------------------
(* What listeners report.  The library's facts on folds take operators as    *)
(* parameters, so the fold of LocalView is unrolled here, into the views     *)
(* after 0, 1, 2... of the waiting mutations.                                *)

Viewed(m, path, doc) == IF m.path = path THEN Apply(m, doc) ELSE doc

IsViews(v, doc, path, q) ==
  /\ v \in [0..Len(q) -> MaybeDoc]
  /\ v[0] = doc
  /\ \A n \in 1..Len(q) : v[n] = Viewed(q[n], path, v[n - 1])

LEMMA OverlaidViews ==
  ASSUME NEW doc \in MaybeDoc, NEW path, NEW q \in Seq(Mutation)
  PROVE  \E v : IsViews(v, doc, path, q) /\ Overlaid(doc, path, q) = v[Len(q)]
<1> DEFINE N == Len(q)
           I == SUBSET (1..N)
           h == [n \in 1..N |-> [view \in MaybeDoc |-> Viewed(q[n], path, view)]]
           Folds(it) == it = [s \in I |-> IF s = {} THEN doc
                                         ELSE Viewed(q[Max(s)], path, it[s \ {Max(s)}])]
           f == CHOOSE it : Folds(it)
<1>1. N \in Nat /\ \A n \in 1..N : q[n] \in Mutation
  OBVIOUS
<1>2. \A n \in 1..N, view \in MaybeDoc : Viewed(q[n], path, view) \in MaybeDoc
  BY <1>1, ApplyType DEF Viewed
<1>3. h \in [1..N -> [MaybeDoc -> MaybeDoc]]
  BY <1>2
<1>4. PICK it \in [I -> MaybeDoc] :
        \A s \in I : it[s] = IF s = {} THEN doc ELSE h[Max(s)][it[s \ {Max(s)}]]
  <2> HIDE DEF h, N
  <2>1. \E it : IsFold(it, N, MaybeDoc, doc, h)
    BY <1>1, <1>3, FoldExists
  <2> QED
    BY <2>1 DEF IsFold
<1>5. Folds(it)
  <2>1. ASSUME NEW s \in I
        PROVE  it[s] = IF s = {} THEN doc ELSE Viewed(q[Max(s)], path, it[s \ {Max(s)}])
    <3>1. CASE s = {}
      BY <1>4, <3>1
    <3>2. CASE s # {}
      <4>1. Max(s) \in 1..N
        BY <1>1, <3>2, GreatestIndex
      <4>2. s \ {Max(s)} \in I
        OBVIOUS
      <4>3. it[s \ {Max(s)}] \in MaybeDoc
        BY <1>4, <4>2
      <4>4. h[Max(s)][it[s \ {Max(s)}]] = Viewed(q[Max(s)], path, it[s \ {Max(s)}])
        BY <4>1, <4>3
      <4> QED
        BY <1>4, <3>2, <4>4
    <3> QED
      BY <3>1, <3>2
  <2>2. it = [s \in I |-> it[s]]
    BY <1>4
  <2> HIDE DEF I
  <2> QED
    BY <2>1, <2>2
<1>6. Folds(f)
  <2> HIDE DEF Folds
  <2> QED
    BY <1>5
<1>7. Overlaid(doc, path, q) = f[1..N]
  <2>1. DOMAIN q = 1..N
    OBVIOUS
  <2> QED
    BY <2>1 DEF Overlaid, FoldLeft, MapThenFoldSet, Viewed
<1>8. ASSUME NEW s \in I
      PROVE  /\ s = {} => f[s] = doc
             /\ s # {} /\ f[s \ {Max(s)}] \in MaybeDoc =>
                  f[s] = h[Max(s)][f[s \ {Max(s)}]]
  <2>1. s # {} => Max(s) \in 1..N
    BY <1>1, GreatestIndex
  <2>2. f[s] = IF s = {} THEN doc ELSE Viewed(q[Max(s)], path, f[s \ {Max(s)}])
    <3> HIDE DEF f
    <3> QED
      BY <1>6
  <2> HIDE DEF f
  <2> QED
    BY <2>1, <2>2
<1>9. PICK v : IsRun(v, N, MaybeDoc, doc, h) /\ v[N] = f[1..N]
  <2> HIDE DEF f, h, N
  <2>1. FoldsBy(f, N, MaybeDoc, doc, h)
    BY <1>8 DEF FoldsBy
  <2>2. \E v : IsRun(v, N, MaybeDoc, doc, h) /\ v[N] = f[1..N]
    BY <1>1, <1>3, <2>1, FoldRuns, SMTT(60)
  <2> QED
    BY <2>2
<1> HIDE DEF f
<1>10. /\ v \in [0..N -> MaybeDoc] /\ v[0] = doc
       /\ \A n \in 1..N : v[n] = h[n][v[n - 1]]
  BY <1>9 DEF IsRun
<1>11. ASSUME NEW n \in 1..N PROVE v[n] = Viewed(q[n], path, v[n - 1])
  <2>1. n - 1 \in 0..N
    BY <1>1
  <2>2. v[n - 1] \in MaybeDoc
    BY <1>10, <2>1
  <2> QED
    BY <1>10, <2>2
<1> QED
  BY <1>7, <1>9, <1>10, <1>11 DEF IsViews

\* What every waiting mutation of the document keeps, the view of it has.
LEMMA OverlaidStays ==
  ASSUME NEW doc \in MaybeDoc, NEW path, NEW q \in Seq(Mutation), NEW S, doc \in S,
         \A i \in 1..Len(q) : q[i].path = path =>
           \A view \in MaybeDoc \cap S : Apply(q[i], view) \in S
  PROVE  Overlaid(doc, path, q) \in MaybeDoc \cap S
<1>1. PICK v : IsViews(v, doc, path, q) /\ Overlaid(doc, path, q) = v[Len(q)]
  BY OverlaidViews
<1> DEFINE N == Len(q)
           T == {n \in Nat : n <= N => v[n] \in MaybeDoc \cap S}
<1>2. N \in Nat /\ \A n \in 1..N : q[n] \in Mutation
  OBVIOUS
<1>3. 0 \in T
  BY <1>1 DEF IsViews
<1>4. ASSUME NEW n \in Nat, n \in T PROVE n + 1 \in T
  <2> SUFFICES ASSUME n + 1 <= N PROVE v[n + 1] \in MaybeDoc \cap S
    OBVIOUS
  <2>1. n + 1 \in 1..N /\ (n + 1) - 1 = n /\ v[n] \in MaybeDoc \cap S
    BY <1>2, <1>4
  <2>2. v[n + 1] = Viewed(q[n + 1], path, v[n])
    BY <1>1, <2>1 DEF IsViews
  <2> QED
    BY <1>2, <2>1, <2>2, ApplyType DEF Viewed
<1>5. Nat \subseteq T
  <2> HIDE DEF T
  <2> QED
    BY <1>3, <1>4, NatInSet
<1> QED
  BY <1>1, <1>2, <1>5

LEMMA OverlaidType ==
  ASSUME NEW doc \in MaybeDoc, NEW path, NEW q \in Seq(Mutation)
  PROVE  Overlaid(doc, path, q) \in MaybeDoc
<1>1. \A i \in 1..Len(q) : \A view \in MaybeDoc : Apply(q[i], view) \in MaybeDoc
  BY ApplyType
<1> QED
  BY <1>1, OverlaidStays

LEMMA LocalViewType ==
  ASSUME FirestoreTypeOK, NEW d \in Device, NEW path \in Path
  PROVE  LocalView(d, path) \in MaybeDoc
BY PendingType, OverlaidType DEF LocalView, FirestoreTypeOK

\* A document is only seen where it is cached or where a save of it waits.
LEMMA SeenIsSaved ==
  ASSUME NEW doc \in MaybeDoc, NEW path, NEW q \in Seq(Mutation),
         Overlaid(doc, path, q) # NoDoc, doc = NoDoc
  PROVE  \E i \in 1..Len(q) : q[i].op = "set" /\ q[i].path = path
<1> SUFFICES ASSUME \A i \in 1..Len(q) : q[i].path = path => q[i].op # "set"
             PROVE  FALSE
  OBVIOUS
<1>1. \A i \in 1..Len(q) : q[i].path = path =>
        \A view \in MaybeDoc \cap {NoDoc} : Apply(q[i], view) \in {NoDoc}
  BY DEF Apply, PreconditionHolds
<1>2. Overlaid(doc, path, q) \in MaybeDoc \cap {NoDoc}
  BY <1>1, OverlaidStays
<1> QED
  BY <1>2

-----------------------------------------------------------------------------
(* Documents and mutations of a kind: when every document at path p is in     *)
(* A[p] and every waiting mutation in M, and the mutations of M keep the sets *)
(* of A, then no step of the network leads out of them.                       *)

DocsWithin(A, M) ==
  /\ \A p \in Path : server[p] \in A[p] /\ \A d \in Device : cache[d][p] \in A[p]
  /\ \A d \in Device, u \in Credential : \A i \in 1..Len(queue[d][u]) :
       queue[d][u][i] \in M

Closed(A, M) ==
  \A m \in M : \A doc \in MaybeDoc \cap A[m.path] : Apply(m, doc) \in A[m.path]

\* Larger kinds hold as well, in the next state too.
LEMMA DocsWithinGrow ==
  ASSUME NEW A, NEW M, NEW B, NEW N, M \subseteq N,
         \A p \in Path : A[p] \subseteq B[p]
  PROVE  /\ DocsWithin(A, M) => DocsWithin(B, N)
         /\ DocsWithin(A, M)' => DocsWithin(B, N)'
<1>1. ASSUME DocsWithin(A, M) PROVE DocsWithin(B, N)
  <2>1. \A d \in Device, u \in Credential : \A i \in 1..Len(queue[d][u]) :
          queue[d][u][i] \in N
    BY <1>1 DEF DocsWithin
  <2>2. \A p \in Path : server[p] \in B[p] /\ \A d \in Device : cache[d][p] \in B[p]
    BY <1>1 DEF DocsWithin
  <2>3. QED
    BY <2>1, <2>2 DEF DocsWithin
<1>2. ASSUME DocsWithin(A, M)' PROVE DocsWithin(B, N)'
  <2>1. \A d \in Device, u \in Credential : \A i \in 1..Len(queue'[d][u]) :
          queue'[d][u][i] \in N
    BY <1>2 DEF DocsWithin
  <2>2. \A p \in Path : server'[p] \in B[p] /\ \A d \in Device : cache'[d][p] \in B[p]
    BY <1>2 DEF DocsWithin
  <2>3. QED
    BY <2>1, <2>2 DEF DocsWithin
<1>3. QED
  BY <1>1, <1>2

LEMMA LocalViewWithin ==
  ASSUME FirestoreTypeOK, NEW A, NEW M, DocsWithin(A, M), Closed(A, M),
         NEW d \in Device, NEW path \in Path
  PROVE  LocalView(d, path) \in MaybeDoc \cap A[path]
<1>1. cache[d][path] \in MaybeDoc \cap A[path] /\ Pending(d) \in Seq(Mutation)
  BY PendingType DEF DocsWithin, FirestoreTypeOK
<1>2. \A i \in 1..Len(Pending(d)) : Pending(d)[i] \in M
  BY PendingType DEF DocsWithin
<1>3. \A i \in 1..Len(Pending(d)) : Pending(d)[i].path = path =>
        \A view \in MaybeDoc \cap A[path] : Apply(Pending(d)[i], view) \in A[path]
  BY <1>2 DEF Closed
<1>4. QED
  BY <1>1, <1>3, OverlaidStays DEF LocalView

LEMMA DeliverWithin ==
  ASSUME FirestoreTypeOK, NEW A, NEW M, DocsWithin(A, M), Closed(A, M),
         NEW d \in Device, Deliver(d)
  PROVE  DocsWithin(A, M)'
<1> DEFINE m == Pending(d)[delivered[d] + 1]
<1>1. m \in Mutation /\ m \in M
  BY PendingType DEF Deliver, DocsWithin
<1>2. m.path \in Path /\ server[m.path] \in MaybeDoc \cap A[m.path]
  BY <1>1 DEF Mutation, FirestoreTypeOK, DocsWithin
<1>3. Apply(m, server[m.path]) \in A[m.path]
  BY <1>1, <1>2 DEF Closed
<1>4. Merge(m, server[m.path]) \in A[m.path]
  BY <1>3 DEF Apply, Deliver
<1>5. server' = [server EXCEPT ![m.path] = Merge(m, server[m.path])]
  BY DEF Deliver
<1> HIDE DEF m
<1>6. QED
  BY <1>4, <1>5 DEF Deliver, FirestoreTypeOK, DocsWithin

\* The queue of the current user loses its head.
LEMMA PopWithin ==
  ASSUME FirestoreTypeOK, NEW A, NEW M, DocsWithin(A, M), NEW d \in Device,
         Pending(d) # <<>>,
         queue' = [queue EXCEPT ![d][user[d]] = Tail(Pending(d))],
         NEW c \in Device, NEW u \in Credential, NEW i \in 1..Len(queue'[c][u])
  PROVE  queue'[c][u][i] \in M
<1>1. Pending(d) \in Seq(Mutation) /\ Pending(d) = queue[d][user[d]]
      /\ user[d] \in Credential
  BY PendingType
<1>2. CASE c = d /\ u = user[d]
  <2>1. queue'[c][u] = Tail(Pending(d))
    BY <1>1, <1>2 DEF FirestoreTypeOK
  <2>2. i + 1 \in 1..Len(Pending(d)) /\ queue'[c][u][i] = Pending(d)[i + 1]
    <3> DEFINE old == Pending(d)
    <3>1. old \in Seq(Mutation) /\ old # <<>> /\ i \in 1..Len(Tail(old))
      BY <1>1, <2>1
    <3> HIDE DEF old
    <3>2. Len(Tail(old)) = Len(old) - 1 /\ Len(old) \in Nat
      BY <3>1
    <3>3. i + 1 \in 1..Len(old) /\ Tail(old)[i] = old[i + 1]
      BY <3>1, <3>2
    <3>4. QED
      BY <2>1, <3>3 DEF old
  <2>3. QED
    BY <1>1, <1>2, <2>2 DEF DocsWithin
<1>3. CASE ~(c = d /\ u = user[d])
  BY <1>1, <1>3 DEF FirestoreTypeOK, DocsWithin
<1>4. QED
  BY <1>2, <1>3

LEMMA AckWithin ==
  ASSUME FirestoreTypeOK, NEW A, NEW M, DocsWithin(A, M), Closed(A, M),
         NEW d \in Device, Ack(d)
  PROVE  DocsWithin(A, M)'
<1> DEFINE m == Head(Pending(d))
<1>1. Pending(d) # <<>> /\ m \in Mutation /\ m = Pending(d)[1]
      /\ 1 \in 1..Len(Pending(d))
  BY PendingType DEF Ack
<1>2. m \in M
  BY <1>1, PendingType DEF DocsWithin
<1> HIDE DEF m
<1>8. m.path \in Path
  BY <1>1 DEF Mutation
<1>9. cache[d][m.path] \in MaybeDoc \cap A[m.path]
  BY <1>8 DEF FirestoreTypeOK, DocsWithin
<1>3. Apply(m, cache[d][m.path]) \in A[m.path]
  BY <1>2, <1>9 DEF Closed
<1>4. /\ queue' = [queue EXCEPT ![d][user[d]] = Tail(Pending(d))]
      /\ cache' = cache \/ cache' = [cache EXCEPT ![d][m.path] = Apply(m, @)]
      /\ server' = server
  BY DEF Ack, Pending, m
<1>5. \A c \in Device, u \in Credential : \A i \in 1..Len(queue'[c][u]) :
        queue'[c][u][i] \in M
  BY <1>1, <1>4, PopWithin
<1>6. ASSUME NEW p \in Path, NEW c \in Device PROVE cache'[c][p] \in A[p]
  <2>1. cache[c][p] \in A[p] /\ cache \in [Device -> [Path -> MaybeDoc]]
    BY DEF FirestoreTypeOK, DocsWithin
  <2>2. CASE c = d /\ p = m.path
    BY <1>3, <1>4, <2>1, <2>2
  <2>3. CASE ~(c = d /\ p = m.path)
    BY <1>4, <1>8, <2>1, <2>3
  <2>4. QED
    BY <2>2, <2>3
<1>7. QED
  BY <1>4, <1>5, <1>6 DEF DocsWithin

LEMMA NetworkWithin ==
  ASSUME FirestoreTypeOK, NEW A, NEW M, DocsWithin(A, M), Closed(A, M),
         NEW d \in Device,
         Deliver(d) \/ Ack(d) \/ Reject(d) \/ BreakStream(d) \/ Watch(d)
  PROVE  DocsWithin(A, M)'
<1>1. CASE Reject(d)
  <2>1. /\ Pending(d) # <<>> /\ UNCHANGED <<server, cache>>
        /\ queue' = [queue EXCEPT ![d][user[d]] = Tail(Pending(d))]
    BY <1>1 DEF Reject, Pending
  <2>2. \A c \in Device, u \in Credential : \A i \in 1..Len(queue'[c][u]) :
          queue'[c][u][i] \in M
    BY <2>1, PopWithin
  <2>3. QED
    BY <2>1, <2>2 DEF DocsWithin
<1>2. CASE BreakStream(d)
  BY <1>2 DEF BreakStream, DocsWithin
<1>3. CASE Watch(d)
  BY <1>3 DEF Watch, DocsWithin, FirestoreTypeOK
<1>4. QED
  BY <1>1, <1>2, <1>3, DeliverWithin, AckWithin

LEMMA WriteWithin ==
  ASSUME FirestoreTypeOK, NEW A, NEW M, DocsWithin(A, M),
         NEW d \in Device, NEW ms \in Seq(Mutation), WriteLocally(d, ms),
         UNCHANGED <<server, cache>>, \A i \in 1..Len(ms) : ms[i] \in M
  PROVE  DocsWithin(A, M)'
<1> SUFFICES ASSUME NEW c \in Device, NEW u \in Credential,
                    NEW i \in 1..Len(queue'[c][u])
             PROVE  queue'[c][u][i] \in M
  BY DEF DocsWithin
<1>1. /\ queue'[d][user[d]] = Pending(d) \o ms
      /\ c # d \/ u # user[d] => queue'[c][u] = queue[c][u]
  BY WriteLocallyQueue
<1>2. CASE c # d \/ u # user[d]
  BY <1>1, <1>2 DEF DocsWithin
<1>3. CASE c = d /\ u = user[d]
  <2> DEFINE old == Pending(d)
  <2>1. old \in Seq(Mutation) /\ i \in 1..Len(old \o ms)
        /\ queue'[c][u][i] = (old \o ms)[i]
    BY <1>1, <1>3, PendingType
  <2>2. \A j \in 1..Len(old) : old[j] \in M
    BY PendingType DEF DocsWithin
  <2> HIDE DEF old
  <2>3. Len(old \o ms) = Len(old) + Len(ms) /\ Len(old) \in Nat
    BY <2>1
  <2>4. CASE i <= Len(old)
    BY <2>1, <2>2, <2>4
  <2>5. CASE i > Len(old)
    <3>1. i - Len(old) \in 1..Len(ms) /\ (old \o ms)[i] = ms[i - Len(old)]
      BY <2>1, <2>3, <2>5
    <3>2. QED
      BY <2>1, <3>1
  <2>6. QED
    BY <2>1, <2>3, <2>4, <2>5
<1>4. QED
  BY <1>2, <1>3

-----------------------------------------------------------------------------
(* What the current stream of a device has brought to the server, and what a  *)
(* queue still holds.                                                         *)

Sent(d) == {Pending(d)[i] : i \in 1..delivered[d]}

Waits(d, u, m) == \E i \in 1..Len(queue[d][u]) : queue[d][u][i] = m

LEMMA SentAreQueued ==
  ASSUME FirestoreTypeOK, NEW d \in Device, NEW m \in Sent(d)
  PROVE  m \in Mutation /\ Waits(d, user[d], m)
BY PendingType DEF Sent, Waits

LEMMA DeliverSent ==
  ASSUME FirestoreTypeOK, NEW d \in Device, Deliver(d), NEW c \in Device
  PROVE  Sent(c)' \subseteq
           IF c = d THEN Sent(c) \cup {Pending(d)[delivered[d] + 1]} ELSE Sent(c)
<1>1. Pending(c)' = Pending(c) /\ delivered[c] \in Nat
  BY PendingType DEF Deliver, Pending
<1>2. delivered'[c] = IF c = d THEN delivered[c] + 1 ELSE delivered[c]
  BY DEF Deliver, FirestoreTypeOK
<1>3. \A i \in 1..delivered'[c] : i \in 1..delivered[c] \/ (c = d /\ i = delivered[c] + 1)
  BY <1>1, <1>2
<1> QED
  BY <1>1, <1>3 DEF Sent

LEMMA AckSent ==
  ASSUME FirestoreTypeOK, NEW d \in Device, Ack(d), NEW c \in Device
  PROVE  Sent(c)' \subseteq Sent(c) /\ Head(Pending(d)) \in Sent(d)
<1>1. Pending(d) # <<>> /\ user' = user
      /\ queue' = [queue EXCEPT ![d][user[d]] = Tail(Pending(d))]
  BY PendingType DEF Ack, Pending
<1>2. /\ Pending(c) \in Seq(Mutation)
      /\ delivered[c] \in Nat /\ delivered[c] <= Len(Pending(c))
  BY PendingType
<1>3. Head(Pending(d)) \in Sent(d)
  <2>1. Head(Pending(d)) = Pending(d)[1] /\ delivered[d] \in Nat /\ delivered[d] > 0
    BY <1>1, PendingType DEF Ack
  <2> QED
    BY <2>1 DEF Sent
<1>4. CASE c = d
  <2>1. Pending(c)' = Tail(Pending(c)) /\ delivered'[c] = delivered[c] - 1
    BY <1>1, <1>4 DEF Pending, FirestoreTypeOK, Ack
  <2>2. ASSUME NEW i \in 1..delivered'[c]
        PROVE  i + 1 \in 1..delivered[c] /\ Pending(c)'[i] = Pending(c)[i + 1]
    BY <1>1, <1>2, <1>4, <2>1
  <2> QED
    BY <1>3, <2>2 DEF Sent
<1>5. CASE c # d
  <2>1. Pending(c)' = Pending(c) /\ delivered'[c] = delivered[c]
    BY <1>1, <1>5 DEF Pending, FirestoreTypeOK, Ack
  <2> QED
    BY <1>3, <2>1 DEF Sent
<1> QED
  BY <1>4, <1>5

LEMMA ClosedSent ==
  ASSUME NEW d \in Device, delivered'[d] = 0,
         \A c \in Device : c # d => /\ delivered'[c] = delivered[c]
                                   /\ Pending(c)' = Pending(c),
         NEW c \in Device
  PROVE  Sent(c)' \subseteq Sent(c)
BY DEF Sent

LEMMA NetworkSent ==
  ASSUME FirestoreTypeOK, NEW d \in Device,
         Ack(d) \/ Reject(d) \/ BreakStream(d) \/ Watch(d), NEW c \in Device
  PROVE  Sent(c)' \subseteq Sent(c)
<1>1. CASE Reject(d)
  <2>1. \A b \in Device : b # d => Pending(b)' = Pending(b)
    BY <1>1 DEF Reject, Pending, FirestoreTypeOK
  <2> QED
    BY <1>1, <2>1, ClosedSent DEF Reject
<1>2. CASE BreakStream(d)
  BY <1>2, ClosedSent DEF BreakStream, Pending, FirestoreTypeOK
<1>3. CASE Watch(d)
  BY <1>3 DEF Watch, Sent, Pending
<1> QED
  BY <1>1, <1>2, <1>3, AckSent

LEMMA WriteLocallySent ==
  ASSUME FirestoreTypeOK, NEW d \in Device, NEW ms \in Seq(Mutation),
         WriteLocally(d, ms), UNCHANGED <<user, delivered>>, NEW c \in Device
  PROVE  Sent(c)' \subseteq Sent(c)
<1>1. ASSUME NEW i \in 1..delivered'[c] PROVE Pending(c)'[i] = Pending(c)[i]
  <2>1. /\ Pending(c) \in Seq(Mutation)
        /\ delivered[c] \in Nat /\ delivered[c] <= Len(Pending(c))
    BY PendingType
  <2>2. CASE c = d
    <3>1. Pending(c)' = Pending(c) \o ms
      BY <2>2, WriteLocallyQueue DEF Pending
    <3> QED
      BY <2>1, <3>1
  <2>3. CASE c # d
    BY <2>3, WriteLocallyQueue, PendingType DEF Pending
  <2> QED
    BY <2>2, <2>3
<1> QED
  BY <1>1 DEF Sent

\* Only the head of the current user's queue ever leaves it.
LEMMA PopKeepsWaits ==
  ASSUME FirestoreTypeOK, NEW d \in Device, Pending(d) # <<>>,
         queue' = [queue EXCEPT ![d][user[d]] = Tail(Pending(d))],
         NEW c \in Device, NEW u \in Credential, NEW m, Waits(c, u, m)
  PROVE  \/ Waits(c, u, m)'
         \/ c = d /\ u = user[d] /\ m = Head(Pending(d))
<1>1. PICK i \in 1..Len(queue[c][u]) : queue[c][u][i] = m
  BY DEF Waits
<1>2. CASE c = d /\ u = user[d]
  <2>1. Pending(d) = queue[c][u] /\ Pending(d) \in Seq(Mutation)
    BY <1>2, PendingType
  <2>2. queue'[c][u] = Tail(Pending(d))
    BY <1>2, PendingType DEF FirestoreTypeOK
  <2>3. CASE i = 1
    BY <1>1, <1>2, <2>1, <2>3
  <2>4. CASE i # 1
    <3>1. /\ i - 1 \in 1..Len(Tail(Pending(d)))
          /\ Tail(Pending(d))[i - 1] = queue[c][u][i]
      BY <2>1, <2>4
    <3> QED
      BY <1>1, <2>2, <3>1 DEF Waits
  <2> QED
    BY <2>3, <2>4
<1>3. CASE ~(c = d /\ u = user[d])
  <2>1. queue'[c][u] = queue[c][u]
    BY <1>3 DEF FirestoreTypeOK
  <2> QED
    BY <2>1, <1>1 DEF Waits
<1> QED
  BY <1>2, <1>3

\* A write keeps what waits and adds what is written.
LEMMA WriteWaits ==
  ASSUME FirestoreTypeOK, NEW d \in Device, NEW ms \in Seq(Mutation),
         WriteLocally(d, ms), NEW c \in Device, NEW u \in Credential, NEW m,
         Waits(c, u, m) \/ (c = d /\ u = user[d] /\ \E i \in 1..Len(ms) : ms[i] = m)
  PROVE  Waits(c, u, m)'
<1>1. CASE c # d \/ u # user[d]
  <2>1. queue'[c][u] = queue[c][u]
    BY <1>1, WriteLocallyQueue
  <2> QED
    BY <1>1, <2>1 DEF Waits
<1>2. CASE c = d /\ u = user[d]
  <2> DEFINE old == Pending(d)
             new == old \o ms
  <2>1. queue'[c][u] = new /\ old = queue[c][u] /\ old \in Seq(Mutation)
    BY <1>2, WriteLocallyQueue, PendingType
  <2>2. /\ \A i \in 1..Len(old) : i \in 1..Len(new) /\ new[i] = old[i]
        /\ \A i \in 1..Len(ms) : Len(old) + i \in 1..Len(new)
                                 /\ new[Len(old) + i] = ms[i]
    <3> HIDE DEF old
    <3> QED
      BY <2>1
  <2> HIDE DEF old, new
  <2> QED
    BY <2>1, <2>2 DEF Waits
<1> QED
  BY <1>1, <1>2

-----------------------------------------------------------------------------
(* The last write of a part of a document.  Mutations with an operation in K   *)
(* set that part, and T holds the documents in which it has a certain value.   *)

Says(m, e, K) == m.path = e /\ m.op \in K
Silent(q, e, K) == \A i \in 1..Len(q) : ~Says(q[i], e, K)

\* The last of the first n mutations of q that sets the part is at i.
LastIn(q, i, n, e, K) ==
  i \in 1..n /\ Says(q[i], e, K) /\ \A j \in 1..n : j > i => ~Says(q[j], e, K)

\* The mutation sets the part to the value.
Brings(m, T) == \A doc \in MaybeDoc : Apply(m, doc) \in T

\* Whatever in q sets the part sets it to the value.
Agrees(q, e, K, T) == \A i \in 1..Len(q) : Says(q[i], e, K) => Brings(q[i], T)

\* Other mutations leave the part alone, and only a save sets it where there is
\* no document.
IsPart(K, T) ==
  /\ \A m \in Mutation, doc \in MaybeDoc :
       m.op \notin K /\ doc \in T => Apply(m, doc) \in T
  /\ K = {"set"} \/ NoDoc \in T

\* If the value is what the first n mutations of q end with, the document has it.
Shows(doc, q, n, e, K, T) ==
  \A i \in 1..n : LastIn(q, i, n, e, K) /\ Brings(q[i], T) => doc \in T

\* The server shows what it was sent, and the cache what it was told.
Reflected(d, e, K, T) ==
  /\ Shows(server[e], Pending(d), delivered[d], e, K, T)
  /\ Shows(cache[d][e], Pending(d), observed[d], e, K, T)

\* When the queue of u on d is empty the document will have the value.
EndsIn(d, u, e, K, T) ==
  LET q == queue[d][u]
  IN \/ \E i \in 1..Len(q) : LastIn(q, i, Len(q), e, K) /\ Brings(q[i], T)
     \/ Silent(q, e, K) /\ server[e] \in T /\ cache[d][e] \in T

LEMMA TailParts ==
  ASSUME NEW q \in Seq(Mutation), q # <<>>, NEW n \in 1..Len(q), NEW e, NEW K
  PROVE  /\ \A i \in 1..Len(Tail(q)) : i + 1 \in 1..Len(q) /\ Tail(q)[i] = q[i + 1]
         /\ Len(Tail(q)) = Len(q) - 1 /\ Len(q) \in Nat
         /\ \A i \in 1..(n - 1) : LastIn(Tail(q), i, n - 1, e, K) <=>
                                  LastIn(q, i + 1, n, e, K)
         /\ Silent(q, e, K) \/ LastIn(q, 1, Len(q), e, K) => Silent(Tail(q), e, K)
<1>1. Len(Tail(q)) = Len(q) - 1 /\ Len(q) \in Nat
      /\ \A i \in 1..(Len(q) - 1) : i + 1 \in 1..Len(q) /\ Tail(q)[i] = q[i + 1]
  OBVIOUS
<1> DEFINE r == Tail(q)
<1> HIDE DEF r
<1>2. Len(r) = Len(q) - 1
      /\ \A i \in 1..(Len(q) - 1) : i + 1 \in 1..Len(q) /\ r[i] = q[i + 1]
  BY <1>1 DEF r
<1>3. ASSUME NEW i \in 1..(n - 1)
      PROVE  LastIn(r, i, n - 1, e, K) <=> LastIn(q, i + 1, n, e, K)
  <2>1. i + 1 \in 1..n /\ r[i] = q[i + 1]
    BY <1>1, <1>2
  <2>2. (\A j \in 1..(n - 1) : j > i => ~Says(r[j], e, K)) <=>
        (\A j \in 1..n : j > i + 1 => ~Says(q[j], e, K))
    <3>1. ASSUME \A j \in 1..(n - 1) : j > i => ~Says(r[j], e, K),
                 NEW j \in 1..n, j > i + 1
          PROVE  ~Says(q[j], e, K)
      <4>1. j - 1 \in 1..(n - 1) /\ j - 1 > i /\ (j - 1) + 1 = j
        BY <3>1
      <4>2. r[j - 1] = q[j]
        BY <1>1, <1>2, <4>1
      <4> QED
        BY <3>1, <4>1, <4>2
    <3>2. ASSUME \A j \in 1..n : j > i + 1 => ~Says(q[j], e, K),
                 NEW j \in 1..(n - 1), j > i
          PROVE  ~Says(r[j], e, K)
      <4>1. j + 1 \in 1..n /\ j + 1 > i + 1 /\ r[j] = q[j + 1]
        BY <1>1, <1>2, <3>2
      <4> QED
        BY <3>2, <4>1
    <3> QED
      BY <3>1, <3>2
  <2> QED
    BY <2>1, <2>2 DEF LastIn
<1>4. ASSUME Silent(q, e, K) \/ LastIn(q, 1, Len(q), e, K), NEW i \in 1..Len(r)
      PROVE  ~Says(r[i], e, K)
  <2>1. i + 1 \in 1..Len(q) /\ i + 1 > 1 /\ r[i] = q[i + 1]
    BY <1>1, <1>2
  <2> QED
    BY <1>4, <2>1 DEF Silent, LastIn
<1> QED
  BY <1>1, <1>2, <1>3, <1>4 DEF r, Silent

LEMMA AppendParts ==
  ASSUME NEW q \in Seq(Mutation), NEW ms \in Seq(Mutation), NEW e, NEW K
  PROVE  /\ Len(q) \in Nat /\ Len(ms) \in Nat /\ Len(q \o ms) = Len(q) + Len(ms)
         /\ \A i \in 1..Len(q) : i \in 1..Len(q \o ms) /\ (q \o ms)[i] = q[i]
         /\ \A i \in 1..Len(ms) : (q \o ms)[Len(q) + i] = ms[i]
         /\ \A n \in 0..Len(q) : \A i \in 1..n :
              LastIn(q \o ms, i, n, e, K) <=> LastIn(q, i, n, e, K)
         /\ Silent(ms, e, K) =>
              /\ Silent(q, e, K) => Silent(q \o ms, e, K)
              /\ \A i \in 1..Len(q) : LastIn(q, i, Len(q), e, K) =>
                                      LastIn(q \o ms, i, Len(q \o ms), e, K)
<1> DEFINE r == q \o ms
<1>1. Len(q) \in Nat /\ Len(ms) \in Nat /\ Len(r) = Len(q) + Len(ms)
      /\ (\A i \in 1..Len(q) : i \in 1..Len(r) /\ r[i] = q[i])
      /\ \A i \in 1..Len(ms) : r[Len(q) + i] = ms[i]
  OBVIOUS
<1> HIDE DEF r
<1>2. ASSUME NEW i \in 1..Len(r), i \notin 1..Len(q)
      PROVE  i - Len(q) \in 1..Len(ms) /\ r[i] = ms[i - Len(q)]
  <2>1. i - Len(q) \in 1..Len(ms) /\ Len(q) + (i - Len(q)) = i
    BY <1>1, <1>2
  <2> QED
    BY <1>1, <2>1
<1>3. ASSUME NEW n \in 0..Len(q), NEW i \in 1..n
      PROVE  LastIn(r, i, n, e, K) <=> LastIn(q, i, n, e, K)
  <2>1. \A j \in 1..n : r[j] = q[j]
    BY <1>1
  <2> QED
    BY <2>1 DEF LastIn
<1>4. ASSUME Silent(ms, e, K), NEW i \in 1..Len(r), i \notin 1..Len(q)
      PROVE  ~Says(r[i], e, K)
  BY <1>2, <1>4 DEF Silent
<1>5. ASSUME Silent(ms, e, K), Silent(q, e, K) PROVE Silent(r, e, K)
  BY <1>1, <1>4, <1>5 DEF Silent
<1>6. ASSUME Silent(ms, e, K), NEW i \in 1..Len(q), LastIn(q, i, Len(q), e, K)
      PROVE  LastIn(r, i, Len(r), e, K)
  BY <1>1, <1>4, <1>6 DEF LastIn
<1> QED
  BY <1>1, <1>3, <1>5, <1>6 DEF r

\* What the queue ends with is what the device shows.
LEMMA EndsInView ==
  ASSUME FirestoreTypeOK, NEW d \in Device, NEW e \in Path, NEW K, NEW T,
         IsPart(K, T), EndsIn(d, user[d], e, K, T)
  PROVE  LocalView(d, e) \in T
<1> DEFINE q == Pending(d)
           c == cache[d][e]
<1>1. q \in Seq(Mutation) /\ q = queue[d][user[d]] /\ c \in MaybeDoc
  BY PendingType DEF FirestoreTypeOK
<1>2. LocalView(d, e) = Overlaid(c, e, q)
  BY DEF LocalView
<1>3. \/ \E i \in 1..Len(q) : LastIn(q, i, Len(q), e, K) /\ Brings(q[i], T)
      \/ Silent(q, e, K) /\ c \in T
  BY DEF EndsIn, Pending
<1> HIDE DEF q, c
<1>4. ASSUME NEW m \in Mutation, m.path = e, ~Says(m, e, K), NEW doc \in MaybeDoc, doc \in T
      PROVE  Apply(m, doc) \in T
  BY <1>4 DEF IsPart, Says
<1>5. CASE Silent(q, e, K) /\ c \in T
  <2>1. \A i \in 1..Len(q) : q[i].path = e =>
          \A view \in MaybeDoc \cap T : Apply(q[i], view) \in T
    BY <1>1, <1>4, <1>5 DEF Silent
  <2> QED
    BY <1>1, <1>2, <1>5, <2>1, OverlaidStays
<1>6. CASE \E i \in 1..Len(q) : LastIn(q, i, Len(q), e, K) /\ Brings(q[i], T)
  <2>1. PICK k \in 1..Len(q) : LastIn(q, k, Len(q), e, K) /\ Brings(q[k], T)
    BY <1>6
  <2>2. PICK v : IsViews(v, c, e, q) /\ Overlaid(c, e, q) = v[Len(q)]
    BY <1>1, OverlaidViews
  <2> DEFINE N == Len(q)
             S == {n \in Nat : k <= n /\ n <= N => v[n] \in T}
  <2>3. N \in Nat /\ k \in 1..N /\ \A n \in 1..N : q[n] \in Mutation
    BY <1>1
  <2> HIDE DEF N
  <2>4. v \in [0..N -> MaybeDoc] /\ \A n \in 1..N : v[n] = Viewed(q[n], e, v[n - 1])
    BY <2>2 DEF IsViews, N
  <2>5. 0 \in S
    BY <2>3
  <2>6. ASSUME NEW n \in Nat, n \in S PROVE n + 1 \in S
    <3> SUFFICES ASSUME k <= n + 1, n + 1 <= N PROVE v[n + 1] \in T
      OBVIOUS
    <3>1. n + 1 \in 1..N /\ n \in 0..N /\ (n + 1) - 1 = n /\ v[n] \in MaybeDoc
      BY <2>3, <2>4
    <3>2. v[n + 1] = Viewed(q[n + 1], e, v[n]) /\ q[n + 1] \in Mutation
      BY <2>3, <2>4, <3>1
    <3>3. CASE n + 1 = k
      <4>1. q[k].path = e
        BY <2>1 DEF LastIn, Says
      <4> QED
        BY <2>1, <3>1, <3>2, <3>3, <4>1 DEF Brings, Viewed
    <3>4. CASE n + 1 # k
      <4>1. k <= n /\ n <= N
        BY <2>3, <3>1, <3>4
      <4>2. v[n] \in T
        BY <2>6, <4>1
      <4>3. ~Says(q[n + 1], e, K)
        BY <2>1, <2>3, <3>1, <4>1 DEF LastIn, N
      <4> QED
        BY <1>4, <3>1, <3>2, <4>2, <4>3 DEF Viewed
    <3> QED
      BY <3>3, <3>4
  <2>7. Nat \subseteq S
    <3> HIDE DEF S
    <3> QED
      BY <2>5, <2>6, NatInSet
  <2>8. v[N] \in T
    BY <2>3, <2>7
  <2> QED
    BY <1>2, <2>2, <2>8 DEF N
<1> QED
  BY <1>3, <1>5, <1>6

\* A step of the network keeps what the server and the cache show.
LEMMA NetworkReflects ==
  ASSUME FirestoreTypeOK, NEW d \in Device, NEW e \in Path, NEW K, NEW T,
         IsPart(K, T), Reflected(d, e, K, T), observed[d] <= delivered[d],
         Deliver(d) \/ Ack(d) \/ Reject(d) \/ BreakStream(d) \/ Watch(d)
  PROVE  Reflected(d, e, K, T)' /\ observed'[d] <= delivered'[d]
<1> DEFINE q == Pending(d)
           n == delivered[d]
           o == observed[d]
           s == server[e]
           c == cache[d][e]
<1>1. /\ q \in Seq(Mutation) /\ q = queue[d][user[d]] /\ user[d] \in Credential
      /\ n \in Nat /\ n <= Len(q) /\ o \in Nat /\ o <= n /\ Len(q) \in Nat
      /\ s \in MaybeDoc /\ c \in MaybeDoc
  BY PendingType DEF FirestoreTypeOK
<1>2. Shows(s, q, n, e, K, T) /\ Shows(c, q, o, e, K, T)
  BY DEF Reflected
<1>3. ASSUME NEW m \in Mutation, ~Says(m, e, K), m.path = e, NEW doc \in MaybeDoc, doc \in T
      PROVE  Apply(m, doc) \in T
  BY <1>3 DEF IsPart, Says
<1>4. \A doc, r : Shows(doc, r, 0, e, K, T)
  BY DEF Shows
<1>5. CASE Deliver(d)
  <2> DEFINE m == q[n + 1]
             t == server'[e]
  <2>1. /\ n + 1 \in 1..Len(q) /\ m \in Mutation
        /\ PreconditionHolds(m, server[m.path])
        /\ server' = [server EXCEPT ![m.path] = Merge(m, server[m.path])]
    <3>1. n < Len(q)
      BY <1>5 DEF Deliver
    <3>2. n + 1 \in 1..Len(q)
      <4> HIDE DEF q, n
      <4> QED
        BY <1>1, <3>1
    <3>3. m \in Mutation
      BY <1>1, <3>2
    <3>4. /\ PreconditionHolds(m, server[m.path])
          /\ server' = [server EXCEPT ![m.path] = Merge(m, server[m.path])]
      BY <1>5 DEF Deliver
    <3> QED
      BY <3>2, <3>3, <3>4
  <2>2. t = IF m.path = e THEN Apply(m, s) ELSE s
    <3> HIDE DEF m
    <3> QED
      BY <2>1 DEF FirestoreTypeOK, Apply
  <2>3. /\ Pending(d)' = q /\ delivered'[d] = n + 1 /\ observed'[d] = o
        /\ cache'[d][e] = c
    BY <1>5 DEF Deliver, Pending, FirestoreTypeOK
  <2> HIDE DEF q, n, o, s, c, t
  <2>4. ASSUME NEW i \in 1..(n + 1), LastIn(q, i, n + 1, e, K), Brings(q[i], T)
        PROVE  t \in T
    <3>1. CASE i = n + 1
      BY <1>1, <2>2, <2>4, <3>1 DEF LastIn, Says, Brings
    <3>2. CASE i # n + 1
      <4>1. i \in 1..n
        BY <1>1, <3>2
      <4>2. LastIn(q, i, n, e, K)
        BY <1>1, <2>4, <4>1 DEF LastIn
      <4>3. s \in T
        BY <1>2, <2>4, <4>1, <4>2 DEF Shows
      <4>4. ~Says(m, e, K)
        BY <1>1, <2>4, <4>1 DEF LastIn
      <4> QED
        BY <1>1, <1>3, <2>1, <2>2, <4>3, <4>4
    <3> QED
      BY <3>1, <3>2
  <2>5. Shows(t, q, n + 1, e, K, T)
    BY <2>4 DEF Shows
  <2>6. o <= n + 1
    BY <1>1
  <2> QED
    BY <1>2, <2>3, <2>5, <2>6 DEF Reflected, t
<1>6. CASE Ack(d)
  <2> DEFINE m == q[1]
             t == cache'[d][e]
             r == Tail(q)
  <2>1. n > 0 /\ q # <<>> /\ n \in 1..Len(q) /\ m \in Mutation /\ Head(q) = m
    BY <1>1, <1>6 DEF Ack
  <2>2. /\ Pending(d)' = r /\ delivered'[d] = n - 1
        /\ observed'[d] = IF o > 0 THEN o - 1 ELSE 0
        /\ server'[e] = s
    BY <1>1, <1>6 DEF Ack, Pending, FirestoreTypeOK
  <2>3. o > 0 => t = c
    BY <1>6 DEF Ack
  <2> HIDE DEF q, n, o, s, c, t
  <2>4. ASSUME NEW k \in 1..n, NEW doc, Shows(doc, q, k, e, K, T)
        PROVE  Shows(doc, r, k - 1, e, K, T)
    <3> SUFFICES ASSUME NEW i \in 1..(k - 1), LastIn(r, i, k - 1, e, K),
                        Brings(r[i], T)
                 PROVE  doc \in T
      BY DEF Shows
    <3>1. k \in 1..Len(q) /\ k \in Nat
      BY <1>1
    <3>2. LastIn(q, i + 1, k, e, K)
      BY <1>1, <2>1, <3>1, TailParts
    <3>3. i + 1 \in 1..k /\ i \in 1..(Len(q) - 1)
      BY <1>1, <3>1
    <3>4. r[i] = q[i + 1]
      BY <1>1, <2>1, <3>3, TailParts
    <3> HIDE DEF r
    <3> QED
      BY <2>4, <3>2, <3>3, <3>4 DEF Shows
  <2>5. Shows(s, r, n - 1, e, K, T)
    <3>1. n \in 1..n
      BY <1>1, <2>1
    <3> QED
      BY <1>2, <2>4, <3>1
  <2>6. CASE o > 0
    <3>1. o \in 1..n /\ o - 1 <= n - 1
      BY <1>1, <2>6
    <3>2. Shows(t, r, o - 1, e, K, T)
      BY <1>2, <2>3, <2>4, <2>6, <3>1
    <3> QED
      BY <2>2, <2>5, <2>6, <3>1, <3>2 DEF Reflected, t
  <2>7. CASE ~(o > 0)
    <3>1. 0 <= n - 1
      BY <1>1, <2>1
    <3> QED
      BY <1>4, <2>2, <2>5, <2>7, <3>1 DEF Reflected
  <2> QED
    BY <2>6, <2>7
<1>7. CASE Reject(d) \/ BreakStream(d)
  <2>1. delivered'[d] = 0 /\ observed'[d] = 0
    BY <1>1, <1>7 DEF Reject, BreakStream, FirestoreTypeOK
  <2> QED
    BY <1>4, <2>1 DEF Reflected
<1>8. CASE Watch(d)
  <2>1. /\ Pending(d)' = q /\ delivered'[d] = n /\ observed'[d] = n
        /\ server'[e] = s /\ cache'[d][e] = s
    BY <1>8 DEF Watch, Pending, FirestoreTypeOK
  <2> QED
    BY <1>1, <1>2, <2>1 DEF Reflected
<1> QED
  BY <1>5, <1>6, <1>7, <1>8

\* A queue that agrees on the value does so without its head, and with more
\* mutations that agree.
LEMMA AgreesParts ==
  ASSUME NEW q \in Seq(Mutation), NEW e, NEW K, NEW T, Agrees(q, e, K, T)
  PROVE  /\ q # <<>> => Agrees(Tail(q), e, K, T)
         /\ \A ms \in Seq(Mutation) : Agrees(ms, e, K, T) => Agrees(q \o ms, e, K, T)
<1>1. ASSUME q # <<>> PROVE Agrees(Tail(q), e, K, T)
  <2>1. Len(q) \in 1..Len(q)
    BY <1>1
  <2>2. \A i \in 1..Len(Tail(q)) : i + 1 \in 1..Len(q) /\ Tail(q)[i] = q[i + 1]
    BY <1>1, <2>1, TailParts
  <2> QED
    BY <2>2 DEF Agrees
<1>2. ASSUME NEW ms \in Seq(Mutation), Agrees(ms, e, K, T) PROVE Agrees(q \o ms, e, K, T)
  <2> DEFINE r == q \o ms
  <2>1. \A i \in 1..Len(r) : \/ i \in 1..Len(q) /\ r[i] = q[i]
                             \/ i - Len(q) \in 1..Len(ms) /\ r[i] = ms[i - Len(q)]
    OBVIOUS
  <2> HIDE DEF r
  <2>2. Agrees(r, e, K, T)
    BY <1>2, <2>1 DEF Agrees
  <2> QED
    BY <2>2 DEF r
<1> QED
  BY <1>1, <1>2

\* A step of the network keeps what the queue of u ends with, unless it is at
\* work on the queue of somebody else who sets the part to something else.
LEMMA NetworkEnds ==
  ASSUME FirestoreTypeOK, NEW d \in Device, NEW u \in Credential, NEW e \in Path,
         NEW K, NEW T, IsPart(K, T), Reflected(d, e, K, T), observed[d] <= delivered[d],
         EndsIn(d, u, e, K, T), u # NoUser, user[d] = u \/ Agrees(Pending(d), e, K, T),
         server[e] = NoDoc => cache[d][e] = NoDoc,
         Deliver(d) \/ Ack(d) \/ Reject(d) \/ BreakStream(d) \/ Watch(d)
  PROVE  EndsIn(d, u, e, K, T)'
<1> DEFINE q == queue[d][u]
           p == Pending(d)
           n == delivered[d]
           o == observed[d]
           s == server[e]
           c == cache[d][e]
           r == queue'[d][u]
           t == server'[e]
           k == cache'[d][e]
           Ends(x) == \E i \in 1..Len(x) : LastIn(x, i, Len(x), e, K) /\ Brings(x[i], T)
<1>1. /\ q \in Seq(Mutation) /\ p \in Seq(Mutation)
      /\ p = queue[d][user[d]] /\ user[d] \in Credential
      /\ n \in Nat /\ n <= Len(p) /\ o \in Nat /\ o <= n
      /\ Len(q) \in Nat /\ Len(p) \in Nat
      /\ s \in MaybeDoc /\ c \in MaybeDoc
  BY PendingType DEF FirestoreTypeOK
<1>2. Shows(s, p, n, e, K, T) /\ Shows(c, p, o, e, K, T)
  BY DEF Reflected
<1>3. Ends(q) \/ (Silent(q, e, K) /\ s \in T /\ c \in T)
  BY DEF EndsIn
<1>4. SUFFICES Ends(r) \/ (Silent(r, e, K) /\ t \in T /\ k \in T)
  BY DEF EndsIn
<1>5. ASSUME NEW m \in Mutation, ~Says(m, e, K), m.path = e, NEW doc \in MaybeDoc, doc \in T
      PROVE  Apply(m, doc) \in T
  BY <1>5 DEF IsPart, Says
<1>6. p = q \/ Agrees(p, e, K, T)
  BY <1>1
<1>7. user[d] = u \/ Agrees(p, e, K, T)
  OBVIOUS
<1>8. CASE Deliver(d)
  <2> DEFINE m == p[n + 1]
  <2>1. /\ n + 1 \in 1..Len(p) /\ m \in Mutation
        /\ PreconditionHolds(m, server[m.path])
        /\ server' = [server EXCEPT ![m.path] = Merge(m, server[m.path])]
        /\ r = q /\ k = c
    <3>1. n < Len(p)
      BY <1>8 DEF Deliver
    <3>2. n + 1 \in 1..Len(p)
      <4> HIDE DEF p, n
      <4> QED
        BY <1>1, <3>1
    <3>3. m \in Mutation
      BY <1>1, <3>2
    <3>4. /\ PreconditionHolds(m, server[m.path])
          /\ server' = [server EXCEPT ![m.path] = Merge(m, server[m.path])]
      BY <1>8 DEF Deliver
    <3>5. r = q /\ k = c
      BY <1>8 DEF Deliver
    <3> QED
      BY <3>2, <3>3, <3>4, <3>5
  <2>2. t = IF m.path = e THEN Apply(m, s) ELSE s
    <3> HIDE DEF m
    <3> QED
      BY <2>1 DEF FirestoreTypeOK, Apply
  <2> HIDE DEF p, q, n, o, s, c, t, r, k, Ends
  <2>3. ASSUME Silent(q, e, K), s \in T PROVE t \in T
    <3>1. Says(m, e, K) => Brings(m, T)
      BY <1>6, <2>1, <2>3 DEF Silent, Agrees
    <3> QED
      BY <1>1, <1>5, <2>1, <2>2, <2>3, <3>1 DEF Brings
  <2> QED
    BY <1>3, <2>1, <2>3
<1>9. CASE Ack(d)
  <2> DEFINE m == p[1]
  <2>0. n > 0
    BY <1>9 DEF Ack
  <2>1. /\ n > 0 /\ p # <<>> /\ n \in 1..Len(p) /\ 1 \in 1..Len(p)
        /\ m \in Mutation /\ Head(p) = m /\ m.path \in Path
    <3> HIDE DEF p, n
    <3>1. n \in 1..Len(p) /\ 1 \in 1..Len(p) /\ p # <<>>
      BY <1>1, <2>0
    <3>2. m \in Mutation /\ Head(p) = m
      BY <1>1, <3>1
    <3> QED
      BY <2>0, <3>1, <3>2 DEF Mutation
  <2>2. r = IF user[d] = u THEN Tail(q) ELSE q
    BY <1>1, <1>9 DEF Ack, FirestoreTypeOK
  <2>3. t = s
    BY <1>9 DEF Ack
  <2>4. k = IF o > 0 THEN c ELSE IF m.path = e THEN Apply(m, c) ELSE c
    <3>1. cache' = IF o > 0 THEN cache
                   ELSE [cache EXCEPT ![d][m.path] = Apply(m, cache[d][m.path])]
      BY <1>9, <2>1 DEF Ack
    <3> HIDE DEF m, o
    <3> QED
      BY <2>1, <3>1 DEF FirestoreTypeOK
  <2> HIDE DEF p, q, n, o, s, c, t, r, k, Ends
  <2>5. ASSUME Says(m, e, K) => Brings(m, T), c \in T PROVE k \in T
    BY <1>1, <1>5, <2>1, <2>4, <2>5 DEF Brings
  <2>6. CASE user[d] # u
    <3>1. Says(m, e, K) => Brings(m, T)
      BY <1>7, <2>1, <2>6 DEF Agrees
    <3> QED
      BY <1>3, <2>2, <2>3, <2>5, <2>6, <3>1
  <2>7. CASE user[d] = u
    <3>1. p = q /\ r = Tail(q) /\ q # <<>> /\ Len(q) \in 1..Len(q)
      BY <1>1, <2>1, <2>2, <2>7 DEF p, q
    <3>2. CASE Silent(q, e, K) /\ s \in T /\ c \in T
      <4>1. ~Says(m, e, K)
        BY <2>1, <3>1, <3>2 DEF Silent
      <4>2. Silent(r, e, K)
        BY <1>1, <3>1, <3>2, TailParts
      <4> QED
        BY <2>3, <2>5, <3>2, <4>1, <4>2
    <3>3. CASE Ends(q)
      <4>1. PICK i \in 1..Len(q) : LastIn(q, i, Len(q), e, K) /\ Brings(q[i], T)
        BY <3>3 DEF Ends
      <4>2. CASE i = 1
        <5>1. Silent(r, e, K)
          BY <1>1, <3>1, <4>1, <4>2, TailParts
        <5>2. \A j \in 1..Len(q) : LastIn(q, 1, j, e, K)
          BY <1>1, <4>1, <4>2 DEF LastIn
        <5>3. s \in T
          BY <1>2, <2>1, <3>1, <4>1, <4>2, <5>2 DEF Shows
        <5>4. CASE o > 0
          <6>1. Shows(c, p, o, e, K, T) /\ 1 \in 1..o
            BY <1>1, <1>2, <5>4
          <6>2. LastIn(q, 1, o, e, K)
            <7>1. o \in 1..Len(q)
              BY <1>1, <3>1, <5>4
            <7> QED
              BY <5>2, <7>1
          <6>3. c \in T
            BY <3>1, <4>1, <4>2, <6>1, <6>2 DEF Shows
          <6> QED
            BY <2>3, <2>4, <5>1, <5>3, <5>4, <6>3
        <5>5. CASE ~(o > 0)
          <6>1. m.path = e /\ Brings(m, T)
            BY <3>1, <4>1, <4>2 DEF LastIn, Says
          <6> QED
            BY <1>1, <2>3, <2>4, <5>1, <5>3, <5>5, <6>1 DEF Brings
        <5> QED
          BY <5>4, <5>5
      <4>3. CASE i # 1
        <5>1. i - 1 \in 1..(Len(q) - 1) /\ (i - 1) + 1 = i
          BY <1>1, <4>3
        <5>2. LastIn(r, i - 1, Len(r), e, K) /\ r[i - 1] = q[i] /\ i - 1 \in 1..Len(r)
          <6>1. Len(r) = Len(q) - 1
            BY <1>1, <3>1, TailParts
          <6>2. r[i - 1] = q[i]
            BY <1>1, <3>1, <5>1, <6>1, TailParts
          <6>3. LastIn(r, i - 1, Len(q) - 1, e, K)
            BY <1>1, <3>1, <4>1, <5>1, TailParts
          <6> QED
            BY <5>1, <6>1, <6>2, <6>3
        <5> QED
          BY <4>1, <5>2 DEF Ends
      <4> QED
        BY <4>2, <4>3
    <3> QED
      BY <1>3, <3>2, <3>3
  <2> QED
    BY <2>6, <2>7
<1>10. CASE Reject(d)
  <2> DEFINE m == p[1]
  <2>1. /\ p # <<>> /\ 1 \in 1..Len(p) /\ m \in Mutation /\ Head(p) = m
        /\ t = s /\ k = c
        /\ user[d] = NoUser \/ (m.op # "set" /\ server[m.path] = NoDoc)
    BY <1>1, <1>10 DEF Reject, PreconditionHolds
  <2>2. r = IF user[d] = u THEN Tail(q) ELSE q
    BY <1>1, <1>10 DEF Reject, FirestoreTypeOK
  <2>3. m.path = e => server[m.path] = s
    OBVIOUS
  <2>4. s = NoDoc => c = NoDoc
    OBVIOUS
  <2> HIDE DEF p, q, n, o, s, c, t, r, k, Ends, m
  <2>5. CASE user[d] # u
    BY <1>3, <2>1, <2>2, <2>5
  <2>6. CASE user[d] = u
    <3>1. /\ p = q /\ r = Tail(q) /\ q # <<>> /\ Len(q) \in 1..Len(q)
          /\ m.op # "set" /\ server[m.path] = NoDoc
      BY <1>1, <2>1, <2>2, <2>6 DEF p, q
    <3>2. CASE Silent(q, e, K) /\ s \in T /\ c \in T
      BY <1>1, <2>1, <3>1, <3>2, TailParts
    <3>3. CASE Ends(q)
      <4>1. PICK i \in 1..Len(q) : LastIn(q, i, Len(q), e, K) /\ Brings(q[i], T)
        BY <3>3 DEF Ends
      <4>2. CASE i = 1
        <5>1. Silent(r, e, K)
          BY <1>1, <3>1, <4>1, <4>2, TailParts
        <5>2. m.path = e /\ m.op \in K
          BY <3>1, <4>1, <4>2 DEF LastIn, Says, m
        <5>3. NoDoc \in T /\ s = NoDoc
          BY <2>3, <3>1, <5>2 DEF IsPart
        <5> QED
          BY <2>1, <2>4, <5>1, <5>3
      <4>3. CASE i # 1
        <5>1. i - 1 \in 1..(Len(q) - 1) /\ (i - 1) + 1 = i
          BY <1>1, <4>3
        <5>2. LastIn(r, i - 1, Len(r), e, K) /\ r[i - 1] = q[i] /\ i - 1 \in 1..Len(r)
          <6>1. Len(r) = Len(q) - 1
            BY <1>1, <3>1, TailParts
          <6>2. r[i - 1] = q[i]
            BY <1>1, <3>1, <5>1, <6>1, TailParts
          <6>3. LastIn(r, i - 1, Len(q) - 1, e, K)
            BY <1>1, <3>1, <4>1, <5>1, TailParts
          <6> QED
            BY <5>1, <6>1, <6>2, <6>3
        <5> QED
          BY <4>1, <5>2 DEF Ends
      <4> QED
        BY <4>2, <4>3
    <3> QED
      BY <1>3, <3>2, <3>3
  <2> QED
    BY <2>5, <2>6
<1>11. CASE BreakStream(d)
  <2>1. r = q /\ t = s /\ k = c
    BY <1>11 DEF BreakStream
  <2> HIDE DEF q, s, c, t, r, k, Ends
  <2> QED
    BY <1>3, <2>1
<1>12. CASE Watch(d)
  <2>1. r = q /\ t = s /\ k = s
    BY <1>12 DEF Watch, FirestoreTypeOK
  <2> HIDE DEF q, s, c, t, r, k, Ends
  <2> QED
    BY <1>3, <2>1
<1> QED
  BY <1>8, <1>9, <1>10, <1>11, <1>12

\* A change of credential and a restart begin the stream anew.
LEMMA ClosedReflects ==
  ASSUME FirestoreTypeOK, NEW d \in Device,
         delivered' = [delivered EXCEPT ![d] = 0],
         observed' = [observed EXCEPT ![d] = 0]
  PROVE  /\ observed'[d] <= delivered'[d]
         /\ \A e \in Path : \A K, T : Reflected(d, e, K, T)'
<1>1. delivered'[d] = 0 /\ observed'[d] = 0
  BY DEF FirestoreTypeOK
<1> QED
  BY <1>1 DEF Reflected, Shows

\* A write adds nothing to what was sent.
LEMMA WriteReflects ==
  ASSUME FirestoreTypeOK, NEW d \in Device, NEW e \in Path, NEW K, NEW T,
         Reflected(d, e, K, T), observed[d] <= delivered[d],
         NEW ms \in Seq(Mutation), WriteLocally(d, ms),
         UNCHANGED <<server, user, delivered, observed, cache>>
  PROVE  Reflected(d, e, K, T)'
<1> DEFINE q == Pending(d)
           n == delivered[d]
           o == observed[d]
<1>1. q \in Seq(Mutation) /\ n \in Nat /\ n <= Len(q) /\ o \in Nat /\ o <= n
      /\ Len(q) \in Nat
  BY PendingType DEF FirestoreTypeOK
<1>2. Pending(d)' = q \o ms
  BY WriteLocallyQueue DEF Pending
<1> HIDE DEF q, n, o
<1>3. ASSUME NEW doc, NEW x \in 0..Len(q), Shows(doc, q, x, e, K, T)
      PROVE  Shows(doc, q \o ms, x, e, K, T)
  <2> SUFFICES ASSUME NEW i \in 1..x, LastIn(q \o ms, i, x, e, K), Brings((q \o ms)[i], T)
               PROVE  doc \in T
    BY DEF Shows
  <2>0. i \in 1..Len(q)
    BY <1>1
  <2>1. LastIn(q, i, x, e, K) /\ (q \o ms)[i] = q[i]
    BY <1>1, <2>0, AppendParts
  <2> QED
    BY <1>3, <2>1 DEF Shows
<1>4. n \in 0..Len(q) /\ o \in 0..Len(q)
  BY <1>1
<1>5. Shows(server[e], q, n, e, K, T) /\ Shows(cache[d][e], q, o, e, K, T)
  BY DEF Reflected, q, n, o
<1>6. Shows(server[e], q \o ms, n, e, K, T) /\ Shows(cache[d][e], q \o ms, o, e, K, T)
  BY <1>3, <1>4, <1>5
<1> QED
  BY <1>2, <1>6 DEF Reflected, n, o

\* So does the queue that a write extends.
LEMMA WriteAgrees ==
  ASSUME FirestoreTypeOK, NEW d \in Device, NEW u \in Credential, NEW e, NEW K, NEW T,
         NEW ms \in Seq(Mutation), WriteLocally(d, ms),
         Agrees(queue[d][u], e, K, T), u # user[d] \/ Agrees(ms, e, K, T)
  PROVE  Agrees(queue'[d][u], e, K, T)
<1> DEFINE q == queue[d][u]
<1>1. q \in Seq(Mutation) /\ Pending(d) = queue[d][user[d]]
  BY DEF FirestoreTypeOK, Pending
<1>2. queue'[d][u] = q \/ (u = user[d] /\ queue'[d][u] = q \o ms)
  BY <1>1, WriteLocallyQueue
<1>3. Agrees(q, e, K, T)
  OBVIOUS
<1> HIDE DEF q
<1> QED
  BY <1>1, <1>2, <1>3, AgreesParts DEF q

\* A write that does not set the part, and one that sets it to the value.
LEMMA WriteEnds ==
  ASSUME FirestoreTypeOK, NEW d \in Device, NEW e \in Path, NEW K, NEW T,
         NEW ms \in Seq(Mutation), WriteLocally(d, ms), UNCHANGED <<server, cache>>
  PROVE  /\ \A u \in Credential :
              EndsIn(d, u, e, K, T) /\ (u # user[d] \/ Silent(ms, e, K)) =>
                EndsIn(d, u, e, K, T)'
         /\ \A u \in Credential :
              Silent(queue[d][u], e, K) /\ (u # user[d] \/ Silent(ms, e, K)) =>
                Silent(queue'[d][u], e, K)
         /\ Len(ms) = 1 /\ Says(ms[1], e, K) /\ Brings(ms[1], T) =>
              \A u \in Credential : u = user[d] => EndsIn(d, u, e, K, T)'
<1> DEFINE q == Pending(d)
           r == q \o ms
           Ends(x) == \E i \in 1..Len(x) : LastIn(x, i, Len(x), e, K) /\ Brings(x[i], T)
<1>1. q \in Seq(Mutation) /\ q = queue[d][user[d]] /\ Len(q) \in Nat
  BY PendingType
<1>2. /\ queue'[d][user[d]] = r
      /\ \A u \in Credential : u # user[d] => queue'[d][u] = queue[d][u]
  BY WriteLocallyQueue
<1>3. \A u \in Credential : EndsIn(d, u, e, K, T) <=>
        \/ Ends(queue[d][u])
        \/ Silent(queue[d][u], e, K) /\ server[e] \in T /\ cache[d][e] \in T
  BY DEF EndsIn
<1>4. \A u \in Credential : EndsIn(d, u, e, K, T)' <=>
        \/ Ends(queue'[d][u])
        \/ Silent(queue'[d][u], e, K) /\ server[e] \in T /\ cache[d][e] \in T
  BY DEF EndsIn
<1> HIDE DEF q, r
<1>5. ASSUME Silent(ms, e, K), Ends(q) PROVE Ends(r)
  <2>1. PICK i \in 1..Len(q) : LastIn(q, i, Len(q), e, K) /\ Brings(q[i], T)
    BY <1>5
  <2>2. i \in 1..Len(r) /\ r[i] = q[i] /\ LastIn(r, i, Len(r), e, K)
    BY <1>1, <1>5, <2>1, AppendParts DEF r
  <2> QED
    BY <2>1, <2>2
<1>6. ASSUME Silent(ms, e, K), Silent(q, e, K) PROVE Silent(r, e, K)
  BY <1>1, <1>6, AppendParts DEF r
<1>7. ASSUME Len(ms) = 1, Says(ms[1], e, K), Brings(ms[1], T) PROVE Ends(r)
  <2>0. 1 \in 1..Len(ms)
    BY <1>7
  <2>1. Len(r) = Len(q) + 1 /\ Len(q) + 1 \in 1..Len(r) /\ r[Len(q) + 1] = ms[1]
    <3>1. Len(r) = Len(q) + Len(ms)
      BY <1>1, AppendParts DEF r
    <3>2. r[Len(q) + 1] = ms[1]
      BY <1>1, <2>0 DEF r
    <3> QED
      BY <1>1, <1>7, <3>1, <3>2
  <2>2. LastIn(r, Len(q) + 1, Len(r), e, K)
    BY <1>1, <1>7, <2>1 DEF LastIn
  <2> QED
    BY <1>7, <2>1, <2>2
<1> HIDE DEF Ends
<1>8. ASSUME NEW u \in Credential, EndsIn(d, u, e, K, T), u # user[d] \/ Silent(ms, e, K)
      PROVE  EndsIn(d, u, e, K, T)'
  BY <1>1, <1>2, <1>3, <1>4, <1>5, <1>6, <1>8
<1>9. ASSUME NEW u \in Credential, Silent(queue[d][u], e, K),
             u # user[d] \/ Silent(ms, e, K)
      PROVE  Silent(queue'[d][u], e, K)
  BY <1>1, <1>2, <1>6, <1>9
<1>10. ASSUME Len(ms) = 1, Says(ms[1], e, K), Brings(ms[1], T),
              NEW u \in Credential, u = user[d]
       PROVE  EndsIn(d, u, e, K, T)'
  BY <1>2, <1>4, <1>7, <1>10
<1> QED
  BY <1>8, <1>9, <1>10
=============================================================================
