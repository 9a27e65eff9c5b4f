------------------------- MODULE ProjectCreationProofs -------------------------
(***************************************************************************)
(* Proofs about ProjectCreation: its types, what its documents, waiting    *)
(* writes and pictures say of the projects that were made, and that a      *)
(* project on whose Done the app was not killed is never lost.             *)
(***************************************************************************)
EXTENDS ProjectCreation, FirestoreProofs

-----------------------------------------------------------------------------
(* The writes of setParticipants *)

Joined(writes, e, people, name) ==
  IF e \in people THEN Append(writes, UnionProject(e, name)) ELSE writes

IsJoins(w, participants, people, name) ==
  /\ w \in [0..Len(participants) -> Seq(Mutation)]
  /\ w[0] = <<>>
  /\ \A n \in 1..Len(participants) :
       w[n] = Joined(w[n - 1], participants[n], people, name)

LEMMA JoinsUnfold ==
  ASSUME NEW d \in Device, form[d].people \subseteq Path, NEW name \in Project,
         NEW q \in Seq(Path)
  PROVE  \E w : /\ IsJoins(w, q, form[d].people, name)
                /\ setParticipants(d, q, name) = w[Len(q)]
<1> DEFINE N == Len(q)
           S == Seq(Mutation)
           I == SUBSET (1..N)
           people == form[d].people
           h == [n \in 1..N |-> [w \in S |-> Joined(w, q[n], people, name)]]
           Folds(it) == it = [s \in I |-> IF s = {} THEN <<>>
                                ELSE Joined(it[s \ {Max(s)}], q[Max(s)], people, name)]
           f == CHOOSE it : Folds(it)
<1>1. N \in Nat /\ <<>> \in S /\ \A n \in 1..N : q[n] \in Path
  OBVIOUS
<1>2. ASSUME NEW n \in 1..N, NEW w \in S
      PROVE  Joined(w, q[n], people, name) \in S
  <2>1. UnionProject(q[n], name) \in Mutation
    BY <1>1, MutationTypes
  <2> QED
    BY <2>1 DEF Joined
<1>3. h \in [1..N -> [S -> S]]
  BY <1>2
<1>4. PICK it \in [I -> S] :
        \A s \in I : it[s] = IF s = {} THEN <<>> ELSE h[Max(s)][it[s \ {Max(s)}]]
  <2> HIDE DEF h, N, S
  <2>1. \E it : IsFold(it, N, S, <<>>, h)
    BY <1>1, <1>3, FoldExists
  <2> QED
    BY <2>1 DEF IsFold
<1>5. Folds(it)
  <2>1. ASSUME NEW s \in I
        PROVE  it[s] = IF s = {} THEN <<>>
                       ELSE Joined(it[s \ {Max(s)}], q[Max(s)], people, name)
    <3>1. CASE s = {}
      BY <1>4, <3>1
    <3>2. CASE s # {}
      <4>1. Max(s) \in 1..N
        BY <1>1, <3>2, GreatestIndex
      <4>2. s \ {Max(s)} \in I
        OBVIOUS
      <4>3. it[s \ {Max(s)}] \in S
        BY <1>4, <4>2
      <4>4. h[Max(s)][it[s \ {Max(s)}]]
              = Joined(it[s \ {Max(s)}], q[Max(s)], people, name)
        BY <4>1, <4>3
      <4> QED
        BY <1>4, <3>2, <4>4
    <3> QED
      BY <3>1, <3>2
  <2>2. it = [s \in I |-> it[s]]
    BY <1>4
  <2> HIDE DEF I, people
  <2> QED
    BY <2>1, <2>2
<1>6. Folds(f)
  <2> HIDE DEF Folds
  <2> QED
    BY <1>5
<1>7. setParticipants(d, q, name) = f[1..N]
  <2>1. DOMAIN q = 1..N
    OBVIOUS
  <2> QED
    BY <2>1 DEF setParticipants, FoldLeft, MapThenFoldSet, Joined
<1>8. ASSUME NEW s \in I
      PROVE  /\ s = {} => f[s] = <<>>
             /\ s # {} /\ f[s \ {Max(s)}] \in S =>
                  f[s] = h[Max(s)][f[s \ {Max(s)}]]
  <2>1. s # {} => Max(s) \in 1..N
    BY <1>1, GreatestIndex
  <2>2. f[s] = IF s = {} THEN <<>>
               ELSE Joined(f[s \ {Max(s)}], q[Max(s)], people, name)
    <3> HIDE DEF f
    <3> QED
      BY <1>6
  <2> HIDE DEF f, S
  <2> QED
    BY <2>1, <2>2
<1>9. PICK w : IsRun(w, N, S, <<>>, h) /\ w[N] = f[1..N]
  <2> HIDE DEF f, h, N, S
  <2>1. FoldsBy(f, N, S, <<>>, h)
    BY <1>8 DEF FoldsBy
  <2>2. \E w : IsRun(w, N, S, <<>>, h) /\ w[N] = f[1..N]
    BY <1>1, <1>3, <2>1, FoldRuns
  <2> QED
    BY <2>2
<1> HIDE DEF f
<1>10. /\ w \in [0..N -> S] /\ w[0] = <<>>
       /\ \A n \in 1..N : w[n] = h[n][w[n - 1]]
  BY <1>9 DEF IsRun
<1>11. ASSUME NEW n \in 1..N PROVE w[n] = Joined(w[n - 1], q[n], people, name)
  <2>1. n - 1 \in 0..N
    BY <1>1
  <2>2. w[n - 1] \in S
    BY <1>10, <2>1
  <2> HIDE DEF S
  <2> QED
    BY <1>10, <2>2
<1> QED
  BY <1>7, <1>9, <1>10, <1>11 DEF IsJoins

\* The writes are joins of listed participants, and none of these is left out.
JoinsOf(writes, people, name) ==
  \A j \in 1..Len(writes) : \E e \in people : writes[j] = UnionProject(e, name)

HasJoin(writes, e, name) ==
  \E j \in 1..Len(writes) : writes[j] = UnionProject(e, name)

LEMMA JoinedMore ==
  ASSUME NEW writes \in Seq(Mutation), NEW people \in SUBSET Path,
         NEW name \in Project, NEW e \in Path
  PROVE  LET more == Joined(writes, e, people, name) IN
         /\ more \in Seq(Mutation)
         /\ JoinsOf(writes, people, name) => JoinsOf(more, people, name)
         /\ \A p : HasJoin(writes, p, name) => HasJoin(more, p, name)
         /\ e \in people => HasJoin(more, e, name)
<1> DEFINE m == UnionProject(e, name)
           more == Append(writes, m)
<1>0. m \in Mutation
  BY MutationTypes
<1>1. /\ more \in Seq(Mutation) /\ Len(writes) \in Nat
      /\ Len(more) = Len(writes) + 1 /\ more[Len(writes) + 1] = m
      /\ \A j \in 1..Len(writes) : more[j] = writes[j]
  <2> HIDE DEF m
  <2> QED
    BY <1>0
<1>2. CASE e \notin people
  BY <1>2 DEF Joined
<1>3. CASE e \in people
  <2>1. Joined(writes, e, people, name) = more
    BY <1>3 DEF Joined
  <2>2. m = UnionProject(e, name)
    OBVIOUS
  <2> HIDE DEF m, more
  <2>3. \A j \in 1..Len(more) : j \in 1..Len(writes) \/ more[j] = m
    BY <1>1
  <2>4. JoinsOf(writes, people, name) => JoinsOf(more, people, name)
    BY <1>1, <1>3, <2>2, <2>3 DEF JoinsOf
  <2>5. \A j \in 1..Len(writes) : j \in 1..Len(more)
    BY <1>1
  <2>6. \A p : HasJoin(writes, p, name) => HasJoin(more, p, name)
    BY <1>1, <2>5 DEF HasJoin
  <2>7. HasJoin(more, e, name)
    BY <1>1, <2>2 DEF HasJoin
  <2> QED
    BY <1>1, <2>1, <2>4, <2>6, <2>7
<1> QED
  BY <1>2, <1>3

LEMMA JoinsMade ==
  ASSUME NEW d \in Device, form[d].people \in SUBSET Path, NEW name \in Project,
         NEW q \in Seq(Path)
  PROVE  /\ setParticipants(d, q, name) \in Seq(Mutation)
         /\ JoinsOf(setParticipants(d, q, name), form[d].people, name)
         /\ \A i \in 1..Len(q) : q[i] \in form[d].people =>
              HasJoin(setParticipants(d, q, name), q[i], name)
<1> DEFINE N == Len(q)
<1>1. PICK people : people = form[d].people
  OBVIOUS
<1>2. PICK w : IsJoins(w, q, people, name) /\ setParticipants(d, q, name) = w[N]
  BY <1>1, JoinsUnfold
<1>3. people \in SUBSET Path /\ N \in Nat /\ \A n \in 1..N : q[n] \in Path
  BY <1>1
<1>4. /\ w \in [0..N -> Seq(Mutation)] /\ w[0] = <<>>
      /\ \A n \in 1..N : w[n] = Joined(w[n - 1], q[n], people, name)
  BY <1>2 DEF IsJoins
<1> DEFINE Good(n) == /\ JoinsOf(w[n], people, name)
                      /\ \A i \in 1..n : q[i] \in people => HasJoin(w[n], q[i], name)
           T == {n \in Nat : n <= N => Good(n)}
<1>5. 0 \in T
  BY <1>4 DEF JoinsOf
<1>6. ASSUME NEW n \in Nat, n \in T PROVE n + 1 \in T
  <2> SUFFICES ASSUME n + 1 <= N PROVE Good(n + 1)
    OBVIOUS
  <2>1. n + 1 \in 1..N /\ (n + 1) - 1 = n /\ n \in 0..N /\ Good(n)
    BY <1>3, <1>6
  <2> HIDE DEF N
  <2>2. w[n] \in Seq(Mutation) /\ q[n + 1] \in Path
        /\ w[n + 1] = Joined(w[n], q[n + 1], people, name)
    BY <1>3, <1>4, <2>1
  <2>3. /\ JoinsOf(w[n], people, name) => JoinsOf(w[n + 1], people, name)
        /\ \A p : HasJoin(w[n], p, name) => HasJoin(w[n + 1], p, name)
        /\ q[n + 1] \in people => HasJoin(w[n + 1], q[n + 1], name)
    BY <1>3, <2>2, JoinedMore
  <2>4. \A i \in 1..(n + 1) : i \in 1..n \/ i = n + 1
    OBVIOUS
  <2> QED
    BY <2>1, <2>3, <2>4
<1>7. N \in T
  <2> HIDE DEF T
  <2>1. Nat \subseteq T
    BY <1>5, <1>6, NatInSet
  <2> QED
    BY <1>3, <2>1
<1>8. Good(N) /\ N \in 0..N
  BY <1>3, <1>7
<1> QED
  BY <1>1, <1>2, <1>4, <1>8

-----------------------------------------------------------------------------
(* What documents, writes and pictures say of the projects that were made.    *)
(* The inductive invariant of TypeOK and PicturesMatchNames.                  *)

MadeNames == {made[id].name : id \in {k \in Id : made[k] # NotMade}}

IsPictureOf(id, url) == url # NoPicture => owner[url] = made[id].name

ProjectDocs(id) ==
  {doc \in MaybeDoc : doc # NoDoc =>
     made[id] # NotMade /\ doc.text = made[id].name /\ IsPictureOf(id, doc.picture)}
ProfileDocs(e) ==
  {doc \in MaybeDoc : doc # NoDoc => e \in User /\ doc.projects \subseteq MadeNames}
Docs == [p \in Path |-> IF p \in Id THEN ProjectDocs(p) ELSE ProfileDocs(p)]

Saves == {m \in Mutation : m.op = "set" /\ m.path \in Id /\ made[m.path] # NotMade
                           /\ m.value = ProjectDoc(made[m.path].name)}
PictureUpdates ==
  {m \in Mutation : m.op = "picture" /\ m.path \in Id /\ made[m.path] # NotMade
                    /\ IsPictureOf(m.path, m.value.picture)}
Joins == {m \in Mutation : m.op = "join" /\ m.path \in User
                           /\ m.value.projects \subseteq MadeNames}
Writes == Saves \cup PictureUpdates \cup Joins

HandedAreWrites == \A d \in Device : \A i \in 1..Len(handed[d]) : handed[d][i] \in Writes
UploadsOwned == \A d \in Device : \A up \in uploads[d] : owner[up.image] = up.name
ObjectsOwned == \A n \in Project : object[n] # NoPicture => owner[object[n]] = n
CallsOwned ==
  \A d \in Device : \A call \in urlCalls[d] :
    /\ made[call.id] # NotMade /\ made[call.id].name = call.name
    /\ call.reply \in Picture => IsPictureOf(call.id, call.reply)
PeopleAreUsers == \A d \in Device : form[d] # NoForm => form[d].people \subseteq User

KindsInv ==
  /\ DocsWithin(Docs, Writes)
  /\ HandedAreWrites
  /\ UploadsOwned
  /\ ObjectsOwned
  /\ CallsOwned
  /\ PeopleAreUsers

LEMMA MadeType ==
  ASSUME TypeOK, NEW id \in Id, made[id] # NotMade
  PROVE  made[id] \in Made /\ made[id].name \in Project /\ made[id].joined \subseteq Email
BY DEF TypeOK, Made

LEMMA ProjectDocType ==
  ASSUME NEW name \in Project
  PROVE  /\ ProjectDoc(name) \in Doc
         /\ ProjectDoc(name).text = name
         /\ ProjectDoc(name).picture = NoPicture
         /\ ProjectDoc(name).projects = {}
BY FirestoreAssumption, ProjectAssumption DEF ProjectDoc, BlankDoc, Doc

LEMMA WritesClosed ==
  ASSUME TypeOK
  PROVE  Closed(Docs, Writes)
<1> SUFFICES ASSUME NEW m \in Writes, NEW doc \in MaybeDoc, doc \in Docs[m.path]
             PROVE  Apply(m, doc) \in Docs[m.path]
  BY DEF Closed
<1>1. m \in Mutation
  BY DEF Writes, Saves, PictureUpdates, Joins
<1>2. Apply(m, doc) \in MaybeDoc
  BY <1>1, ApplyType
<1>3. m.path \in Path /\ NoDoc \notin Doc
  BY <1>1, FirestoreAssumption DEF Mutation
<1>4. CASE m \in Saves
  <2>1. m.path \in Id /\ made[m.path] # NotMade /\ m.op = "set"
        /\ m.value = ProjectDoc(made[m.path].name)
    BY <1>4 DEF Saves
  <2>2. /\ m.value.text = made[m.path].name
        /\ m.value.picture = NoPicture
    BY <2>1, MadeType, ProjectDocType
  <2>3. Apply(m, doc) = m.value
    BY <2>1 DEF Apply, PreconditionHolds, Merge
  <2> QED
    BY <1>2, <1>3, <2>1, <2>2, <2>3 DEF Docs, ProjectDocs, IsPictureOf
<1>5. CASE m \in PictureUpdates
  <2>1. m.path \in Id /\ made[m.path] # NotMade /\ m.op = "picture"
        /\ IsPictureOf(m.path, m.value.picture)
    BY <1>5 DEF PictureUpdates
  <2>2. doc \in ProjectDocs(m.path)
    BY <1>3, <2>1 DEF Docs
  <2>3. CASE doc = NoDoc
    <3>1. Apply(m, doc) = NoDoc
      BY <2>1, <2>3 DEF Apply, PreconditionHolds
    <3> QED
      BY <2>2, <2>3, <3>1, <1>3, <2>1 DEF Docs
  <2>4. CASE doc # NoDoc
    <3>1. doc \in Doc
      BY <2>4 DEF MaybeDoc
    <3>2. Apply(m, doc) = [doc EXCEPT !.picture = m.value.picture]
      BY <2>1, <2>4 DEF Apply, PreconditionHolds, Merge
    <3>3. Apply(m, doc).text = doc.text /\ Apply(m, doc).picture = m.value.picture
      BY <3>1, <3>2 DEF Doc
    <3> QED
      BY <1>2, <1>3, <2>1, <2>2, <2>4, <3>3 DEF Docs, ProjectDocs
  <2> QED
    BY <2>3, <2>4
<1>6. CASE m \in Joins
  <2>1. m.path \in User /\ m.path \notin Id /\ m.op = "join"
        /\ m.value.projects \subseteq MadeNames
    BY <1>6, ProjectAssumption DEF Joins, Email
  <2>2. doc \in ProfileDocs(m.path)
    BY <1>3, <2>1 DEF Docs
  <2>3. CASE doc = NoDoc
    <3>1. Apply(m, doc) = NoDoc
      BY <2>1, <2>3 DEF Apply, PreconditionHolds
    <3> QED
      BY <2>2, <2>3, <3>1, <1>3, <2>1 DEF Docs
  <2>4. CASE doc # NoDoc
    <3>1. doc \in Doc /\ doc.projects \subseteq MadeNames
      BY <2>2, <2>4 DEF MaybeDoc, ProfileDocs
    <3>2. Apply(m, doc) = [doc EXCEPT !.projects = doc.projects \cup m.value.projects]
      BY <2>1, <2>4 DEF Apply, PreconditionHolds, Merge
    <3>3. Apply(m, doc).projects = doc.projects \cup m.value.projects
      BY <3>1, <3>2 DEF Doc
    <3> QED
      BY <1>2, <1>3, <2>1, <3>1, <3>3 DEF Docs, ProfileDocs
  <2> QED
    BY <2>3, <2>4
<1> QED
  BY <1>4, <1>5, <1>6 DEF Writes

-----------------------------------------------------------------------------
(* Types *)

LEMMA SelectionType ==
  ASSUME NEW offered, offered \subseteq Email, NEW q \in Selection(offered)
  PROVE  q \in Seq(Email)
<1>1. CASE q = <<>>
  BY <1>1
<1>2. CASE q # <<>>
  <2>1. PICK n \in 1..MaxParticipants : q \in [1..n -> offered]
    BY <1>2 DEF Selection
  <2>2. n \in Nat /\ q \in [1..n -> Email]
    BY <2>1, ProjectAssumption
  <2> QED
    BY <2>2
<1> QED
  BY <1>1, <1>2

\* What Done hands to the client.
DoneWrites(d, id, name, participants) ==
  setParticipants(d, participants, name) \o <<SetDoc(id, ProjectDoc(name))>>

LEMMA DoneWritesType ==
  ASSUME TypeOK, NEW d \in Device, form[d] # NoForm, NEW id \in Id,
         NEW name \in Project, NEW participants \in Seq(Email)
  PROVE  LET joins == setParticipants(d, participants, name)
             writes == DoneWrites(d, id, name, participants)
         IN /\ joins \in Seq(Mutation)
            /\ writes \in Seq(Mutation)
            /\ Len(writes) = Len(joins) + 1
            /\ writes[Len(writes)] = SetDoc(id, ProjectDoc(name))
            /\ \A i \in 1..Len(joins) : writes[i] = joins[i]
            /\ JoinsOf(joins, form[d].people, name)
            /\ \A i \in 1..Len(participants) : participants[i] \in form[d].people =>
                 HasJoin(joins, participants[i], name)
<1>1. form[d] \in Form
  BY DEF TypeOK
<1>2. form[d].people \in SUBSET Path /\ participants \in Seq(Path)
  BY <1>1 DEF Form, Email
<1>3. SetDoc(id, ProjectDoc(name)) \in Mutation
  BY ProjectDocType, MutationTypes, ProjectAssumption
<1> DEFINE joins == setParticipants(d, participants, name)
           save == SetDoc(id, ProjectDoc(name))
<1>4. /\ joins \in Seq(Mutation)
      /\ JoinsOf(joins, form[d].people, name)
      /\ \A i \in 1..Len(participants) : participants[i] \in form[d].people =>
           HasJoin(joins, participants[i], name)
  BY <1>2, JoinsMade
<1>5. DoneWrites(d, id, name, participants) = joins \o <<save>>
  BY DEF DoneWrites
<1> HIDE DEF joins, save
<1>6. /\ joins \o <<save>> \in Seq(Mutation)
      /\ Len(joins \o <<save>>) = Len(joins) + 1
      /\ (joins \o <<save>>)[Len(joins \o <<save>>)] = save
      /\ \A i \in 1..Len(joins) : (joins \o <<save>>)[i] = joins[i]
  BY <1>3, <1>4 DEF save
<1> QED
  BY <1>4, <1>5, <1>6 DEF joins, save

LEMMA DoneType ==
  ASSUME TypeOK, NEW d \in Device, NEW id \in Id, NEW name \in Project,
         NEW participants \in Seq(Email), NEW image \in Picture,
         Done(d, id, name, participants, image)
  PROVE  /\ TypeOK'
         /\ handed' = [handed EXCEPT ![d] =
              handed[d] \o DoneWrites(d, id, name, participants)]
<1>1. form[d] \in Form /\ handed[d] \in Seq(Mutation)
  BY DEF TypeOK, Done
<1> DEFINE joins == setParticipants(d, participants, name)
           save == SetDoc(id, ProjectDoc(name))
           writes == DoneWrites(d, id, name, participants)
<1>2. joins \in Seq(Mutation) /\ writes \in Seq(Mutation) /\ writes = joins \o <<save>>
  BY DoneWritesType DEF Done, DoneWrites
<1>3. save \in Mutation
  BY ProjectDocType, MutationTypes, ProjectAssumption
<1>4. handed' = [handed EXCEPT ![d] = handed[d] \o joins \o <<save>>]
  BY DEF Done
<1> HIDE DEF joins, save, writes
<1>5. handed[d] \o joins \o <<save>> = handed[d] \o writes
      /\ handed[d] \o writes \in Seq(Mutation)
  <2> DEFINE old == handed[d]
             last == <<save>>
  <2>1. old \in Seq(Mutation) /\ last \in Seq(Mutation) /\ writes = joins \o last
    BY <1>1, <1>2, <1>3
  <2>2. handed[d] \o joins \o <<save>> = (old \o joins) \o last
        /\ handed[d] \o writes = old \o writes
    OBVIOUS
  <2> HIDE DEF old, last
  <2>3. (old \o joins) \o last = old \o (joins \o last)
    BY <1>2, <2>1, ConcatAssociative
  <2>4. old \o writes \in Seq(Mutation)
    BY <1>2, <2>1
  <2> QED
    BY <2>1, <2>2, <2>3, <2>4, Zenon
<1>6. handed' = [handed EXCEPT ![d] = handed[d] \o writes]
      /\ handed' \in [Device -> Seq(Mutation)]
  BY <1>4, <1>5 DEF TypeOK
<1>7. uploads' \in [Device -> SUBSET Upload]
  <2>1. [name |-> name, image |-> image] \in Upload
    BY DEF Upload
  <2>2. uploads' = [uploads EXCEPT ![d] = @ \cup {[name |-> name, image |-> image]}]
    BY DEF Done
  <2> QED
    BY <2>1, <2>2 DEF TypeOK
<1>8. urlCalls' \in [Device -> SUBSET UrlCall]
  <2>1. [id |-> id, name |-> name, reply |-> NoUrl] \in UrlCall
    BY DEF UrlCall
  <2>2. urlCalls' = [urlCalls EXCEPT ![d] =
          @ \cup {[id |-> id, name |-> name, reply |-> NoUrl]}]
    BY DEF Done
  <2> QED
    BY <2>1, <2>2 DEF TypeOK
<1>9. made' \in [Id -> Made \cup {NotMade}]
  <2> DEFINE joined == {participants[i] : i \in 1..Len(participants)} \cap form[d].people
  <2>1. joined \subseteq Email
    BY <1>1 DEF Form
  <2>2. made' = [made EXCEPT ![id] = [name |-> name, joined |-> joined]]
    BY DEF Done
  <2> HIDE DEF joined
  <2>3. [name |-> name, joined |-> joined] \in Made
    BY <2>1 DEF Made
  <2> QED
    BY <2>2, <2>3 DEF TypeOK
<1>10. owner' \in [Picture -> Project \cup {NoOwner}]
  BY DEF Done, TypeOK
<1>11. form' \in [Device -> Form \cup {NoForm}]
  BY DEF Done, TypeOK
<1>12. FirestoreTypeOK' /\ object' \in [Project -> Picture] /\ cut' \in SUBSET Id
  BY DEF Done, TypeOK, FirestoreTypeOK, firestoreVars, Pending
<1> QED
  BY <1>6, <1>7, <1>8, <1>9, <1>10, <1>11, <1>12 DEF TypeOK, writes

\* The state of the form is changed by what the views report and by the user.
LEMMA FormType ==
  ASSUME TypeOK, KindsInv, NEW d \in Device,
         \/ ShowProjects(d) \/ ShowProfiles(d) \/ ListParticipants(d)
         \/ Rebuild(d) \/ OpenForm(d) \/ Cancel(d)
  PROVE  TypeOK'
<1>1. form[d] \in Form \cup {NoForm} /\ form \in [Device -> Form \cup {NoForm}]
  BY DEF TypeOK
<1>2. SUFFICES form' \in [Device -> Form \cup {NoForm}]
  <2>1. UNCHANGED <<firestoreVars, uploads, urlCalls, handed, object, historyVars>>
    BY DEF ShowProjects, ShowProfiles, ListParticipants, Rebuild, OpenForm, Cancel
  <2> QED
    BY <1>2, <2>1 DEF TypeOK, FirestoreTypeOK, firestoreVars, historyVars, Pending
<1>3. CASE ShowProjects(d)
  <2> DEFINE names == {LocalView(d, id).text : id \in {k \in Id : LocalView(d, k) # NoDoc}}
  <2>1. names \subseteq Project
    <3> SUFFICES ASSUME NEW id \in Id, LocalView(d, id) # NoDoc
                 PROVE  LocalView(d, id).text \in Project
      OBVIOUS
    <3>1. LocalView(d, id) \in MaybeDoc \cap Docs[id]
      BY WritesClosed, LocalViewWithin, ProjectAssumption DEF TypeOK, KindsInv
    <3>2. LocalView(d, id) \in ProjectDocs(id)
      BY <3>1, ProjectAssumption DEF Docs
    <3> QED
      BY <3>2, MadeType DEF ProjectDocs
  <2>2. form' = [form EXCEPT ![d].names = names] /\ form[d] # NoForm
    BY <1>3 DEF ShowProjects
  <2> HIDE DEF names
  <2>3. form[d] \in Form
    BY <1>1, <2>2
  <2>4. [form[d] EXCEPT !.names = names] \in Form
    BY <2>1, <2>3 DEF Form
  <2> QED
    BY <1>1, <2>2, <2>4
<1>4. CASE ShowProfiles(d)
  <2> DEFINE people == {e \in Email : LocalView(d, e) # NoDoc}
  <2>1. form' = [form EXCEPT ![d].people = people] /\ form[d] # NoForm
    BY <1>4 DEF ShowProfiles
  <2>2. people \subseteq Email
    OBVIOUS
  <2> HIDE DEF people
  <2>3. [form[d] EXCEPT !.people = people] \in Form
    BY <1>1, <2>1, <2>2 DEF Form
  <2> QED
    BY <1>1, <2>1, <2>3
<1>5. CASE ListParticipants(d)
  <2>1. form' = [form EXCEPT ![d].offered = form[d].offered \cup form[d].people]
        /\ form[d] # NoForm
    BY <1>5 DEF ListParticipants
  <2>2. form[d] \in Form
    BY <1>1, <2>1
  <2>3. [form[d] EXCEPT !.offered = form[d].offered \cup form[d].people] \in Form
    BY <2>2 DEF Form
  <2> QED
    BY <1>1, <2>1, <2>3
<1>6. CASE Rebuild(d)
  <2>1. form' = [form EXCEPT ![d] = [form[d] EXCEPT !.listening = FALSE, !.names = {},
                                                    !.people = {}]]
        /\ form[d] # NoForm
    BY <1>6 DEF Rebuild
  <2>2. form[d] \in Form
    BY <1>1, <2>1
  <2>3. [form[d] EXCEPT !.listening = FALSE, !.names = {}, !.people = {}] \in Form
    BY <2>2 DEF Form
  <2> QED
    BY <1>1, <2>1, <2>3
<1>7. CASE OpenForm(d)
  BY <1>1, <1>7 DEF OpenForm, NewForm, Form
<1>8. CASE Cancel(d)
  BY <1>1, <1>8 DEF Cancel
<1> QED
  BY <1>3, <1>4, <1>5, <1>6, <1>7, <1>8

\* A step that takes the client's part of the state to another one of its type
\* and changes nothing else.
LEMMA FirestoreOnlyType ==
  ASSUME TypeOK, FirestoreTypeOK', UNCHANGED <<viewVars, handed, object, historyVars>>
  PROVE  TypeOK'
BY DEF TypeOK, viewVars, historyVars

LEMMA NetworkType ==
  ASSUME TypeOK, NEW d \in Device,
         Network(Deliver(d) \/ Ack(d) \/ Reject(d) \/ Watch(d)) \/ Network(BreakStream(d))
  PROVE  TypeOK'
<1>1. FirestoreTypeOK /\ UNCHANGED <<viewVars, handed, object, historyVars>>
      /\ (Deliver(d) \/ Ack(d) \/ Reject(d) \/ Watch(d) \/ BreakStream(d))
  BY DEF Network, TypeOK
<1>2. BreakStream(d) => FirestoreTypeOK'
  BY <1>1, StreamClosedType DEF BreakStream
<1>3. FirestoreTypeOK'
  BY <1>1, <1>2, DeliverType, AckType, RejectType, WatchType
<1> QED
  BY <1>1, <1>3, FirestoreOnlyType

LEMMA CredentialStepType ==
  ASSUME TypeOK, NEW d \in Device, (\E u \in User : SignIn(d, u)) \/ SignOut(d)
  PROVE  TypeOK'
<1>1. PICK u \in Credential :
        ChangeCredential(d, u) /\ UNCHANGED <<server, queue, cache, viewVars, handed,
                                              object, historyVars>>
  BY DEF SignIn, SignOut, Credential
<1>2. FirestoreTypeOK /\ queue' \in [Device -> [Credential -> Seq(Mutation)]]
  BY <1>1 DEF TypeOK, FirestoreTypeOK
<1>3. FirestoreTypeOK'
  BY <1>1, <1>2, ChangeCredentialType
<1> QED
  BY <1>1, <1>3, FirestoreOnlyType

LEMMA RestartType ==
  ASSUME TypeOK, HandedAreWrites, NEW d \in Device, Restart(d)
  PROVE  TypeOK'
<1>1. FirestoreTypeOK'
  BY StreamClosedType DEF Restart, TypeOK
<1>2. ASSUME NEW i \in 1..Len(handed[d]), handed[d][i].op = "set"
      PROVE  handed[d][i].path \in Id
  <2>1. handed[d][i] \in Saves
    BY <1>2 DEF HandedAreWrites, Writes, PictureUpdates, Joins
  <2> QED
    BY <2>1 DEF Saves
<1>3. cut' \in SUBSET Id
  BY <1>2 DEF Restart, TypeOK
<1>4. /\ form' \in [Device -> Form \cup {NoForm}]
      /\ handed' \in [Device -> Seq(Mutation)]
      /\ uploads' \in [Device -> SUBSET Upload]
      /\ urlCalls' \in [Device -> SUBSET UrlCall]
  <2>1. handed' = [handed EXCEPT ![d] = <<>>] /\ <<>> \in Seq(Mutation)
    BY DEF Restart
  <2>2. handed' \in [Device -> Seq(Mutation)]
    BY <2>1 DEF TypeOK
  <2> QED
    BY <2>2 DEF Restart, TypeOK
<1> QED
  BY <1>1, <1>3, <1>4 DEF Restart, TypeOK

LEMMA PersistType ==
  ASSUME TypeOK, NEW d \in Device, Persist(d)
  PROVE  /\ TypeOK'
         /\ Head(handed[d]) \in Mutation
         /\ <<Head(handed[d])>> \in Seq(Mutation)
<1>1. handed[d] \in Seq(Mutation) /\ handed[d] # <<>>
  BY DEF Persist, TypeOK
<1>2. Head(handed[d]) \in Mutation /\ Tail(handed[d]) \in Seq(Mutation)
  BY <1>1
<1>3. <<Head(handed[d])>> \in Seq(Mutation)
  BY <1>2
<1>4. FirestoreTypeOK'
  BY <1>3, WriteLocallyType DEF Persist, TypeOK
<1>5. handed' \in [Device -> Seq(Mutation)]
  BY <1>2 DEF Persist, TypeOK
<1> QED
  BY <1>2, <1>3, <1>4, <1>5 DEF Persist, TypeOK, viewVars, historyVars

LEMMA ImageStepType ==
  ASSUME TypeOK, NEW d \in Device, NEW up \in uploads[d],
         StoreImage(d, up) \/ UploadFailed(d, up)
  PROVE  TypeOK'
<1>1. up \in Upload
  BY DEF TypeOK
<1>2. UNCHANGED <<firestoreVars, form, urlCalls, handed, historyVars>>
      /\ uploads' = [uploads EXCEPT ![d] = @ \ {up}]
      /\ (object' = object \/ object' = [object EXCEPT ![up.name] = up.image])
  BY DEF StoreImage, UploadFailed
<1>3. FirestoreTypeOK'
  BY <1>2 DEF TypeOK, FirestoreTypeOK, firestoreVars, Pending
<1>4. uploads' \in [Device -> SUBSET Upload]
  BY <1>2 DEF TypeOK
<1>5. object' \in [Project -> Picture]
  BY <1>1, <1>2 DEF TypeOK, Upload
<1> QED
  BY <1>2, <1>3, <1>4, <1>5 DEF TypeOK, historyVars

LEMMA UrlStepType ==
  ASSUME TypeOK, NEW d \in Device, NEW call \in urlCalls[d],
         AnswerUrl(d, call) \/ RetryUrl(d, call) \/ UrlReceived(d, call)
  PROVE  TypeOK'
<1>1. call \in UrlCall /\ call.id \in Id /\ call.name \in Project
  BY DEF TypeOK, UrlCall
<1>2. FirestoreTypeOK' /\ UNCHANGED <<form, uploads, object, historyVars>>
  BY DEF AnswerUrl, RetryUrl, UrlReceived, TypeOK, FirestoreTypeOK, firestoreVars, Pending
<1>3. CASE AnswerUrl(d, call) \/ RetryUrl(d, call)
  <2>1. PICK reply \in Picture \cup {NoUrl, UrlError} :
          urlCalls' = [urlCalls EXCEPT ![d] =
            (@ \ {call}) \cup {[call EXCEPT !.reply = reply]}]
    <3>1. object[call.name] \in Picture
      BY <1>1 DEF TypeOK
    <3> QED
      BY <1>3, <3>1 DEF AnswerUrl, RetryUrl
  <2>2. [call EXCEPT !.reply = reply] \in UrlCall
    BY <1>1 DEF UrlCall
  <2>3. urlCalls' \in [Device -> SUBSET UrlCall]
    BY <2>1, <2>2 DEF TypeOK
  <2> QED
    BY <1>2, <1>3, <2>3 DEF TypeOK, historyVars, AnswerUrl, RetryUrl
<1>4. CASE UrlReceived(d, call)
  <2>1. UpdatePicture(call.id, call.reply) \in Mutation
    BY <1>1, <1>4, MutationTypes, ProjectAssumption DEF UrlReceived
  <2>2. handed' = [handed EXCEPT ![d] =
          Append(handed[d], UpdatePicture(call.id, call.reply))]
    BY <1>4 DEF UrlReceived
  <2>3. Append(handed[d], UpdatePicture(call.id, call.reply)) \in Seq(Mutation)
    BY <2>1 DEF TypeOK
  <2>4. handed' \in [Device -> Seq(Mutation)]
    BY <2>2, <2>3 DEF TypeOK
  <2>5. urlCalls' \in [Device -> SUBSET UrlCall]
    BY <1>4 DEF UrlReceived, TypeOK
  <2> QED
    BY <1>2, <1>4, <2>4, <2>5 DEF TypeOK, historyVars
<1> QED
  BY <1>3, <1>4

LEMMA FreshIdType ==
  ASSUME \E id \in Id : made[id] = NotMade
  PROVE  FreshId \in Id /\ made[FreshId] = NotMade
BY DEF FreshId

\* A step of Next, with the participants as a sequence of emails.
LEMMA Steps ==
  ASSUME TypeOK, Next
  PROVE  \E d \in Device :
           \/ (\E u \in User : SignIn(d, u)) \/ SignOut(d)
           \/ \/ ShowProjects(d) \/ ShowProfiles(d) \/ ListParticipants(d)
              \/ Rebuild(d) \/ OpenForm(d) \/ Cancel(d)
           \/ \E id \in Id, name \in Project, participants \in Seq(Email),
                 image \in Picture : Done(d, id, name, participants, image)
           \/ Restart(d)
           \/ Persist(d)
           \/ \E up \in uploads[d] : StoreImage(d, up) \/ UploadFailed(d, up)
           \/ \E call \in urlCalls[d] :
                AnswerUrl(d, call) \/ RetryUrl(d, call) \/ UrlReceived(d, call)
           \/ Network(Deliver(d) \/ Ack(d) \/ Reject(d) \/ Watch(d))
           \/ Network(BreakStream(d))
<1>1. PICK d \in Device : UserStep(d) \/ Setback(d) \/ Loss(d) \/ SystemStep(d)
  BY DEF Next
<1>2. CASE UserStep(d)
  <2>1. ASSUME form[d] # NoForm, \E id \in Id : made[id] = NotMade,
               NEW name \in Project, NEW q \in Selection(form[d].offered),
               NEW image \in Picture, Done(d, FreshId, name, q, image)
        PROVE  \E id \in Id, n \in Project, participants \in Seq(Email),
                  i \in Picture : Done(d, id, n, participants, i)
    <3>1. form[d].offered \subseteq Email
      BY <2>1 DEF TypeOK, Form
    <3>2. q \in Seq(Email) /\ FreshId \in Id
      BY <2>1, <3>1, SelectionType, FreshIdType
    <3> QED
      BY <2>1, <3>2
  <2> QED
    BY <1>2, <2>1 DEF UserStep
<1> QED
  BY <1>1, <1>2 DEF Setback, Loss, SystemStep

LEMMA StepType ==
  ASSUME TypeOK, KindsInv, [Next]_vars
  PROVE  TypeOK'
<1>1. CASE Next
  <2> HandedAreWrites
    BY DEF KindsInv
  <2> QED
    BY <1>1, Steps, CredentialStepType, FormType, DoneType, RestartType, PersistType,
       ImageStepType, UrlStepType, NetworkType
<1>2. CASE UNCHANGED vars
  BY <1>2 DEF vars, firestoreVars, viewVars, historyVars, TypeOK, FirestoreTypeOK, Pending
<1> QED
  BY <1>1, <1>2

-----------------------------------------------------------------------------
(* The steps keep KindsInv *)

LEMMA KindsConstant ==
  ASSUME made' = made, owner' = owner
  PROVE  Docs' = Docs /\ Writes' = Writes
BY DEF Docs, ProjectDocs, ProfileDocs, MadeNames, IsPictureOf, Writes, Saves,
       PictureUpdates, Joins

\* What does not change the documents and writes, nor what was made.
LEMMA KindsSame ==
  ASSUME KindsInv, made' = made, owner' = owner, UNCHANGED <<server, queue, cache>>
  PROVE  DocsWithin(Docs, Writes)'
<1>1. DocsWithin(Docs, Writes) /\ Docs' = Docs /\ Writes' = Writes
  BY KindsConstant DEF KindsInv
<1> QED
  BY <1>1 DEF DocsWithin

\* The parts of KindsInv that speak of the app alone.
AppKinds == HandedAreWrites /\ UploadsOwned /\ ObjectsOwned /\ CallsOwned /\ PeopleAreUsers

LEMMA AppKindsSame ==
  ASSUME AppKinds, UNCHANGED <<viewVars, handed, object, owner, made>>
  PROVE  AppKinds'
<1>1. Writes' = Writes
  BY KindsConstant
<1> QED
  BY <1>1 DEF AppKinds, HandedAreWrites, UploadsOwned, ObjectsOwned, CallsOwned,
              PeopleAreUsers, viewVars, IsPictureOf

LEMMA NetworkKinds ==
  ASSUME TypeOK, KindsInv, NEW d \in Device,
         \/ Network(Deliver(d) \/ Ack(d) \/ Reject(d) \/ Watch(d))
         \/ Network(BreakStream(d))
         \/ \E u \in User : SignIn(d, u)
         \/ SignOut(d)
  PROVE  KindsInv'
<1>1. PICK A, M : A = Docs /\ M = Writes
  OBVIOUS
<1>2. UNCHANGED <<viewVars, handed, object, historyVars>>
  BY DEF Network, SignIn, SignOut
<1>3. A = Docs' /\ M = Writes'
  BY <1>1, <1>2, KindsConstant DEF historyVars
<1>4. DocsWithin(A, M) /\ Closed(A, M) /\ FirestoreTypeOK
  BY <1>1, WritesClosed DEF KindsInv, TypeOK
<1>5. DocsWithin(A, M)'
  <2>1. CASE (\E u \in User : SignIn(d, u)) \/ SignOut(d)
    BY <1>4, <2>1 DEF SignIn, SignOut, DocsWithin
  <2>2. CASE Network(Deliver(d) \/ Ack(d) \/ Reject(d) \/ Watch(d))
             \/ Network(BreakStream(d))
    BY <1>4, <2>2, NetworkWithin DEF Network
  <2> QED
    BY <2>1, <2>2
<1>6. DocsWithin(Docs, Writes)'
  BY <1>3, <1>5
<1>7. AppKinds'
  BY <1>2, AppKindsSame DEF KindsInv, AppKinds, historyVars
<1> QED
  BY <1>6, <1>7 DEF KindsInv, AppKinds

LEMMA FormKinds ==
  ASSUME TypeOK, KindsInv, NEW d \in Device,
         \/ ShowProjects(d) \/ ShowProfiles(d) \/ ListParticipants(d)
         \/ Rebuild(d) \/ OpenForm(d) \/ Cancel(d)
  PROVE  KindsInv'
<1>1. UNCHANGED <<firestoreVars, uploads, urlCalls, handed, object, historyVars>>
  BY DEF ShowProjects, ShowProfiles, ListParticipants, Rebuild, OpenForm, Cancel
<1>2. DocsWithin(Docs, Writes)' /\ Writes' = Writes
  BY <1>1, KindsSame, KindsConstant DEF firestoreVars, historyVars
<1>3. HandedAreWrites' /\ UploadsOwned' /\ ObjectsOwned' /\ CallsOwned'
  BY <1>1, <1>2 DEF KindsInv, HandedAreWrites, UploadsOwned, ObjectsOwned, CallsOwned,
                    IsPictureOf, historyVars
<1>4. PeopleAreUsers'
  <2>1. form \in [Device -> Form \cup {NoForm}] /\ NoForm \notin Form
    BY ProjectAssumption DEF TypeOK
  <2>2. \A c \in Device : c # d => form'[c] = form[c]
    BY <2>1 DEF ShowProjects, ShowProfiles, ListParticipants, Rebuild, OpenForm, Cancel
  <2>3. form'[d] # NoForm => form'[d].people \subseteq User
    <3>1. CASE ShowProjects(d) \/ ListParticipants(d)
      <4>1. form[d] \in Form /\ form[d].people \subseteq User
        BY <2>1, <3>1 DEF ShowProjects, ListParticipants, KindsInv, PeopleAreUsers
      <4>2. form'[d].people = form[d].people
        BY <2>1, <3>1, <4>1 DEF ShowProjects, ListParticipants, Form
      <4> QED
        BY <4>1, <4>2
    <3>2. CASE ShowProfiles(d)
      <4> DEFINE people == {e \in Email : LocalView(d, e) # NoDoc}
      <4>1. ASSUME NEW e \in people PROVE e \in User
        <5>1. e \in Path /\ e \notin Id
          BY DEF Email
        <5>2. LocalView(d, e) \in Docs[e]
          BY <5>1, WritesClosed, LocalViewWithin DEF TypeOK, KindsInv
        <5> QED
          BY <5>1, <5>2 DEF Docs, ProfileDocs
      <4>2. form' = [form EXCEPT ![d].people = people] /\ form[d] # NoForm
        BY <3>2 DEF ShowProfiles
      <4> HIDE DEF people
      <4>3. form[d] \in Form
        BY <2>1, <4>2
      <4>4. form'[d].people = people
        BY <2>1, <4>2, <4>3 DEF Form
      <4> QED
        BY <4>1, <4>4
    <3>3. CASE Rebuild(d)
      <4>1. form[d] \in Form
        BY <2>1, <3>3 DEF Rebuild
      <4>2. form'[d].people = {}
        BY <2>1, <3>3, <4>1 DEF Rebuild, Form
      <4> QED
        BY <4>2
    <3>4. CASE OpenForm(d)
      BY <2>1, <3>4 DEF OpenForm, NewForm
    <3>5. CASE Cancel(d)
      BY <2>1, <3>5 DEF Cancel
    <3> QED
      BY <3>1, <3>2, <3>3, <3>4, <3>5
  <2> QED
    BY <2>2, <2>3 DEF KindsInv, PeopleAreUsers
<1> QED
  BY <1>2, <1>3, <1>4 DEF KindsInv

LEMMA RestartKinds ==
  ASSUME TypeOK, KindsInv, NEW d \in Device, Restart(d)
  PROVE  KindsInv'
<1>1. DocsWithin(Docs, Writes)' /\ Writes' = Writes /\ made' = made /\ owner' = owner
      /\ object' = object
  BY KindsSame, KindsConstant DEF Restart
<1>2. ASSUME NEW c \in Device
      PROVE  /\ handed'[c] = <<>> \/ handed'[c] = handed[c]
             /\ uploads'[c] \subseteq uploads[c] /\ urlCalls'[c] \subseteq urlCalls[c]
             /\ form'[c] = NoForm \/ form'[c] = form[c]
  BY DEF Restart, TypeOK
<1>3. HandedAreWrites'
  <2> SUFFICES ASSUME NEW c \in Device, NEW i \in 1..Len(handed'[c])
               PROVE  handed'[c][i] \in Writes
    BY <1>1 DEF HandedAreWrites
  <2>1. handed'[c] = handed[c]
    BY <1>2
  <2> QED
    BY <2>1 DEF KindsInv, HandedAreWrites
<1>4. UploadsOwned' /\ ObjectsOwned' /\ CallsOwned' /\ PeopleAreUsers'
  BY <1>1, <1>2 DEF KindsInv, UploadsOwned, ObjectsOwned, CallsOwned, PeopleAreUsers,
                    IsPictureOf
<1> QED
  BY <1>1, <1>3, <1>4 DEF KindsInv

LEMMA PersistKinds ==
  ASSUME TypeOK, KindsInv, NEW d \in Device, Persist(d)
  PROVE  KindsInv'
<1>1. PICK A, M : A = Docs /\ M = Writes
  OBVIOUS
<1>2. made' = made /\ owner' = owner /\ UNCHANGED <<viewVars, object>>
  BY DEF Persist, historyVars
<1>3. A = Docs' /\ M = Writes'
  BY <1>1, <1>2, KindsConstant
<1> DEFINE m == Head(handed[d])
<1>4. handed[d] \in Seq(Mutation) /\ handed[d] # <<>>
  BY DEF Persist, TypeOK
<1>5. m = handed[d][1] /\ 1 \in 1..Len(handed[d])
  BY <1>4
<1>6. m \in M /\ <<m>> \in Seq(Mutation)
  BY <1>1, <1>5, PersistType DEF KindsInv, HandedAreWrites
<1>7. DocsWithin(A, M)'
  <2>1. \A i \in 1..Len(<<m>>) : <<m>>[i] \in M
    BY <1>6
  <2>2. DocsWithin(A, M) /\ FirestoreTypeOK /\ WriteLocally(d, <<m>>)
        /\ UNCHANGED <<server, cache>>
    BY <1>1 DEF KindsInv, TypeOK, Persist
  <2> HIDE DEF m
  <2> QED
    BY <1>6, <2>1, <2>2, WriteWithin
<1>8. DocsWithin(Docs, Writes)'
  BY <1>3, <1>7
<1>9. HandedAreWrites'
  <2> SUFFICES ASSUME NEW c \in Device, NEW i \in 1..Len(handed'[c])
               PROVE  handed'[c][i] \in Writes
    BY <1>1, <1>3 DEF HandedAreWrites
  <2>1. CASE c = d
    <3>1. handed'[c] = Tail(handed[d])
      BY <2>1 DEF Persist, TypeOK
    <3>2. i + 1 \in 1..Len(handed[d]) /\ handed'[c][i] = handed[d][i + 1]
      BY <1>4, <3>1
    <3> QED
      BY <3>2 DEF KindsInv, HandedAreWrites
  <2>2. CASE c # d
    <3>1. handed'[c] = handed[c]
      BY <2>2 DEF Persist, TypeOK
    <3> QED
      BY <3>1 DEF KindsInv, HandedAreWrites
  <2> QED
    BY <2>1, <2>2
<1>10. UploadsOwned' /\ ObjectsOwned' /\ CallsOwned' /\ PeopleAreUsers'
  BY <1>2 DEF KindsInv, UploadsOwned, ObjectsOwned, CallsOwned, PeopleAreUsers,
              IsPictureOf, viewVars
<1> QED
  BY <1>8, <1>9, <1>10 DEF KindsInv

LEMMA ImageStepKinds ==
  ASSUME TypeOK, KindsInv, NEW d \in Device, NEW up \in uploads[d],
         StoreImage(d, up) \/ UploadFailed(d, up)
  PROVE  KindsInv'
<1>1. UNCHANGED <<firestoreVars, form, urlCalls, handed, historyVars>>
      /\ uploads' = [uploads EXCEPT ![d] = @ \ {up}]
      /\ (object' = object \/ object' = [object EXCEPT ![up.name] = up.image])
  BY DEF StoreImage, UploadFailed
<1>2. DocsWithin(Docs, Writes)' /\ Writes' = Writes /\ made' = made /\ owner' = owner
  BY <1>1, KindsSame, KindsConstant DEF firestoreVars, historyVars
<1>3. HandedAreWrites' /\ CallsOwned' /\ PeopleAreUsers'
  BY <1>1, <1>2 DEF KindsInv, HandedAreWrites, CallsOwned, PeopleAreUsers, IsPictureOf
<1>4. UploadsOwned'
  BY <1>1, <1>2 DEF KindsInv, UploadsOwned, TypeOK
<1>5. owner[up.image] = up.name
  BY DEF KindsInv, UploadsOwned
<1>6. ObjectsOwned'
  BY <1>1, <1>2, <1>5 DEF KindsInv, ObjectsOwned, TypeOK
<1> QED
  BY <1>2, <1>3, <1>4, <1>6 DEF KindsInv

LEMMA UrlStepKinds ==
  ASSUME TypeOK, KindsInv, NEW d \in Device, NEW call \in urlCalls[d],
         AnswerUrl(d, call) \/ RetryUrl(d, call) \/ UrlReceived(d, call)
  PROVE  KindsInv'
<1>1. call \in UrlCall /\ call.id \in Id /\ call.name \in Project
  BY DEF TypeOK, UrlCall
<1>2. UNCHANGED <<firestoreVars, form, uploads, object, historyVars>>
  BY DEF AnswerUrl, RetryUrl, UrlReceived
<1>3. DocsWithin(Docs, Writes)' /\ Writes' = Writes /\ made' = made /\ owner' = owner
  BY <1>2, KindsSame, KindsConstant DEF firestoreVars, historyVars
<1>4. UploadsOwned' /\ ObjectsOwned' /\ PeopleAreUsers'
  BY <1>2, <1>3 DEF KindsInv, UploadsOwned, ObjectsOwned, PeopleAreUsers
<1>5. made[call.id] # NotMade /\ made[call.id].name = call.name
      /\ (call.reply \in Picture => IsPictureOf(call.id, call.reply))
  BY DEF KindsInv, CallsOwned
<1>6. HandedAreWrites'
  <2>1. CASE AnswerUrl(d, call) \/ RetryUrl(d, call)
    BY <1>3, <2>1 DEF AnswerUrl, RetryUrl, KindsInv, HandedAreWrites
  <2>2. CASE UrlReceived(d, call)
    <3> DEFINE m == UpdatePicture(call.id, call.reply)
    <3>1. m \in Mutation
      BY <1>1, <2>2, MutationTypes, ProjectAssumption DEF UrlReceived
    <3>2. m.op = "picture" /\ m.path = call.id /\ m.value.picture = call.reply
      BY <2>2, BlankDocType DEF UrlReceived, UpdatePicture, BlankDoc
    <3>3. m \in Writes
      BY <1>1, <1>5, <2>2, <3>1, <3>2 DEF UrlReceived, Writes, PictureUpdates
    <3>4. handed' = [handed EXCEPT ![d] = Append(handed[d], m)]
          /\ handed[d] \in Seq(Mutation)
      BY <2>2 DEF UrlReceived, TypeOK
    <3> HIDE DEF m
    <3>5. ASSUME NEW i \in 1..Len(Append(handed[d], m))
          PROVE  Append(handed[d], m)[i] \in Writes
      BY <3>1, <3>3, <3>4 DEF KindsInv, HandedAreWrites
    <3> QED
      BY <1>3, <3>4, <3>5 DEF KindsInv, HandedAreWrites, TypeOK
  <2> QED
    BY <2>1, <2>2
<1>7. CallsOwned'
  <2> SUFFICES ASSUME NEW c \in Device, NEW x \in urlCalls'[c]
               PROVE  /\ made[x.id] # NotMade /\ made[x.id].name = x.name
                      /\ x.reply \in Picture => IsPictureOf(x.id, x.reply)
    BY <1>3 DEF CallsOwned, IsPictureOf
  <2>1. CASE x \in urlCalls[c]
    BY <2>1 DEF KindsInv, CallsOwned
  <2>2. CASE x \notin urlCalls[c]
    <3>1. c = d /\ (AnswerUrl(d, call) \/ RetryUrl(d, call))
      BY <2>2 DEF AnswerUrl, RetryUrl, UrlReceived, TypeOK
    <3>2. PICK reply \in {NoUrl, UrlError, object[call.name]} :
            x = [call EXCEPT !.reply = reply]
      <4>1. PICK reply \in {NoUrl, UrlError, object[call.name]} :
              urlCalls' = [urlCalls EXCEPT ![d] =
                (@ \ {call}) \cup {[call EXCEPT !.reply = reply]}]
        BY <3>1 DEF AnswerUrl, RetryUrl
      <4>2. urlCalls'[d] = (urlCalls[d] \ {call}) \cup {[call EXCEPT !.reply = reply]}
        BY <4>1 DEF TypeOK
      <4> QED
        BY <2>2, <3>1, <4>2
    <3>3. x.id = call.id /\ x.name = call.name /\ x.reply = reply
      BY <1>1, <3>2 DEF UrlCall
    <3>4. reply \in Picture => IsPictureOf(call.id, reply)
      BY <1>1, <1>5, <3>2, ProjectAssumption
         DEF KindsInv, ObjectsOwned, IsPictureOf
    <3> QED
      BY <1>5, <3>3, <3>4
  <2> QED
    BY <2>1, <2>2
<1> QED
  BY <1>3, <1>4, <1>6, <1>7 DEF KindsInv

\* Done adds a project under a fresh id and marks a fresh picture as its own, so
\* what was said of the other projects remains true.
LEMMA DoneGrows ==
  ASSUME TypeOK, NEW d \in Device, NEW id \in Id, NEW name \in Project,
         NEW participants \in Seq(Email), NEW image \in Picture,
         Done(d, id, name, participants, image)
  PROVE  /\ made'[id] # NotMade /\ made'[id].name = name
         /\ made'[id].joined =
              {participants[i] : i \in 1..Len(participants)} \cap form[d].people
         /\ \A k \in Id : k # id => made'[k] = made[k]
         /\ \A k \in Id : made[k] # NotMade => made'[k] = made[k]
         /\ \A url \in Picture : owner[url] \in Project => owner'[url] = owner[url]
         /\ owner'[image] = name
         /\ MadeNames \subseteq MadeNames' /\ name \in MadeNames'
<1> DEFINE joined == {participants[i] : i \in 1..Len(participants)} \cap form[d].people
<1>1. made' = [made EXCEPT ![id] = [name |-> name, joined |-> joined]]
      /\ made[id] = NotMade
      /\ owner' = [owner EXCEPT ![image] = name] /\ owner[image] = NoOwner
  BY DEF Done
<1>2. joined \subseteq Email
  BY DEF TypeOK, Form, Done
<1> HIDE DEF joined
<1>3. [name |-> name, joined |-> joined] # NotMade
  <2>1. [name |-> name, joined |-> joined] \in Made
    BY <1>2 DEF Made
  <2> QED
    BY <2>1, ProjectAssumption
<1>4. /\ made'[id] = [name |-> name, joined |-> joined]
      /\ \A k \in Id : k # id => made'[k] = made[k]
  BY <1>1 DEF TypeOK
<1>5. \A k \in Id : made[k] # NotMade => made'[k] = made[k]
  BY <1>1, <1>4
<1>6. \A url \in Picture : owner[url] \in Project => owner'[url] = owner[url]
  BY <1>1, ProjectAssumption DEF TypeOK
<1>7. owner'[image] = name
  BY <1>1 DEF TypeOK
<1>8. MadeNames \subseteq MadeNames' /\ name \in MadeNames'
  BY <1>3, <1>4, <1>5 DEF MadeNames
<1> QED
  BY <1>3, <1>4, <1>5, <1>6, <1>7, <1>8 DEF joined

LEMMA DoneKindsGrow ==
  ASSUME TypeOK, NEW d \in Device, NEW id \in Id, NEW name \in Project,
         NEW participants \in Seq(Email), NEW image \in Picture,
         Done(d, id, name, participants, image)
  PROVE  /\ \A p \in Path : Docs[p] \subseteq Docs'[p]
         /\ Writes \subseteq Writes'
<1>1. /\ \A k \in Id : made[k] # NotMade => made'[k] = made[k]
      /\ \A url \in Picture : owner[url] \in Project => owner'[url] = owner[url]
      /\ MadeNames \subseteq MadeNames'
  BY DoneGrows
<1>2. ASSUME NEW k \in Id, made[k] # NotMade, NEW url \in Picture, IsPictureOf(k, url)
      PROVE  IsPictureOf(k, url)'
  <2>1. made[k].name \in Project
    BY <1>2, MadeType
  <2> QED
    BY <1>1, <1>2, <2>1 DEF IsPictureOf
<1>3. ASSUME NEW p \in Path, NEW doc \in Docs[p] PROVE doc \in Docs'[p]
  <2>1. CASE p \in Id
    <3>1. doc \in ProjectDocs(p)
      BY <1>3, <2>1 DEF Docs
    <3>2. doc # NoDoc => doc.picture \in Picture
      BY <3>1 DEF ProjectDocs, MaybeDoc, Doc
    <3>3. doc \in ProjectDocs(p)'
      BY <1>1, <1>2, <2>1, <3>1, <3>2 DEF ProjectDocs
    <3> QED
      BY <1>3, <2>1, <3>3 DEF Docs
  <2>2. CASE p \notin Id
    BY <1>1, <1>3, <2>2 DEF Docs, ProfileDocs
  <2> QED
    BY <2>1, <2>2
<1>4. Saves \subseteq Saves' /\ Joins \subseteq Joins'
  BY <1>1 DEF Saves, Joins
<1>5. PictureUpdates \subseteq PictureUpdates'
  <2>1. \A m \in PictureUpdates : m.value.picture \in Picture
    BY DEF PictureUpdates, Mutation, Doc
  <2> QED
    BY <1>1, <1>2, <2>1 DEF PictureUpdates
<1> QED
  BY <1>3, <1>4, <1>5 DEF Writes

LEMMA DoneKinds ==
  ASSUME TypeOK, KindsInv, NEW d \in Device, NEW id \in Id, NEW name \in Project,
         NEW participants \in Seq(Email), NEW image \in Picture,
         Done(d, id, name, participants, image)
  PROVE  KindsInv'
<1>1. PICK A, M : A = Docs /\ M = Writes
  OBVIOUS
<1>2. DocsWithin(A, M) /\ UNCHANGED <<server, queue, cache>>
  BY <1>1 DEF KindsInv, Done, firestoreVars
<1>3. DocsWithin(A, M)'
  BY <1>2 DEF DocsWithin
<1>4. PICK B, N : B = Docs' /\ N = Writes'
  OBVIOUS
<1>5. M \subseteq N /\ \A p \in Path : A[p] \subseteq B[p]
  BY <1>1, <1>4, DoneKindsGrow
<1>6. DocsWithin(B, N)'
  BY <1>3, <1>5, DocsWithinGrow
<1>7. DocsWithin(Docs, Writes)'
  BY <1>4, <1>6
<1> DEFINE joins == setParticipants(d, participants, name)
           writes == DoneWrites(d, id, name, participants)
<1>8. form[d] # NoForm /\ form[d].people \subseteq User
  BY DEF Done, KindsInv, PeopleAreUsers
<1>9. /\ joins \in Seq(Mutation) /\ writes \in Seq(Mutation)
      /\ Len(writes) = Len(joins) + 1
      /\ writes[Len(writes)] = SetDoc(id, ProjectDoc(name))
      /\ \A i \in 1..Len(joins) : writes[i] = joins[i]
      /\ JoinsOf(joins, form[d].people, name)
  BY <1>8, DoneWritesType
<1>10. handed' = [handed EXCEPT ![d] = handed[d] \o writes]
  BY DoneType
<1>11. /\ made'[id] # NotMade /\ made'[id].name = name
       /\ \A k \in Id : made[k] # NotMade => made'[k] = made[k]
       /\ \A url \in Picture : owner[url] \in Project => owner'[url] = owner[url]
       /\ owner'[image] = name /\ name \in MadeNames'
  BY DoneGrows
<1> HIDE DEF joins, writes
<1>12. ASSUME NEW i \in 1..Len(writes) PROVE writes[i] \in N
  <2>1. CASE i \in 1..Len(joins)
    <3>1. PICK e \in form[d].people : writes[i] = UnionProject(e, name)
      BY <1>9, <2>1 DEF JoinsOf
    <3>2. e \in User /\ UnionProject(e, name) \in Mutation
      BY <1>8, <3>1, MutationTypes, ProjectAssumption DEF Email
    <3>3. /\ UnionProject(e, name).op = "join" /\ UnionProject(e, name).path = e
          /\ UnionProject(e, name).value.projects = {name}
      BY DEF UnionProject, BlankDoc
    <3>4. UnionProject(e, name) \in Joins'
      BY <1>11, <3>2, <3>3 DEF Joins
    <3> QED
      BY <1>4, <3>1, <3>4 DEF Writes
  <2>2. CASE i \notin 1..Len(joins)
    <3>1. i = Len(writes)
      BY <1>9, <2>2
    <3>2. writes[i] = SetDoc(id, ProjectDoc(name)) /\ SetDoc(id, ProjectDoc(name)) \in Mutation
      BY <1>9, <3>1, ProjectDocType, MutationTypes, ProjectAssumption
    <3>3. SetDoc(id, ProjectDoc(name)) \in Saves'
      BY <1>11, <3>2 DEF Saves, SetDoc
    <3> QED
      BY <1>4, <3>2, <3>3 DEF Writes
  <2> QED
    BY <2>1, <2>2
<1>13. HandedAreWrites'
  <2> SUFFICES ASSUME NEW c \in Device, NEW i \in 1..Len(handed'[c])
               PROVE  handed'[c][i] \in N
    BY <1>4 DEF HandedAreWrites
  <2>1. \A j \in 1..Len(handed[c]) : handed[c][j] \in N
    BY <1>1, <1>5 DEF KindsInv, HandedAreWrites
  <2>2. CASE c = d
    <3> DEFINE old == handed[d]
    <3>1. old \in Seq(Mutation) /\ handed'[c] = old \o writes
      BY <1>10, <2>2 DEF TypeOK
    <3>2. \A j \in 1..Len(old) : old[j] \in N
      BY <2>1, <2>2
    <3> HIDE DEF old
    <3>3. i \in 1..(Len(old) + Len(writes)) /\ Len(old) \in Nat /\ Len(writes) \in Nat
      BY <1>9, <3>1
    <3>4. CASE i <= Len(old)
      BY <1>9, <3>1, <3>2, <3>3, <3>4
    <3>5. CASE i > Len(old)
      <4>1. i - Len(old) \in 1..Len(writes) /\ handed'[c][i] = writes[i - Len(old)]
        BY <1>9, <3>1, <3>3, <3>5
      <4> QED
        BY <1>12, <4>1
    <3> QED
      BY <3>3, <3>4, <3>5
  <2>3. CASE c # d
    BY <1>10, <2>1, <2>3 DEF TypeOK
  <2> QED
    BY <2>2, <2>3
<1>14. UploadsOwned'
  <2> SUFFICES ASSUME NEW c \in Device, NEW up \in uploads'[c]
               PROVE  owner'[up.image] = up.name
    BY DEF UploadsOwned
  <2>1. CASE up \in uploads[c]
    <3>1. up.image \in Picture /\ up.name \in Project /\ owner[up.image] = up.name
      BY <2>1 DEF TypeOK, Upload, KindsInv, UploadsOwned
    <3> QED
      BY <1>11, <3>1
  <2>2. CASE up \notin uploads[c]
    <3>1. up = [name |-> name, image |-> image]
      BY <2>2 DEF Done, TypeOK
    <3> QED
      BY <1>11, <3>1
  <2> QED
    BY <2>1, <2>2
<1>15. ObjectsOwned'
  BY <1>11 DEF KindsInv, ObjectsOwned, Done, TypeOK
<1>16. CallsOwned'
  <2> SUFFICES ASSUME NEW c \in Device, NEW x \in urlCalls'[c]
               PROVE  /\ made'[x.id] # NotMade /\ made'[x.id].name = x.name
                      /\ x.reply \in Picture => IsPictureOf(x.id, x.reply)'
    BY DEF CallsOwned, IsPictureOf
  <2>1. CASE x \in urlCalls[c]
    <3>1. x.id \in Id /\ made[x.id] # NotMade /\ made[x.id].name = x.name
          /\ (x.reply \in Picture => IsPictureOf(x.id, x.reply))
      BY <2>1 DEF TypeOK, UrlCall, KindsInv, CallsOwned
    <3>2. made[x.id].name \in Project /\ made'[x.id] = made[x.id]
      BY <1>11, <3>1, MadeType
    <3> QED
      BY <1>11, <3>1, <3>2 DEF IsPictureOf
  <2>2. CASE x \notin urlCalls[c]
    <3>1. x = [id |-> id, name |-> name, reply |-> NoUrl]
      BY <2>2 DEF Done, TypeOK
    <3> QED
      BY <1>11, <3>1, ProjectAssumption
  <2> QED
    BY <2>1, <2>2
<1>17. PeopleAreUsers'
  BY DEF KindsInv, PeopleAreUsers, Done, TypeOK
<1> QED
  BY <1>7, <1>13, <1>14, <1>15, <1>16, <1>17 DEF KindsInv

LEMMA StepKinds ==
  ASSUME TypeOK, KindsInv, [Next]_vars
  PROVE  KindsInv'
<1>1. CASE Next
  BY <1>1, Steps, NetworkKinds, FormKinds, DoneKinds, RestartKinds, PersistKinds,
     ImageStepKinds, UrlStepKinds
<1>2. CASE UNCHANGED vars
  <2>1. DocsWithin(Docs, Writes)' /\ AppKinds'
    BY <1>2, KindsSame, AppKindsSame
       DEF vars, firestoreVars, historyVars, KindsInv, AppKinds
  <2> QED
    BY <2>1 DEF KindsInv, AppKinds
<1> QED
  BY <1>1, <1>2

LEMMA InitTypeKinds ==
  ASSUME Init
  PROVE  TypeOK /\ KindsInv
<1>1. BlankDoc \in Doc /\ NoPicture \in Picture /\ NoDoc \notin Doc
  BY BlankDocType, FirestoreAssumption
<1>2. <<>> \in Seq(Mutation)
  OBVIOUS
<1>3. FirestoreTypeOK
  <2>1. server \in [Path -> MaybeDoc] /\ user \in [Device -> Credential]
        /\ cache \in [Device -> [Path -> MaybeDoc]]
    BY <1>1 DEF Init, MaybeDoc, Credential
  <2>2. queue \in [Device -> [Credential -> Seq(Mutation)]]
    BY <1>2 DEF Init
  <2>3. delivered \in [Device -> Nat] /\ observed \in [Device -> Nat]
    BY DEF Init
  <2>4. \A d \in Device : delivered[d] <= Len(Pending(d))
    BY DEF Init, Pending, Credential
  <2> QED
    BY <2>1, <2>2, <2>3, <2>4 DEF FirestoreTypeOK
<1>4. handed \in [Device -> Seq(Mutation)]
  BY <1>2 DEF Init
<1>5. TypeOK
  BY <1>1, <1>3, <1>4 DEF Init, TypeOK
<1>6. \A p \in Path : server[p] \in Docs[p] /\ \A d \in Device : cache[d][p] \in Docs[p]
  <2> SUFFICES ASSUME NEW p \in Path
               PROVE  server[p] \in Docs[p] /\ \A d \in Device : cache[d][p] \in Docs[p]
    OBVIOUS
  <2>1. NoDoc \in Docs[p]
    BY DEF Docs, ProjectDocs, ProfileDocs, MaybeDoc
  <2>2. p \in User => p \notin Id /\ BlankDoc \in ProfileDocs(p)
    BY <1>1, ProjectAssumption DEF Email, ProfileDocs, MaybeDoc, BlankDoc
  <2>3. p \in User => BlankDoc \in Docs[p]
    BY <2>2 DEF Docs
  <2> QED
    BY <2>1, <2>3 DEF Init
<1>7. DocsWithin(Docs, Writes)
  BY <1>6 DEF DocsWithin, Init
<1> QED
  BY <1>5, <1>7 DEF Init, KindsInv, HandedAreWrites, UploadsOwned, ObjectsOwned, CallsOwned,
                    PeopleAreUsers

LEMMA KindsAlways == Spec => [](TypeOK /\ KindsInv)
<1>1. Init => TypeOK /\ KindsInv
  BY InitTypeKinds
<1>2. TypeOK /\ KindsInv /\ [Next]_vars => (TypeOK /\ KindsInv)'
  BY StepType, StepKinds
<1> QED
  BY <1>1, <1>2, PTL DEF Spec

\* Every variable has its type, in every state of every run.
THEOREM TypeCorrect == Spec => []TypeOK
BY KindsAlways, PTL

\* A project on the server shows no picture that was picked for a project of
\* another name.  (Queued writes, uploads and URL calls are in KindsInv.)
THEOREM PicturesMatch == Spec => []PicturesMatchNames
<1>1. TypeOK /\ KindsInv => PicturesMatchNames
  BY ProjectAssumption
     DEF KindsInv, DocsWithin, Docs, ProjectDocs, IsPictureOf, PicturesMatchNames
<1> QED
  BY <1>1, KindsAlways, PTL

-----------------------------------------------------------------------------
(* Durability.  A project's join is ahead of its save in the worker's memory, *)
(* so a kill that loses the join loses the save as well, and counts the       *)
(* project among the cut ones; what has left a queue is on the server; and    *)
(* what is written while nobody is signed in, which the server refuses, are   *)
(* only pictures.                                                             *)

InQueue(m) == \E d \in Device, u \in Credential : Waits(d, u, m)
InHanded(m) == \E d \in Device : \E i \in 1..Len(handed[d]) : handed[d][i] = m
HandedBefore(m, k) ==
  \E d \in Device : \E i, j \in 1..Len(handed[d]) :
    i < j /\ handed[d][i] = m /\ handed[d][j] = k

Save(id) == SetDoc(id, ProjectDoc(made[id].name))
Join(id, e) == UnionProject(e, made[id].name)
Kept(id) == made[id] # NotMade /\ id \notin cut

SaveIsDurable(id) == server[id] # NoDoc \/ InQueue(Save(id)) \/ InHanded(Save(id))
JoinIsDurable(id, e) ==
  \/ server[e] # NoDoc /\ made[id].name \in server[e].projects
  \/ InQueue(Join(id, e))
  \/ HandedBefore(Join(id, e), Save(id))

AllDurable ==
  \A id \in Id : Kept(id) =>
    SaveIsDurable(id) /\ \A e \in made[id].joined : JoinIsDurable(id, e)

JoinsAreThere ==
  \A d \in Device : \A m \in Sent(d) :
    m.op = "join" => m.value.projects \subseteq server[m.path].projects

UsersHaveProfiles == \A e \in User : server[e] # NoDoc

OnlyPictures(writes) == \A i \in 1..Len(writes) : writes[i].op = "picture"

SignedOutWrites ==
  \A d \in Device :
    /\ form[d] # NoForm => user[d] # NoUser
    /\ user[d] = NoUser => OnlyPictures(handed[d])
    /\ OnlyPictures(queue[d][NoUser])

DurabilityInv ==
  /\ SentIsThere
  /\ JoinsAreThere
  /\ UsersHaveProfiles
  /\ SignedOutWrites
  /\ AllDurable

(* What a step does to the documents, to what waits and to what was handed to *)
(* the worker, seen from AllDurable.                                          *)

ServerGrows ==
  /\ \A p \in Path : server[p] # NoDoc => server'[p] # NoDoc
  /\ \A e \in Email : server[e] # NoDoc => server[e].projects \subseteq server'[e].projects

Landed(m) ==
  /\ server[m.path] # NoDoc
  /\ m.op = "join" => m.value.projects \subseteq server[m.path].projects

QueuesKept ==
  \A m \in Mutation : m.op # "picture" /\ InQueue(m) => InQueue(m)' \/ Landed(m)'

HandedKept ==
  /\ \A m \in Mutation : InHanded(m) => InHanded(m)' \/ InQueue(m)'
  /\ \A m, k \in Mutation : HandedBefore(m, k) => HandedBefore(m, k)' \/ InQueue(m)'

LEMMA SaveAndJoin ==
  ASSUME TypeOK, NEW id \in Id, made[id] # NotMade
  PROVE  /\ Save(id) \in Mutation /\ Save(id).op = "set" /\ Save(id).path = id
         /\ \A e \in made[id].joined :
              /\ e \in Email /\ Join(id, e) \in Mutation
              /\ Join(id, e).op = "join" /\ Join(id, e).path = e
              /\ Join(id, e).value.projects = {made[id].name}
<1>1. made[id].name \in Project /\ made[id].joined \subseteq Email /\ id \in Path
  BY MadeType, ProjectAssumption
<1>2. Save(id) \in Mutation /\ Save(id).op = "set" /\ Save(id).path = id
  BY <1>1, ProjectDocType, MutationTypes DEF Save, SetDoc
<1>3. ASSUME NEW e \in made[id].joined
      PROVE  /\ e \in Email /\ Join(id, e) \in Mutation
             /\ Join(id, e).op = "join" /\ Join(id, e).path = e
             /\ Join(id, e).value.projects = {made[id].name}
  <2>1. e \in Email /\ e \in Path
    BY <1>1 DEF Email
  <2>2. Join(id, e) \in Mutation
    BY <1>1, <2>1, MutationTypes DEF Join
  <2> QED
    BY <2>1, <2>2 DEF Join, UnionProject, BlankDoc
<1> QED
  BY <1>2, <1>3

LEMMA DurableKept ==
  ASSUME TypeOK, AllDurable, ServerGrows, QueuesKept, HandedKept,
         NEW id \in Id, Kept(id), made'[id] = made[id]
  PROVE  SaveIsDurable(id)' /\ \A e \in made'[id].joined : JoinIsDurable(id, e)'
<1>1. /\ Save(id) \in Mutation /\ Save(id).op = "set" /\ Save(id).path = id
      /\ \A e \in made[id].joined :
           /\ e \in Email /\ Join(id, e) \in Mutation
           /\ Join(id, e).op = "join" /\ Join(id, e).path = e
           /\ Join(id, e).value.projects = {made[id].name}
  BY SaveAndJoin DEF Kept
<1>2. id \in Path /\ \A e \in made[id].joined : e \in Path
  BY <1>1, ProjectAssumption DEF Email
<1>3. PICK m : m = Save(id)
  OBVIOUS
<1>4. Save(id)' = m
  BY <1>3 DEF Save
<1>5. SaveIsDurable(id)'
  <2>1. server[id] # NoDoc \/ InQueue(m) \/ InHanded(m)
    BY <1>3 DEF AllDurable, SaveIsDurable
  <2>2. CASE server[id] # NoDoc
    BY <1>2, <2>2 DEF ServerGrows, SaveIsDurable
  <2>3. CASE InQueue(m)
    <3>1. InQueue(m)' \/ Landed(m)'
      BY <1>1, <1>3, <2>3 DEF QueuesKept
    <3> QED
      BY <1>1, <1>3, <1>4, <3>1 DEF SaveIsDurable, Landed
  <2>4. CASE InHanded(m)
    <3>1. InHanded(m)' \/ InQueue(m)'
      BY <1>1, <1>3, <2>4 DEF HandedKept
    <3> QED
      BY <1>4, <3>1 DEF SaveIsDurable
  <2> QED
    BY <2>1, <2>2, <2>3, <2>4
<1>6. ASSUME NEW e \in made[id].joined PROVE JoinIsDurable(id, e)'
  <2>1. PICK j : j = Join(id, e)
    OBVIOUS
  <2>2. Join(id, e)' = j
    BY <2>1 DEF Join
  <2>3. \/ server[e] # NoDoc /\ made[id].name \in server[e].projects
        \/ InQueue(j)
        \/ HandedBefore(j, m)
    BY <1>3, <2>1 DEF AllDurable, JoinIsDurable
  <2>4. CASE server[e] # NoDoc /\ made[id].name \in server[e].projects
    <3>1. server'[e] # NoDoc /\ made[id].name \in server'[e].projects
      BY <1>1, <1>2, <2>4 DEF ServerGrows
    <3> QED
      BY <3>1 DEF JoinIsDurable
  <2>5. CASE InQueue(j)
    <3>1. InQueue(j)' \/ Landed(j)'
      BY <1>1, <2>1, <2>5 DEF QueuesKept
    <3> QED
      BY <1>1, <2>1, <2>2, <3>1 DEF JoinIsDurable, Landed
  <2>6. CASE HandedBefore(j, m)
    <3>1. HandedBefore(j, m)' \/ InQueue(j)'
      BY <1>1, <1>3, <2>1, <2>6 DEF HandedKept
    <3> QED
      BY <1>4, <2>2, <3>1 DEF JoinIsDurable
  <2> QED
    BY <2>3, <2>4, <2>5, <2>6
<1> QED
  BY <1>5, <1>6

LEMMA WaitingAreWrites ==
  ASSUME KindsInv, NEW d \in Device, NEW u \in Credential, NEW m, Waits(d, u, m)
  PROVE  m \in Writes
<1>1. \A i \in 1..Len(queue[d][u]) : queue[d][u][i] \in Writes
  BY DEF KindsInv, DocsWithin
<1> QED
  BY <1>1 DEF Waits

LEMMA SentAreWrites ==
  ASSUME TypeOK, KindsInv, NEW d \in Device, NEW m \in Sent(d)
  PROVE  m \in Mutation /\ m \in Writes
<1>1. user[d] \in Credential /\ m \in Mutation /\ Waits(d, user[d], m)
  BY SentAreQueued, PendingType DEF TypeOK
<1> QED
  BY <1>1, WaitingAreWrites

\* What was sent and not acknowledged has landed; a write of a profile's picture
\* or text does not exist, so joins are all that changes a profile.
LEMMA SentLanded ==
  ASSUME TypeOK, KindsInv, SentIsThere, JoinsAreThere, UsersHaveProfiles,
         NEW d \in Device, NEW m \in Sent(d), m.op # "picture"
  PROVE  Landed(m)
<1>1. m \in Mutation /\ m \in Writes
  BY SentAreWrites
<1>2. CASE m.op = "set"
  <2>1. PICK i \in 1..delivered[d] : m = Pending(d)[i]
    BY DEF Sent
  <2> QED
    BY <1>2, <2>1 DEF SentIsThere, Landed
<1>3. CASE m.op = "join"
  <2>1. m.path \in User
    BY <1>1, <1>3 DEF Writes, Saves, PictureUpdates, Joins
  <2> QED
    BY <1>3, <2>1 DEF UsersHaveProfiles, JoinsAreThere, Landed
<1> QED
  BY <1>1, <1>2, <1>3 DEF Mutation

LEMMA DeliverGrows ==
  ASSUME TypeOK, KindsInv, NEW d \in Device, Deliver(d)
  PROVE  /\ ServerGrows
         /\ LET m == Pending(d)[delivered[d] + 1]
            IN m.op = "join" => m.value.projects \subseteq server'[m.path].projects
<1> DEFINE m == Pending(d)[delivered[d] + 1]
<1>1. m \in Mutation /\ m \in Writes
  <2>1. /\ user[d] \in Credential /\ Pending(d) = queue[d][user[d]]
        /\ m \in Mutation /\ delivered[d] + 1 \in 1..Len(Pending(d))
    BY PendingType DEF Deliver, TypeOK
  <2>2. Waits(d, user[d], m)
    BY <2>1 DEF Waits
  <2> HIDE DEF m
  <2> QED
    BY <2>1, <2>2, WaitingAreWrites
<1>2. PreconditionHolds(m, server[m.path])
      /\ server' = [server EXCEPT ![m.path] = Merge(m, server[m.path])]
  BY DEF Deliver
<1>3. \A p \in Path : server[p] # NoDoc => server'[p] # NoDoc
  BY DeliverKeepsDocs DEF TypeOK
<1> HIDE DEF m
<1>4. m.path \in Path /\ server \in [Path -> MaybeDoc]
  BY <1>1 DEF Mutation, TypeOK, FirestoreTypeOK
<1>5. CASE m.op = "join"
  <2>1. server[m.path] \in Doc
    BY <1>2, <1>4, <1>5 DEF PreconditionHolds, MaybeDoc
  <2>2. Merge(m, server[m.path])
          = [server[m.path] EXCEPT !.projects = @ \cup m.value.projects]
    BY <1>5 DEF Merge
  <2>3. server'[m.path].projects = server[m.path].projects \cup m.value.projects
    BY <1>2, <1>4, <2>1, <2>2 DEF Doc
  <2>4. \A e \in Email : server[e].projects \subseteq server'[e].projects
    BY <1>2, <1>4, <2>3 DEF Email
  <2> QED
    BY <1>3, <2>3, <2>4 DEF ServerGrows, m
<1>6. CASE m.op # "join"
  <2>1. m.path \in Id
    BY <1>1, <1>6 DEF Writes, Saves, PictureUpdates, Joins
  <2>2. \A e \in Email : server'[e] = server[e]
    BY <1>2, <1>4, <2>1 DEF Email
  <2> QED
    BY <1>3, <1>6, <2>2 DEF ServerGrows, m
<1> QED
  BY <1>5, <1>6

LEMMA NetworkServer ==
  ASSUME TypeOK, KindsInv, SentIsThere, JoinsAreThere, UsersHaveProfiles,
         NEW d \in Device,
         Deliver(d) \/ Ack(d) \/ Reject(d) \/ BreakStream(d) \/ Watch(d)
  PROVE  SentIsThere' /\ JoinsAreThere' /\ UsersHaveProfiles' /\ ServerGrows
<1>1. ServerGrows
  <2>1. CASE Deliver(d)
    BY <2>1, DeliverGrows
  <2>2. CASE ~Deliver(d)
    BY <2>2 DEF Ack, Reject, BreakStream, Watch, ServerGrows
  <2> QED
    BY <2>1, <2>2
<1>2. SentIsThere'
  <2>1. BreakStream(d) => SentIsThere'
    BY ClosedSends DEF BreakStream, TypeOK, FirestoreTypeOK, Pending
  <2>2. Watch(d) => SentIsThere'
    BY DEF Watch, SentIsThere, Pending
  <2> QED
    BY <2>1, <2>2, DeliverSends, AckSends, RejectSends DEF TypeOK
<1>3. UsersHaveProfiles'
  BY <1>1, ProjectAssumption DEF UsersHaveProfiles, ServerGrows, Email
<1>4. JoinsAreThere'
  <2> SUFFICES ASSUME NEW c \in Device, NEW m \in Sent(c)', m.op = "join"
               PROVE  m.value.projects \subseteq server'[m.path].projects
    BY DEF JoinsAreThere
  <2>1. CASE m \in Sent(c)
    <3>1. Landed(m)
      BY <2>1, SentLanded
    <3>2. m \in Writes
      BY <2>1, SentAreWrites
    <3>3. m.path \in User /\ m.path \in Email
      BY <3>2, ProjectAssumption DEF Writes, Saves, PictureUpdates, Joins
    <3> QED
      BY <1>1, <3>1, <3>3 DEF Landed, ServerGrows
  <2>2. CASE m \notin Sent(c)
    <3>1. Deliver(d)
      BY <2>2, NetworkSent DEF TypeOK
    <3>2. m = Pending(d)[delivered[d] + 1]
      BY <2>2, <3>1, DeliverSent DEF TypeOK
    <3> QED
      BY <3>1, <3>2, DeliverGrows
  <2> QED
    BY <2>1, <2>2
<1> QED
  BY <1>1, <1>2, <1>3, <1>4

\* An acknowledgement and a rejection take the oldest write out of the queue.
LEMMA LeavesPending ==
  ASSUME FirestoreTypeOK, NEW d \in Device, Ack(d) \/ Reject(d)
  PROVE  /\ Pending(d) # <<>> /\ server' = server
         /\ queue' = [queue EXCEPT ![d][user[d]] = Tail(Pending(d))]
<1>1. /\ Pending(d) \in Seq(Mutation) /\ delivered[d] \in Nat
      /\ delivered[d] <= Len(Pending(d)) /\ Pending(d) = queue[d][user[d]]
  BY PendingType
<1>2. CASE Ack(d)
  <2>1. delivered[d] > 0 /\ server' = server
        /\ queue' = [queue EXCEPT ![d][user[d]] = Tail(@)]
    BY <1>2 DEF Ack
  <2>2. Len(Pending(d)) > 0
    BY <1>1, <2>1
  <2> QED
    BY <1>1, <2>1, <2>2
<1>3. CASE Reject(d)
  BY <1>1, <1>3 DEF Reject
<1> QED
  BY <1>2, <1>3

\* An acknowledged write has landed, and what is rejected is the update of a
\* project that the server does not have or a picture of a signed-out device.
LEMMA NetworkQueues ==
  ASSUME TypeOK, KindsInv, DurabilityInv, NEW d \in Device,
         Deliver(d) \/ Ack(d) \/ Reject(d) \/ BreakStream(d) \/ Watch(d)
  PROVE  QueuesKept
<1> SUFFICES ASSUME NEW m \in Mutation, m.op # "picture",
                    NEW c \in Device, NEW u \in Credential, Waits(c, u, m)
             PROVE  Waits(c, u, m)' \/ Landed(m)'
  BY DEF QueuesKept, InQueue
<1>1. CASE Deliver(d) \/ BreakStream(d) \/ Watch(d)
  BY <1>1 DEF Deliver, BreakStream, Watch, Waits
<1>2. CASE Ack(d) \/ Reject(d)
  <2>1. /\ Pending(d) # <<>> /\ server' = server
        /\ queue' = [queue EXCEPT ![d][user[d]] = Tail(Pending(d))]
    BY <1>2, LeavesPending DEF TypeOK
  <2>2. Waits(c, u, m)' \/ (c = d /\ u = user[d] /\ m = Head(Pending(d)))
    BY <2>1, PopKeepsWaits DEF TypeOK
  <2>3. ASSUME m = Head(Pending(d)), Ack(d) PROVE Landed(m)'
    <3>1. m \in Sent(d)
      BY <2>3, AckSent DEF TypeOK
    <3>2. Landed(m)
      BY <3>1, SentLanded DEF DurabilityInv
    <3> QED
      BY <2>1, <3>2 DEF Landed
  <2>4. ASSUME m = Head(Pending(d)), Reject(d) PROVE FALSE
    <3>1. user[d] # NoUser
      <4> SUFFICES ASSUME user[d] = NoUser PROVE FALSE
        OBVIOUS
      <4>1. OnlyPictures(Pending(d)) /\ Pending(d) \in Seq(Mutation)
        BY PendingType DEF DurabilityInv, SignedOutWrites, TypeOK
      <4>2. Head(Pending(d)) = Pending(d)[1] /\ 1 \in 1..Len(Pending(d))
        BY <2>1, <4>1
      <4> QED
        BY <2>4, <4>1, <4>2 DEF OnlyPictures
    <3>2. m.op # "set" /\ server[m.path] = NoDoc
      BY <2>4, <3>1 DEF Reject, PreconditionHolds
    <3>3. m.op = "join"
      BY <3>2 DEF Mutation
    <3>4. m \in Writes
      BY WaitingAreWrites
    <3>5. m.path \in User
      BY <3>3, <3>4 DEF Writes, Saves, PictureUpdates, Joins
    <3> QED
      BY <3>2, <3>5 DEF DurabilityInv, UsersHaveProfiles
  <2> QED
    BY <1>2, <2>2, <2>3, <2>4
<1> QED
  BY <1>1, <1>2

\* Where memory and history stay, durability is a matter of server and queues.
LEMMA HandedSame ==
  ASSUME AllDurable, TypeOK, handed' = handed, made' = made, cut' = cut,
         ServerGrows, QueuesKept
  PROVE  AllDurable'
<1>1. HandedKept
  BY DEF HandedKept, InHanded, HandedBefore
<1>2. ASSUME NEW id \in Id, Kept(id)'
      PROVE  SaveIsDurable(id)' /\ \A e \in made'[id].joined : JoinIsDurable(id, e)'
  <2>1. Kept(id) /\ made'[id] = made[id]
    BY <1>2 DEF Kept
  <2> QED
    BY <1>1, <2>1, DurableKept
<1> QED
  BY <1>2 DEF AllDurable

LEMMA NetworkDurable ==
  ASSUME TypeOK, KindsInv, DurabilityInv, NEW d \in Device,
         Network(Deliver(d) \/ Ack(d) \/ Reject(d) \/ Watch(d)) \/ Network(BreakStream(d))
  PROVE  DurabilityInv'
<1>1. /\ Deliver(d) \/ Ack(d) \/ Reject(d) \/ BreakStream(d) \/ Watch(d)
      /\ UNCHANGED <<viewVars, handed, object, historyVars>>
  BY DEF Network
<1>2. SentIsThere' /\ JoinsAreThere' /\ UsersHaveProfiles' /\ ServerGrows /\ QueuesKept
  BY <1>1, NetworkServer, NetworkQueues DEF DurabilityInv
<1>3. AllDurable'
  BY <1>1, <1>2, HandedSame DEF historyVars, DurabilityInv
<1>4. SignedOutWrites'
  <2>1. user' = user /\ form' = form /\ handed' = handed
    BY <1>1 DEF Deliver, Ack, Reject, BreakStream, Watch, viewVars
  <2>2. ASSUME NEW c \in Device PROVE OnlyPictures(queue'[c][NoUser])
    <3>1. OnlyPictures(queue[c][NoUser]) /\ queue[c][NoUser] \in Seq(Mutation)
      BY DEF DurabilityInv, SignedOutWrites, TypeOK, FirestoreTypeOK, Credential
    <3>2. CASE queue'[c][NoUser] = queue[c][NoUser]
      BY <3>1, <3>2
    <3>3. CASE queue'[c][NoUser] # queue[c][NoUser]
      <4>1. queue'[c][NoUser] = Tail(queue[c][NoUser]) /\ queue[c][NoUser] # <<>>
        <5>1. Ack(d) \/ Reject(d)
          BY <1>1, <3>3 DEF Deliver, BreakStream, Watch
        <5>2. /\ Pending(d) # <<>>
              /\ queue' = [queue EXCEPT ![d][user[d]] = Tail(Pending(d))]
          BY <5>1, LeavesPending DEF TypeOK
        <5> QED
          BY <3>3, <5>2, PendingType DEF TypeOK, FirestoreTypeOK
      <4> DEFINE old == queue[c][NoUser]
      <4>2. old \in Seq(Mutation) /\ old # <<>> /\ queue'[c][NoUser] = Tail(old)
            /\ \A i \in 1..Len(old) : old[i].op = "picture"
        BY <3>1, <4>1 DEF OnlyPictures
      <4> HIDE DEF old
      <4>3. ASSUME NEW i \in 1..Len(Tail(old)) PROVE Tail(old)[i].op = "picture"
        <5>1. i + 1 \in 1..Len(old) /\ Tail(old)[i] = old[i + 1]
          BY <4>2
        <5> QED
          BY <4>2, <5>1
      <4> QED
        BY <4>2, <4>3 DEF OnlyPictures
    <3> QED
      BY <3>2, <3>3
  <2> QED
    BY <2>1, <2>2 DEF DurabilityInv, SignedOutWrites
<1> QED
  BY <1>2, <1>3, <1>4 DEF DurabilityInv

\* The server and what was sent stay as they are.
LEMMA ServerSame ==
  ASSUME TypeOK, KindsInv, SentIsThere, JoinsAreThere, UsersHaveProfiles,
         server' = server, SentIsThere',
         \A c \in Device : Sent(c)' \subseteq Sent(c)
  PROVE  JoinsAreThere' /\ UsersHaveProfiles' /\ ServerGrows
BY DEF JoinsAreThere, UsersHaveProfiles, ServerGrows

LEMMA QueuesSame ==
  ASSUME queue' = queue
  PROVE  QueuesKept
BY DEF QueuesKept, InQueue, Waits

\* Steps that leave the client alone.
LEMMA ClientSame ==
  ASSUME TypeOK, KindsInv, DurabilityInv, UNCHANGED firestoreVars
  PROVE  /\ SentIsThere' /\ JoinsAreThere' /\ UsersHaveProfiles'
         /\ ServerGrows /\ QueuesKept
<1>1. UNCHANGED <<server, user, queue, delivered>>
  BY DEF firestoreVars
<1>2. SentIsThere'
  BY <1>1 DEF DurabilityInv, SentIsThere, Pending
<1>3. \A c \in Device : Sent(c)' \subseteq Sent(c)
  BY <1>1 DEF Sent, Pending
<1> QED
  BY <1>1, <1>2, <1>3, ServerSame, QueuesSame DEF DurabilityInv

LEMMA CredentialDurable ==
  ASSUME TypeOK, KindsInv, DurabilityInv, NEW d \in Device,
         (\E u \in User : SignIn(d, u)) \/ SignOut(d)
  PROVE  DurabilityInv'
<1>1. /\ UNCHANGED <<server, queue, cache, viewVars, handed, object, historyVars>>
      /\ handed[d] = <<>>
      /\ \E u \in Credential : ChangeCredential(d, u)
      /\ \/ \E u \in User : user' = [user EXCEPT ![d] = u]
         \/ form[d] = NoForm /\ user' = [user EXCEPT ![d] = NoUser]
  BY DEF SignIn, SignOut, ChangeCredential, Credential
<1>2. delivered' = [delivered EXCEPT ![d] = 0]
      /\ \A c \in Device : c # d => user'[c] = user[c]
  BY <1>1 DEF ChangeCredential, TypeOK, FirestoreTypeOK
<1>3. delivered'[d] = 0
      /\ \A c \in Device : c # d => /\ delivered'[c] = delivered[c]
                                   /\ Pending(c)' = Pending(c)
  BY <1>1, <1>2 DEF TypeOK, FirestoreTypeOK, Pending
<1>4. SentIsThere' /\ \A c \in Device : Sent(c)' \subseteq Sent(c)
  BY <1>1, <1>3, ClosedSends, ClosedSent DEF TypeOK, DurabilityInv
<1>5. JoinsAreThere' /\ UsersHaveProfiles' /\ ServerGrows /\ QueuesKept
  BY <1>1, <1>4, ServerSame, QueuesSame DEF DurabilityInv
<1>6. AllDurable'
  BY <1>1, <1>5, HandedSame DEF DurabilityInv, historyVars
<1>7. SignedOutWrites'
  <2> SUFFICES ASSUME NEW c \in Device
               PROVE  /\ form[c] # NoForm => user'[c] # NoUser
                      /\ user'[c] = NoUser => OnlyPictures(handed[c])
                      /\ OnlyPictures(queue[c][NoUser])
    BY <1>1 DEF SignedOutWrites, viewVars
  <2>1. CASE c = d
    <3>1. form[c] # NoForm => user'[c] # NoUser
      BY <1>1, <2>1, FirestoreAssumption DEF TypeOK, FirestoreTypeOK
    <3>2. OnlyPictures(handed[c])
      BY <1>1, <2>1 DEF OnlyPictures
    <3> QED
      BY <3>1, <3>2 DEF DurabilityInv, SignedOutWrites
  <2>2. CASE c # d
    BY <1>2, <2>2 DEF DurabilityInv, SignedOutWrites
  <2> QED
    BY <2>1, <2>2
<1> QED
  BY <1>4, <1>5, <1>6, <1>7 DEF DurabilityInv

\* The steps of the form before Done, those of pictures, and the calls for URLs
\* that do not write.
LEMMA ViewDurable ==
  ASSUME TypeOK, KindsInv, DurabilityInv, NEW d \in Device,
         \/ ShowProjects(d) \/ ShowProfiles(d) \/ ListParticipants(d)
         \/ Rebuild(d) \/ OpenForm(d) \/ Cancel(d)
         \/ \E up \in uploads[d] : StoreImage(d, up) \/ UploadFailed(d, up)
         \/ \E call \in urlCalls[d] : AnswerUrl(d, call) \/ RetryUrl(d, call)
  PROVE  DurabilityInv'
<1>1. UNCHANGED <<firestoreVars, handed, made, cut>>
  BY DEF ShowProjects, ShowProfiles, ListParticipants, Rebuild, OpenForm, Cancel,
         StoreImage, UploadFailed, AnswerUrl, RetryUrl, historyVars
<1>2. SentIsThere' /\ JoinsAreThere' /\ UsersHaveProfiles' /\ ServerGrows /\ QueuesKept
  BY <1>1, ClientSame
<1>3. AllDurable'
  BY <1>1, <1>2, HandedSame DEF DurabilityInv
<1>4. \A c \in Device : form'[c] # NoForm => form[c] # NoForm \/ user[c] # NoUser
  BY DEF ShowProjects, ShowProfiles, ListParticipants, Rebuild, OpenForm, Cancel,
         StoreImage, UploadFailed, AnswerUrl, RetryUrl, TypeOK
<1>5. SignedOutWrites'
  BY <1>1, <1>4 DEF DurabilityInv, SignedOutWrites, firestoreVars
<1> QED
  BY <1>2, <1>3, <1>5 DEF DurabilityInv

\* Handing more to the worker keeps what was handed before.
LEMMA HandedMore ==
  ASSUME TypeOK, NEW d \in Device, NEW ms \in Seq(Mutation),
         handed' = [handed EXCEPT ![d] = handed[d] \o ms]
  PROVE  HandedKept
<1>1. ASSUME NEW c \in Device, NEW i \in 1..Len(handed[c])
      PROVE  i \in 1..Len(handed'[c]) /\ handed'[c][i] = handed[c][i]
  <2>1. CASE c = d
    <3> DEFINE old == handed[d]
    <3>1. old \in Seq(Mutation) /\ handed'[c] = old \o ms /\ i \in 1..Len(old)
      BY <2>1 DEF TypeOK
    <3> HIDE DEF old
    <3>2. i \in 1..Len(old \o ms) /\ (old \o ms)[i] = old[i]
      BY <3>1
    <3> QED
      BY <2>1, <3>1, <3>2 DEF old
  <2>2. CASE c # d
    BY <2>2 DEF TypeOK
  <2> QED
    BY <2>1, <2>2
<1>2. \A m : InHanded(m) => InHanded(m)'
  BY <1>1 DEF InHanded
<1>3. \A m, k : HandedBefore(m, k) => HandedBefore(m, k)'
  BY <1>1 DEF HandedBefore
<1> QED
  BY <1>2, <1>3 DEF HandedKept

LEMMA UrlDurable ==
  ASSUME TypeOK, KindsInv, DurabilityInv, NEW d \in Device, NEW call \in urlCalls[d],
         UrlReceived(d, call)
  PROVE  DurabilityInv'
<1> DEFINE m == UpdatePicture(call.id, call.reply)
<1>1. m \in Mutation /\ m.op = "picture"
  BY MutationTypes, ProjectAssumption
     DEF UrlReceived, UpdatePicture, TypeOK, UrlCall
<1>2. /\ handed' = [handed EXCEPT ![d] = Append(handed[d], m)]
      /\ UNCHANGED <<firestoreVars, form, made, cut>>
  BY DEF UrlReceived, historyVars
<1> HIDE DEF m
<1>3. handed[d] \in Seq(Mutation) /\ <<m>> \in Seq(Mutation)
      /\ Append(handed[d], m) = handed[d] \o <<m>>
  BY <1>1 DEF TypeOK
<1>4. HandedKept
  BY <1>2, <1>3, HandedMore
<1>5. SentIsThere' /\ JoinsAreThere' /\ UsersHaveProfiles' /\ ServerGrows /\ QueuesKept
  BY <1>2, ClientSame
<1>6. AllDurable'
  <2> SUFFICES ASSUME NEW id \in Id, Kept(id)'
               PROVE  SaveIsDurable(id)'
                      /\ \A e \in made'[id].joined : JoinIsDurable(id, e)'
    BY DEF AllDurable
  <2>1. Kept(id) /\ made'[id] = made[id]
    BY <1>2 DEF Kept
  <2> QED
    BY <1>4, <1>5, <2>1, DurableKept DEF DurabilityInv
<1>7. SignedOutWrites'
  <2> SUFFICES ASSUME NEW c \in Device
               PROVE  /\ form[c] # NoForm => user[c] # NoUser
                      /\ user[c] = NoUser => OnlyPictures(handed'[c])
                      /\ OnlyPictures(queue[c][NoUser])
    BY <1>2 DEF SignedOutWrites, firestoreVars
  <2>1. ASSUME user[c] = NoUser PROVE OnlyPictures(handed'[c])
    <3>1. OnlyPictures(handed[c])
      BY <2>1 DEF DurabilityInv, SignedOutWrites
    <3>2. CASE c = d
      <4>1. handed'[c] = Append(handed[d], m)
        BY <1>2, <3>2 DEF TypeOK
      <4> QED
        BY <1>1, <1>3, <3>1, <3>2, <4>1 DEF OnlyPictures
    <3>3. CASE c # d
      <4>1. handed'[c] = handed[c]
        BY <1>2, <3>3 DEF TypeOK
      <4> QED
        BY <3>1, <4>1
    <3> QED
      BY <3>2, <3>3
  <2> QED
    BY <2>1 DEF DurabilityInv, SignedOutWrites
<1> QED
  BY <1>5, <1>6, <1>7 DEF DurabilityInv

LEMMA DoneDurable ==
  ASSUME TypeOK, KindsInv, DurabilityInv, NEW d \in Device, NEW id \in Id,
         NEW name \in Project, NEW participants \in Seq(Email), NEW image \in Picture,
         Done(d, id, name, participants, image)
  PROVE  DurabilityInv'
<1> DEFINE joins == setParticipants(d, participants, name)
           writes == DoneWrites(d, id, name, participants)
<1>1. form[d] # NoForm /\ UNCHANGED <<firestoreVars, cut>>
      /\ form' = [form EXCEPT ![d] = NoForm]
  BY DEF Done
<1>2. /\ joins \in Seq(Mutation) /\ writes \in Seq(Mutation)
      /\ Len(writes) = Len(joins) + 1
      /\ writes[Len(writes)] = SetDoc(id, ProjectDoc(name))
      /\ \A i \in 1..Len(joins) : writes[i] = joins[i]
      /\ \A i \in 1..Len(participants) : participants[i] \in form[d].people =>
           HasJoin(joins, participants[i], name)
  BY <1>1, DoneWritesType
<1>3. handed' = [handed EXCEPT ![d] = handed[d] \o writes]
  BY DoneType
<1>4. /\ made'[id].name = name
      /\ made'[id].joined =
           {participants[i] : i \in 1..Len(participants)} \cap form[d].people
      /\ \A k \in Id : k # id => made'[k] = made[k]
  BY DoneGrows
<1> HIDE DEF joins, writes
<1>5. HandedKept
  BY <1>2, <1>3, HandedMore
<1>6. SentIsThere' /\ JoinsAreThere' /\ UsersHaveProfiles' /\ ServerGrows /\ QueuesKept
  BY <1>1, ClientSame
<1>7. \A i \in 1..Len(writes) : /\ Len(handed[d]) + i \in 1..Len(handed'[d])
                                /\ handed'[d][Len(handed[d]) + i] = writes[i]
  <2> DEFINE old == handed[d]
  <2>1. old \in Seq(Mutation) /\ handed'[d] = old \o writes
    BY <1>3 DEF TypeOK
  <2> HIDE DEF old
  <2>2. \A i \in 1..Len(writes) : /\ Len(old) + i \in 1..Len(old \o writes)
                                  /\ (old \o writes)[Len(old) + i] = writes[i]
    BY <1>2, <2>1
  <2> QED
    BY <2>1, <2>2 DEF old
<1>8. Len(handed[d]) \in Nat /\ Len(joins) \in Nat
  BY <1>2 DEF TypeOK
<1>9. SaveIsDurable(id)'
  <2>1. Len(writes) \in 1..Len(writes)
    BY <1>2, <1>8
  <2>2. Save(id)' = writes[Len(writes)]
    BY <1>2, <1>4 DEF Save
  <2>3. \E i \in 1..Len(handed'[d]) : handed'[d][i] = writes[Len(writes)]
    BY <1>7, <2>1
  <2>4. InHanded(Save(id))'
    BY <2>2, <2>3 DEF InHanded
  <2> QED
    BY <2>4 DEF SaveIsDurable
<1>10. ASSUME NEW e \in made'[id].joined PROVE JoinIsDurable(id, e)'
  <2>1. HasJoin(joins, e, name)
    BY <1>2, <1>4
  <2>2. PICK j \in 1..Len(joins) : joins[j] = UnionProject(e, name)
    BY <2>1 DEF HasJoin
  <2>3. /\ j \in 1..Len(writes) /\ Len(writes) \in 1..Len(writes) /\ j < Len(writes)
        /\ writes[j] = UnionProject(e, name)
    BY <1>2, <1>8, <2>2
  <2>4. Join(id, e)' = writes[j] /\ Save(id)' = writes[Len(writes)]
    BY <1>2, <1>4, <2>3 DEF Join, Save
  <2>5. Len(handed[d]) + j < Len(handed[d]) + Len(writes)
    <3>1. Len(writes) \in Nat /\ j \in Nat /\ j < Len(writes)
      BY <1>2, <1>8, <2>3
    <3> QED
      BY <1>8, <3>1
  <2>6. \E i, k \in 1..Len(handed'[d]) :
          i < k /\ handed'[d][i] = writes[j] /\ handed'[d][k] = writes[Len(writes)]
    BY <1>7, <2>3, <2>5
  <2>7. HandedBefore(Join(id, e), Save(id))'
    BY <2>4, <2>6 DEF HandedBefore
  <2> QED
    BY <2>7 DEF JoinIsDurable
<1>11. AllDurable'
  <2> SUFFICES ASSUME NEW k \in Id, Kept(k)', k # id
               PROVE  SaveIsDurable(k)'
                      /\ \A e \in made'[k].joined : JoinIsDurable(k, e)'
    BY <1>9, <1>10 DEF AllDurable
  <2>1. Kept(k) /\ made'[k] = made[k]
    BY <1>1, <1>4 DEF Kept
  <2> QED
    BY <1>5, <1>6, <2>1, DurableKept DEF DurabilityInv
<1>12. SignedOutWrites'
  <2>1. \A c \in Device : c # d => handed'[c] = handed[c] /\ form'[c] = form[c]
    BY <1>1, <1>3 DEF TypeOK
  <2>2. user[d] # NoUser /\ form'[d] = NoForm
    BY <1>1 DEF DurabilityInv, SignedOutWrites, TypeOK
  <2> QED
    BY <1>1, <2>1, <2>2 DEF DurabilityInv, SignedOutWrites, firestoreVars
<1> QED
  BY <1>6, <1>11, <1>12 DEF DurabilityInv

LEMMA PersistDurable ==
  ASSUME TypeOK, KindsInv, DurabilityInv, NEW d \in Device, Persist(d)
  PROVE  DurabilityInv'
<1> DEFINE old == handed[d]
           h == Head(old)
<1>1. /\ WriteLocally(d, <<h>>) /\ handed' = [handed EXCEPT ![d] = Tail(old)]
      /\ UNCHANGED <<server, user, delivered, observed, cache, viewVars, object,
                     historyVars>>
      /\ old # <<>>
  BY DEF Persist
<1>2. h \in Mutation /\ <<h>> \in Seq(Mutation) /\ FirestoreTypeOK
      /\ old \in Seq(Mutation)
  BY PersistType DEF TypeOK
<1>3. /\ handed'[d] = Tail(old)
      /\ \A c \in Device : c # d => handed'[c] = handed[c]
  BY <1>1 DEF TypeOK
<1>4. h = old[1] /\ 1 \in 1..Len(old)
  BY <1>1, <1>2
<1>5. \A i \in 1..Len(old) : i # 1 => /\ i - 1 \in 1..Len(Tail(old))
                                      /\ Tail(old)[i - 1] = old[i]
  <2> HIDE DEF old, h
  <2> QED
    BY <1>1, <1>2
<1>6. handed[d] = old
  OBVIOUS
<1> HIDE DEF old, h
<1>7. SentIsThere' /\ \A c \in Device : Sent(c)' \subseteq Sent(c)
  BY <1>1, <1>2, WriteLocallySends, WriteLocallySent DEF DurabilityInv
<1>8. JoinsAreThere' /\ UsersHaveProfiles' /\ ServerGrows
  BY <1>1, <1>7, ServerSame DEF DurabilityInv
<1>9. ASSUME NEW c \in Device, NEW u \in Credential, NEW m, Waits(c, u, m)
      PROVE  Waits(c, u, m)'
  BY <1>1, <1>2, <1>9, WriteWaits
<1>10. QueuesKept
  BY <1>9 DEF QueuesKept, InQueue
<1>11. ASSUME NEW m, m = h PROVE InQueue(m)'
  <2>1. PICK u \in Credential : u = user[d]
    BY <1>2, PendingType
  <2>2. 1 \in 1..Len(<<h>>) /\ <<h>>[1] = m
    BY <1>11
  <2>3. \E i \in 1..Len(<<h>>) : <<h>>[i] = m
    BY <2>2
  <2>4. Waits(d, u, m)'
    BY <1>1, <1>2, <2>1, <2>3, WriteWaits
  <2> QED
    BY <2>4 DEF InQueue
<1>12. HandedKept
  <2>1. ASSUME NEW m, NEW c \in Device, NEW i \in 1..Len(handed[c]), handed[c][i] = m
        PROVE  InHanded(m)' \/ InQueue(m)'
    <3>1. CASE c = d /\ i = 1
      BY <1>4, <1>6, <1>11, <2>1, <3>1
    <3>2. CASE c = d /\ i # 1
      BY <1>3, <1>5, <1>6, <2>1, <3>2 DEF InHanded
    <3>3. CASE c # d
      BY <1>3, <2>1, <3>3 DEF InHanded
    <3> QED
      BY <3>1, <3>2, <3>3
  <2>2. ASSUME NEW m, NEW k, NEW c \in Device, NEW i \in 1..Len(handed[c]),
               NEW j \in 1..Len(handed[c]), i < j, handed[c][i] = m, handed[c][j] = k
        PROVE  HandedBefore(m, k)' \/ InQueue(m)'
    <3>1. CASE c = d /\ i = 1
      BY <1>4, <1>6, <1>11, <2>2, <3>1
    <3>2. CASE c = d /\ i # 1
      <4>1. /\ i - 1 \in 1..Len(Tail(old)) /\ j - 1 \in 1..Len(Tail(old))
            /\ i - 1 < j - 1
            /\ Tail(old)[i - 1] = m /\ Tail(old)[j - 1] = k
        BY <1>5, <1>6, <2>2, <3>2
      <4> QED
        BY <1>3, <4>1 DEF HandedBefore
    <3>3. CASE c # d
      BY <1>3, <2>2, <3>3 DEF HandedBefore
    <3> QED
      BY <3>1, <3>2, <3>3
  <2> QED
    BY <2>1, <2>2 DEF HandedKept, InHanded, HandedBefore
<1>13. AllDurable'
  <2> SUFFICES ASSUME NEW id \in Id, Kept(id)'
               PROVE  SaveIsDurable(id)'
                      /\ \A e \in made'[id].joined : JoinIsDurable(id, e)'
    BY DEF AllDurable
  <2>1. Kept(id) /\ made'[id] = made[id]
    BY <1>1 DEF Kept, historyVars
  <2> QED
    BY <1>8, <1>10, <1>12, <2>1, DurableKept DEF DurabilityInv
<1>14. SignedOutWrites'
  <2> SUFFICES ASSUME NEW c \in Device
               PROVE  /\ form[c] # NoForm => user[c] # NoUser
                      /\ user[c] = NoUser => OnlyPictures(handed'[c])
                      /\ OnlyPictures(queue'[c][NoUser])
    BY <1>1 DEF SignedOutWrites, viewVars
  <2>1. /\ form[c] # NoForm => user[c] # NoUser
        /\ user[c] = NoUser => OnlyPictures(handed[c])
        /\ OnlyPictures(queue[c][NoUser])
    BY DEF DurabilityInv, SignedOutWrites
  <2>2. NoUser \in Credential
    BY DEF Credential
  <2>3. CASE c = d /\ user[d] = NoUser
    <3>1. \A i \in 1..Len(old) : old[i].op = "picture"
      BY <1>6, <2>1, <2>3 DEF OnlyPictures
    <3>2. OnlyPictures(Tail(old))
      <4>1. ASSUME NEW i \in 1..Len(Tail(old)) PROVE Tail(old)[i].op = "picture"
        <5>1. i + 1 \in 1..Len(old) /\ Tail(old)[i] = old[i + 1]
          BY <1>1, <1>2
        <5> QED
          BY <3>1, <5>1
      <4> QED
        BY <4>1 DEF OnlyPictures
    <3>3. queue'[c][NoUser] = Pending(d) \o <<h>> /\ Pending(d) = queue[c][NoUser]
          /\ Pending(d) \in Seq(Mutation)
      BY <1>1, <1>2, <2>3, WriteLocallyQueue, PendingType
    <3>4. h.op = "picture"
      BY <1>4, <3>1
    <3>5. OnlyPictures(queue'[c][NoUser])
      <4> DEFINE q == Pending(d)
      <4>1. q \in Seq(Mutation) /\ queue'[c][NoUser] = q \o <<h>>
            /\ \A i \in 1..Len(q) : q[i].op = "picture"
        BY <2>1, <3>3 DEF OnlyPictures
      <4> HIDE DEF q
      <4>2. \A i \in 1..Len(q \o <<h>>) : (q \o <<h>>)[i].op = "picture"
        <5>1. ASSUME NEW i \in 1..Len(q \o <<h>>)
              PROVE  (i \in 1..Len(q) /\ (q \o <<h>>)[i] = q[i]) \/ (q \o <<h>>)[i] = h
          BY <1>2, <4>1
        <5> QED
          BY <3>4, <4>1, <5>1
      <4> QED
        BY <4>1, <4>2 DEF OnlyPictures
    <3> QED
      BY <1>3, <2>1, <2>3, <3>2, <3>5
  <2>4. CASE c # d \/ user[d] # NoUser
    <3>1. queue'[c][NoUser] = queue[c][NoUser]
      BY <1>1, <1>2, <2>2, <2>4, WriteLocallyQueue
    <3>2. user[c] = NoUser => handed'[c] = handed[c]
      BY <1>3, <2>4
    <3> QED
      BY <2>1, <3>1, <3>2
  <2> QED
    BY <2>3, <2>4
<1> QED
  BY <1>7, <1>8, <1>13, <1>14 DEF DurabilityInv

LEMMA RestartDurable ==
  ASSUME TypeOK, KindsInv, DurabilityInv, NEW d \in Device, Restart(d)
  PROVE  DurabilityInv'
<1>1. /\ UNCHANGED <<server, user, queue, cache, object, owner, made>>
      /\ delivered' = [delivered EXCEPT ![d] = 0]
      /\ handed' = [handed EXCEPT ![d] = <<>>]
      /\ form' = [form EXCEPT ![d] = NoForm]
  BY DEF Restart
<1>2. delivered'[d] = 0
      /\ \A c \in Device : c # d => /\ delivered'[c] = delivered[c]
                                   /\ Pending(c)' = Pending(c)
  BY <1>1 DEF TypeOK, FirestoreTypeOK, Pending
<1>3. SentIsThere' /\ \A c \in Device : Sent(c)' \subseteq Sent(c)
  BY <1>1, <1>2, ClosedSends, ClosedSent DEF TypeOK, DurabilityInv
<1>4. JoinsAreThere' /\ UsersHaveProfiles'
  BY <1>1, <1>3, ServerSame DEF DurabilityInv
<1>5. /\ handed'[d] = <<>> /\ form'[d] = NoForm
      /\ \A c \in Device : c # d => handed'[c] = handed[c] /\ form'[c] = form[c]
  BY <1>1 DEF TypeOK
<1>6. ASSUME NEW id \in Id, Kept(id)'
      PROVE  SaveIsDurable(id)' /\ \A e \in made'[id].joined : JoinIsDurable(id, e)'
  <2>1. made[id] # NotMade /\ id \notin cut' /\ cut \subseteq cut'
    BY <1>1, <1>6 DEF Kept, Restart
  <2>2. Kept(id)
    BY <2>1 DEF Kept
  <2>3. Save(id).op = "set" /\ Save(id).path = id
    BY <2>1, SaveAndJoin
  <2>4. PICK m : m = Save(id)
    OBVIOUS
  <2>5. Save(id)' = m
    BY <1>1, <2>4 DEF Save
  <2>6. \A i \in 1..Len(handed[d]) : handed[d][i] # m
    BY <2>1, <2>3, <2>4 DEF Restart
  <2>7. InHanded(m) => InHanded(m)'
    BY <1>5, <2>6 DEF InHanded
  <2>8. \A j : HandedBefore(j, m) => HandedBefore(j, m)'
    BY <1>5, <2>6 DEF HandedBefore
  <2>9. \A j : InQueue(j) => InQueue(j)'
    BY <1>1 DEF InQueue, Waits
  <2>10. SaveIsDurable(id)'
    <3>1. server[id] # NoDoc \/ InQueue(m) \/ InHanded(m)
      BY <2>2, <2>4 DEF DurabilityInv, AllDurable, SaveIsDurable
    <3> QED
      BY <1>1, <2>5, <2>7, <2>9, <3>1 DEF SaveIsDurable
  <2>11. ASSUME NEW e \in made[id].joined PROVE JoinIsDurable(id, e)'
    <3>1. PICK j : j = Join(id, e)
      OBVIOUS
    <3>2. Join(id, e)' = j
      BY <1>1, <3>1 DEF Join
    <3>3. \/ server[e] # NoDoc /\ made[id].name \in server[e].projects
          \/ InQueue(j)
          \/ HandedBefore(j, m)
      BY <2>2, <2>4, <3>1 DEF DurabilityInv, AllDurable, JoinIsDurable
    <3> QED
      BY <1>1, <2>5, <2>8, <2>9, <3>2, <3>3 DEF JoinIsDurable
  <2> QED
    BY <1>1, <2>10, <2>11
<1>7. AllDurable'
  BY <1>6 DEF AllDurable
<1>8. OnlyPictures(<<>>)
  BY DEF OnlyPictures
<1>9. SignedOutWrites'
  <2> SUFFICES ASSUME NEW c \in Device
               PROVE  /\ form'[c] # NoForm => user[c] # NoUser
                      /\ user[c] = NoUser => OnlyPictures(handed'[c])
                      /\ OnlyPictures(queue[c][NoUser])
    BY <1>1 DEF SignedOutWrites
  <2>1. handed'[c] = <<>> \/ handed'[c] = handed[c]
    BY <1>5
  <2>2. form'[c] = NoForm \/ form'[c] = form[c]
    BY <1>5
  <2> QED
    BY <1>8, <2>1, <2>2 DEF DurabilityInv, SignedOutWrites
<1> QED
  BY <1>3, <1>4, <1>7, <1>9 DEF DurabilityInv

LEMMA StepDurable ==
  ASSUME TypeOK, KindsInv, DurabilityInv, [Next]_vars
  PROVE  DurabilityInv'
<1>1. CASE Next
  <2>1. ASSUME NEW d \in Device,
               \E call \in urlCalls[d] :
                 AnswerUrl(d, call) \/ RetryUrl(d, call) \/ UrlReceived(d, call)
        PROVE  DurabilityInv'
    BY <2>1, ViewDurable, UrlDurable
  <2> QED
    BY <1>1, <2>1, Steps, CredentialDurable, NetworkDurable, ViewDurable, DoneDurable,
       RestartDurable, PersistDurable
<1>2. CASE UNCHANGED vars
  <2>1. UNCHANGED <<firestoreVars, form, handed, made, cut>>
    BY <1>2 DEF vars, viewVars, historyVars
  <2>2. SentIsThere' /\ JoinsAreThere' /\ UsersHaveProfiles' /\ ServerGrows /\ QueuesKept
    BY <2>1, ClientSame
  <2>3. AllDurable'
    BY <2>1, <2>2, HandedSame DEF DurabilityInv
  <2>4. SignedOutWrites'
    BY <2>1 DEF DurabilityInv, SignedOutWrites, firestoreVars
  <2> QED
    BY <2>2, <2>3, <2>4 DEF DurabilityInv
<1> QED
  BY <1>1, <1>2

LEMMA InitDurable ==
  ASSUME Init
  PROVE  DurabilityInv
<1>1. SentIsThere /\ JoinsAreThere
  BY DEF Init, SentIsThere, JoinsAreThere, Sent
<1>2. UsersHaveProfiles
  BY BlankDocType, FirestoreAssumption, ProjectAssumption
     DEF Init, UsersHaveProfiles, Email
<1>3. SignedOutWrites
  BY DEF Init, SignedOutWrites, OnlyPictures, Credential
<1>4. AllDurable
  BY DEF Init, AllDurable, Kept
<1> QED
  BY <1>1, <1>2, <1>3, <1>4 DEF DurabilityInv

LEMMA DurabilityAlways == Spec => [](TypeOK /\ KindsInv /\ DurabilityInv)
<1>1. Init => TypeOK /\ KindsInv /\ DurabilityInv
  BY InitTypeKinds, InitDurable
<1>2. TypeOK /\ KindsInv /\ DurabilityInv /\ [Next]_vars
        => (TypeOK /\ KindsInv /\ DurabilityInv)'
  BY StepType, StepKinds, StepDurable
<1> QED
  BY <1>1, <1>2, PTL DEF Spec

LEMMA DurableWaiting ==
  /\ \A m : InQueue(m) \/ InHanded(m) => Waiting(m)
  /\ \A m, k : HandedBefore(m, k) => Waiting(m)
BY DEF InQueue, InHanded, HandedBefore, Waiting, Waits

\* Once Done was pressed, and unless the app was killed before the worker had
\* put everything on disk, the project and its participants' entries for it are
\* on the server or still waiting to get there.
THEOREM DurableDone == Spec => []DoneIsDurable
<1>1. ASSUME DurabilityInv PROVE DoneIsDurable
  <2> SUFFICES ASSUME NEW id \in Id, Kept(id)
               PROVE  /\ server[id] # NoDoc \/ Waiting(Save(id))
                      /\ \A e \in made[id].joined :
                           \/ server[e] # NoDoc /\ made[id].name \in server[e].projects
                           \/ Waiting(Join(id, e))
    BY DEF DoneIsDurable, Kept, Save, Join
  <2> QED
    BY <1>1, DurableWaiting DEF DurabilityInv, AllDurable, SaveIsDurable, JoinIsDurable
<1> QED
  BY <1>1, DurabilityAlways, PTL

\* A profile on the server names only projects that Done made, and each of them
\* is on the server, on its way, or lost to a kill between its two writes.
THEOREM NamedProjects == Spec => []ProfilesNameProjects
<1>1. ASSUME TypeOK, KindsInv, DurabilityInv PROVE ProfilesNameProjects
  <2> SUFFICES ASSUME NEW e \in Email, server[e] # NoDoc, NEW n \in server[e].projects
               PROVE  \E id \in Id :
                        /\ made[id] # NotMade /\ made[id].name = n
                        /\ \/ server[id] # NoDoc
                           \/ id \in cut
                           \/ Waiting(SetDoc(id, ProjectDoc(n)))
    BY DEF ProfilesNameProjects
  <2>1. e \in Path /\ e \notin Id /\ server[e] \in Docs[e]
    BY <1>1 DEF Email, KindsInv, DocsWithin
  <2>2. n \in MadeNames
    BY <2>1 DEF Docs, ProfileDocs
  <2>3. PICK id \in Id : made[id] # NotMade /\ made[id].name = n
    BY <2>2 DEF MadeNames
  <2>4. id \notin cut => server[id] # NoDoc \/ Waiting(Save(id))
    BY <1>1, <2>3, DurableWaiting DEF DurabilityInv, AllDurable, SaveIsDurable, Kept
  <2> QED
    BY <2>3, <2>4 DEF Save
<1> QED
  BY <1>1, DurabilityAlways, PTL
=============================================================================
