-------------------------- MODULE RegistrationProofs --------------------------
(* Proofs about Registration, for every number of devices, accounts, requests *)
(* and forms and every queue bound: Firestore ends up with the credential of  *)
(* the user that Auth holds, no page of somebody else stays on screen, and no *)
(* account loses its profile but for the reasons that "lost" records.         *)
EXTENDS Registration, FirestoreProofs

-----------------------------------------------------------------------------
(* The main queue, as a sequence of blocks *)

\* Once the blocks have run, Firestore's credential, now "cred", will be a.
Tells(bs, cred, a) ==
  /\ (\A i \in 1..Len(bs) : bs[i].do # "changed") => cred = a
  /\ \A i \in 1..Len(bs) :
       /\ bs[i].do = "changed"
       /\ \A j \in (i + 1)..Len(bs) : bs[j].do # "changed"
       => bs[i].user = a

\* A completion runs right after the credential has become its account's.
Ordered(bs, cred) ==
  \A i \in 1..Len(bs) :
    bs[i].do = "registered" =>
      IF i = 1 THEN cred = bs[i].user ELSE bs[i - 1] = Changed(bs[i].user)

CredentialAfter(b, cred) == IF b.do = "changed" THEN b.user ELSE cred

LEMMA BlockTypes ==
  /\ Listen \in Block
  /\ \A u \in Credential : Changed(u) \in Block
  /\ \A u \in Credential, form \in Nat : Registered(u, form) \in Block
BY DEF Listen, Changed, Registered, Block, Credential

LEMMA TellsAppendChanged ==
  ASSUME NEW bs \in Seq(Block), NEW cred, NEW a
  PROVE  Tells(Append(bs, Changed(a)), cred, a)
<1> DEFINE cs == Append(bs, Changed(a))
<1>1. /\ Len(cs) = Len(bs) + 1 /\ cs[Len(cs)] = Changed(a)
      /\ Len(cs) \in 1..Len(cs)
  OBVIOUS
<1>2. cs[Len(cs)].do = "changed" /\ cs[Len(cs)].user = a
  BY <1>1 DEF Changed
<1>3. ASSUME NEW i \in 1..Len(cs), \A j \in (i + 1)..Len(cs) : cs[j].do # "changed"
      PROVE  cs[i].user = a
  <2>1. i = Len(cs)
    BY <1>1, <1>2, <1>3
  <2>2. QED
    BY <1>2, <2>1
<1>4. QED
  BY <1>1, <1>2, <1>3 DEF Tells

LEMMA TellsAppendOther ==
  ASSUME NEW bs \in Seq(Block), NEW cred, NEW a, Tells(bs, cred, a),
         NEW b \in Block, b.do # "changed"
  PROVE  Tells(Append(bs, b), cred, a)
<1> DEFINE cs == Append(bs, b)
<1>1. /\ Len(cs) = Len(bs) + 1 /\ cs[Len(bs) + 1] = b
      /\ \A i \in 1..Len(bs) : cs[i] = bs[i]
      /\ 1..Len(bs) \subseteq 1..Len(cs)
  OBVIOUS
<1>2. (\A i \in 1..Len(cs) : cs[i].do # "changed") => cred = a
  BY <1>1 DEF Tells
<1>3. ASSUME NEW i \in 1..Len(cs), cs[i].do = "changed",
             \A j \in (i + 1)..Len(cs) : cs[j].do # "changed"
      PROVE  cs[i].user = a
  <2>1. i \in 1..Len(bs)
    BY <1>1, <1>3
  <2>2. \A j \in (i + 1)..Len(bs) : bs[j].do # "changed"
    <3>1. ASSUME NEW j \in (i + 1)..Len(bs) PROVE bs[j].do # "changed"
      <4>1. j \in (i + 1)..Len(cs) /\ j \in 1..Len(bs)
        BY <1>1, <2>1
      <4>2. QED
        BY <1>1, <1>3, <4>1
    <3>2. QED
      BY <3>1
  <2>3. QED
    BY <1>1, <1>3, <2>1, <2>2 DEF Tells
<1>4. QED
  BY <1>2, <1>3 DEF Tells

LEMMA TellsTail ==
  ASSUME NEW bs \in Seq(Block), bs # <<>>, NEW cred, NEW a, Tells(bs, cred, a)
  PROVE  Tells(Tail(bs), CredentialAfter(Head(bs), cred), a)
<1> DEFINE cs == Tail(bs)
<1>1. /\ Len(cs) = Len(bs) - 1 /\ Head(bs) = bs[1] /\ Len(bs) \in Nat \ {0}
      /\ \A i \in 1..Len(cs) : cs[i] = bs[i + 1] /\ i + 1 \in 1..Len(bs)
  OBVIOUS
<1>2. ASSUME \A i \in 1..Len(cs) : cs[i].do # "changed"
      PROVE  CredentialAfter(Head(bs), cred) = a
  <2>1. \A i \in 2..Len(bs) : bs[i].do # "changed"
    <3>1. ASSUME NEW i \in 2..Len(bs) PROVE bs[i].do # "changed"
      <4>1. i - 1 \in 1..Len(cs) /\ cs[i - 1] = bs[i]
        BY <1>1
      <4>2. QED
        BY <1>2, <4>1
    <3>2. QED
      BY <3>1
  <2>2. CASE bs[1].do = "changed"
    <3>1. 1 \in 1..Len(bs) /\ \A j \in (1 + 1)..Len(bs) : bs[j].do # "changed"
      BY <1>1, <2>1
    <3>2. bs[1].user = a
      BY <2>2, <3>1 DEF Tells
    <3>3. QED
      BY <1>1, <2>2, <3>2 DEF CredentialAfter
  <2>3. CASE bs[1].do # "changed"
    <3>1. \A i \in 1..Len(bs) : bs[i].do # "changed"
      BY <1>1, <2>1, <2>3
    <3>2. QED
      BY <1>1, <2>3, <3>1 DEF Tells, CredentialAfter
  <2>4. QED
    BY <2>2, <2>3
<1>3. ASSUME NEW i \in 1..Len(cs), cs[i].do = "changed",
             \A j \in (i + 1)..Len(cs) : cs[j].do # "changed"
      PROVE  cs[i].user = a
  <2>1. \A j \in (i + 1 + 1)..Len(bs) : bs[j].do # "changed"
    <3>1. ASSUME NEW j \in (i + 1 + 1)..Len(bs) PROVE bs[j].do # "changed"
      <4>1. j - 1 \in (i + 1)..Len(cs) /\ j - 1 \in 1..Len(cs) /\ j - 1 + 1 = j
        BY <1>1
      <4>2. QED
        BY <1>1, <1>3, <4>1
    <3>2. QED
      BY <3>1
  <2>2. QED
    BY <1>1, <1>3, <2>1 DEF Tells
<1>4. QED
  BY <1>2, <1>3 DEF Tells

LEMMA OrderedAppend ==
  ASSUME NEW bs \in Seq(Block), NEW cred, Ordered(bs, cred),
         NEW b \in Block,
         b.do # "registered" \/ (bs # <<>> /\ bs[Len(bs)] = Changed(b.user))
  PROVE  Ordered(Append(bs, b), cred)
<1> DEFINE cs == Append(bs, b)
<1>1. /\ Len(cs) = Len(bs) + 1 /\ cs[Len(bs) + 1] = b /\ Len(bs) \in Nat
      /\ \A i \in 1..Len(bs) : cs[i] = bs[i]
  OBVIOUS
<1>2. ASSUME NEW i \in 1..Len(cs), cs[i].do = "registered"
      PROVE  IF i = 1 THEN cred = cs[i].user ELSE cs[i - 1] = Changed(cs[i].user)
  <2>1. CASE i \in 1..Len(bs)
    <3>1. i # 1 => i - 1 \in 1..Len(bs)
      BY <2>1
    <3>2. QED
      BY <1>1, <1>2, <2>1, <3>1 DEF Ordered
  <2>2. CASE i \notin 1..Len(bs)
    <3>1. i = Len(bs) + 1 /\ bs # <<>> /\ bs[Len(bs)] = Changed(b.user)
      BY <1>1, <1>2, <2>2
    <3>2. i # 1 /\ i - 1 \in 1..Len(bs) /\ i - 1 = Len(bs)
      BY <1>1, <3>1
    <3>3. QED
      BY <1>1, <3>1, <3>2
  <2>3. QED
    BY <2>1, <2>2
<1>3. QED
  BY <1>2 DEF Ordered

LEMMA OrderedTail ==
  ASSUME NEW bs \in Seq(Block), bs # <<>>, NEW cred, Ordered(bs, cred)
  PROVE  Ordered(Tail(bs), CredentialAfter(Head(bs), cred))
<1> DEFINE cs == Tail(bs)
<1>1. /\ Len(cs) = Len(bs) - 1 /\ Head(bs) = bs[1] /\ Len(bs) \in Nat \ {0}
      /\ \A i \in 1..Len(cs) : cs[i] = bs[i + 1] /\ i + 1 \in 1..Len(bs)
  OBVIOUS
<1>2. ASSUME NEW i \in 1..Len(cs), cs[i].do = "registered"
      PROVE  IF i = 1 THEN CredentialAfter(Head(bs), cred) = cs[i].user
             ELSE cs[i - 1] = Changed(cs[i].user)
  <2>1. bs[i] = Changed(cs[i].user)
    <3>1. i + 1 # 1 /\ i + 1 - 1 = i
      OBVIOUS
    <3>2. QED
      BY <1>1, <1>2, <3>1 DEF Ordered
  <2>2. CASE i = 1
    BY <1>1, <2>1, <2>2 DEF CredentialAfter, Changed
  <2>3. CASE i # 1
    <3>1. i - 1 \in 1..Len(cs) /\ i - 1 + 1 = i
      BY <2>3
    <3>2. QED
      BY <1>1, <2>1, <2>3, <3>1
  <2>4. QED
    BY <2>2, <2>3
<1>3. QED
  BY <1>2 DEF Ordered

LEMMA StartBlocksAreGood ==
  ASSUME NEW u \in Credential, NEW bs \in StartBlocks(u)
  PROVE  /\ bs \in Seq(Block)
         /\ Tells(bs, NoUser, u)
         /\ Ordered(bs, NoUser)
         /\ \A i \in 1..Len(bs) : bs[i].do # "registered"
<1>1. Listen \in Block /\ Changed(u) \in Block
  BY BlockTypes
<1>2. /\ Listen.do = "listen" /\ Changed(u).do = "changed"
      /\ Changed(u).user = u
  BY DEF Listen, Changed
<1>3. CASE u = NoUser
  <2>1. bs = <<Listen>>
    BY <1>3 DEF StartBlocks
  <2>2. QED
    BY <1>1, <1>2, <1>3, <2>1 DEF Tells, Ordered
<1>4. CASE u # NoUser
  <2>1. bs = <<Changed(u), Listen>> \/ bs = <<Listen, Changed(u)>>
    BY <1>4 DEF StartBlocks
  <2>2. CASE bs = <<Changed(u), Listen>>
    <3>1. Len(bs) = 2 /\ bs[1] = Changed(u) /\ bs[2] = Listen /\ bs \in Seq(Block)
      BY <1>1, <2>2
    <3>2. QED
      BY <1>2, <3>1 DEF Tells, Ordered
  <2>3. CASE bs = <<Listen, Changed(u)>>
    <3>1. Len(bs) = 2 /\ bs[1] = Listen /\ bs[2] = Changed(u) /\ bs \in Seq(Block)
      BY <1>1, <2>3
    <3>2. QED
      BY <1>2, <3>1 DEF Tells, Ordered
  <2>4. QED
    BY <2>1, <2>2, <2>3
<1>5. QED
  BY <1>3, <1>4

-----------------------------------------------------------------------------
(* The inductive invariant *)

MainQueueTells ==
  \A d \in Device : /\ Tells(blocks[d], user[d], auth[d])
                   /\ Ordered(blocks[d], user[d])

\* Requests and completions belong to forms that were opened; only the service's
\* answer to a sign-up makes an account.
FormsKnown ==
  \A d \in Device :
    /\ \A n \in 1..MaxCalls : calls[d][n] # NoCall =>
         /\ calls[d][n].kind = "signUp" => calls[d][n].form \in 1..Len(field[d])
         /\ calls[d][n].made => calls[d][n].kind = "signUp"
    /\ \A i \in 1..Len(blocks[d]) : blocks[d][i].do = "registered" =>
         blocks[d][i].user \in User /\ blocks[d][i].form \in 1..Len(field[d])

IInv ==
  /\ TypeOK
  /\ SentIsThere
  /\ MainQueueTells
  /\ FormsKnown
  /\ AccountsGetTheirProfile

\* The profiles stay accounted for if each of the ways in which they were is
\* kept or leads on to the next one.
LEMMA ProfilesKept ==
  ASSUME accounts \subseteq User, AccountsGetTheirProfile, lost \subseteq lost',
         \A a \in accounts' : a \in accounts \/ \E d \in Device : a \in Underway(d)',
         \A a \in User : server[a] # NoDoc => server'[a] # NoDoc,
         \A d \in Device, a \in User :
           Queued(d, a, a) => Queued(d, a, a)' \/ server'[a] # NoDoc,
         \A d \in Device, a \in User :
           a \in Underway(d) =>
             a \in Underway(d)' \/ a \in lost' \/ Queued(d, a, a)'
  PROVE  AccountsGetTheirProfile'
<1>1. ASSUME NEW a \in accounts', a \notin lost'
      PROVE  \/ server'[a] # NoDoc
             \/ \E d \in Device : a \in Underway(d)' \/ Queued(d, a, a)'
  <2>1. CASE a \in accounts
    <3>1. \/ server[a] # NoDoc
          \/ \E d \in Device : a \in Underway(d) \/ Queued(d, a, a)
      BY <1>1, <2>1 DEF AccountsGetTheirProfile
    <3>2. a \in User
      BY <2>1
    <3>3. QED
      BY <1>1, <3>1, <3>2
  <2>2. CASE a \notin accounts
    BY <1>1, <2>2
  <2>3. QED
    BY <2>1, <2>2
<1>2. QED
  BY <1>1 DEF AccountsGetTheirProfile

\* What holds of Firestore and of the main queue is not touched by the screens.
LEMMA QuietKeeps ==
  ASSUME IInv, UNCHANGED <<firestoreVars, auth, blocks>>
  PROVE  FirestoreTypeOK' /\ SentIsThere' /\ MainQueueTells'
BY DEF IInv, TypeOK, firestoreVars, FirestoreTypeOK, SentIsThere, Pending,
       MainQueueTells

LEMMA InitHolds == Init => IInv
<1> SUFFICES ASSUME Init PROVE IInv
  OBVIOUS
<1>1. FirestoreTypeOK
  <2>1. \A d \in Device : Pending(d) = <<>>
    BY DEF Init, Pending, Credential
  <2>2. QED
    BY <2>1, BlankDocType DEF Init, FirestoreTypeOK, Credential, MaybeDoc
<1>2. TypeOK
  <2>1. <<Listen>> \in Seq(Block)
    BY BlockTypes
  <2>2. QED
    BY <1>1, <2>1 DEF Init, TypeOK, Credential
<1>3. SentIsThere
  BY DEF Init, SentIsThere
<1>4. <<Listen>> \in StartBlocks(NoUser)
  BY DEF StartBlocks
<1>5. MainQueueTells
  BY <1>4, StartBlocksAreGood DEF Init, MainQueueTells, Credential
<1>6. FormsKnown
  BY <1>4, StartBlocksAreGood DEF Init, FormsKnown, Credential
<1>7. AccountsGetTheirProfile
  <2>1. \A a \in accounts : server[a] = BlankDoc
    BY RegistrationAssumption DEF Init
  <2>2. QED
    BY <2>1, BlankDocType, FirestoreAssumption DEF AccountsGetTheirProfile
<1>8. QED
  BY <1>2, <1>3, <1>5, <1>6, <1>7 DEF IInv

-----------------------------------------------------------------------------
(* The user's actions *)

LEMMA OpenSignUpKeeps ==
  ASSUME IInv, NEW d \in Device, OpenSignUp(d)
  PROVE  IInv'
<1> USE DEF IInv
<1>1. FirestoreTypeOK' /\ SentIsThere' /\ MainQueueTells'
  BY QuietKeeps DEF OpenSignUp, authVars
<1>2. /\ field[d] \in Seq(Credential) /\ NoUser \in Credential
      /\ field' = [field EXCEPT ![d] = Append(field[d], NoUser)]
  BY DEF OpenSignUp, TypeOK, Credential
<1>3. /\ Append(field[d], NoUser) \in Seq(Credential)
      /\ Append(field[d], NoUser) # <<>>
      /\ 1..Len(field[d]) \subseteq 1..Len(Append(field[d], NoUser))
  BY <1>2
<1>4. TypeOK'
  BY <1>1, <1>2, <1>3 DEF OpenSignUp, TypeOK, authVars
<1>5. \A c \in Device : 1..Len(field[c]) \subseteq 1..Len(field'[c])
  BY <1>2, <1>3 DEF TypeOK
<1>6. FormsKnown'
  BY <1>5 DEF OpenSignUp, FormsKnown, authVars
<1>7. AccountsGetTheirProfile'
  BY ProfilesKept
     DEF OpenSignUp, TypeOK, authVars, firestoreVars, Underway, Queued
<1>8. QED
  BY <1>1, <1>4, <1>6, <1>7

LEMMA TypeKeeps ==
  ASSUME IInv, NEW d \in Device, NEW email \in Credential, Type(d, email)
  PROVE  IInv'
<1> USE DEF IInv
<1>1. FirestoreTypeOK' /\ SentIsThere' /\ MainQueueTells'
  BY QuietKeeps DEF Type, authVars
<1> DEFINE fs == [field[d] EXCEPT ![Len(field[d])] = email]
<1>2. field[d] \in Seq(Credential) /\ field[d] # <<>>
  BY DEF Type, TypeOK
<1>3. Len(field[d]) \in 1..Len(field[d])
  BY <1>2
<1>4. fs \in Seq(Credential) /\ Len(fs) = Len(field[d]) /\ fs # <<>>
  BY <1>2, <1>3, ExceptSeq
<1>5. field' = [field EXCEPT ![d] = fs]
  BY DEF Type, TypeOK
<1>6. TypeOK'
  BY <1>1, <1>4, <1>5 DEF Type, TypeOK, authVars
<1>7. \A c \in Device : Len(field'[c]) = Len(field[c])
  BY <1>4, <1>5 DEF TypeOK
<1>8. FormsKnown'
  BY <1>7 DEF Type, FormsKnown, authVars
<1>9. AccountsGetTheirProfile'
  BY ProfilesKept DEF Type, TypeOK, authVars, firestoreVars, Underway, Queued
<1>10. QED
  BY <1>1, <1>6, <1>8, <1>9

LEMMA RequestKeeps ==
  ASSUME IInv, NEW d \in Device, NEW n \in 1..MaxCalls, NEW call \in Call,
         ~call.made, call.kind = "signUp" => call.form \in 1..Len(field[d]),
         Request(d, n, call)
  PROVE  IInv'
<1> USE DEF IInv
<1>1. FirestoreTypeOK' /\ SentIsThere' /\ MainQueueTells'
  BY QuietKeeps DEF Request
<1>2. calls' \in [Device -> [1..MaxCalls -> Call \cup {NoCall}]]
  BY DEF Request, TypeOK
<1>3. TypeOK'
  BY <1>1, <1>2 DEF Request, TypeOK, appVars
<1>4. \A c \in Device, k \in 1..MaxCalls :
        calls'[c][k] = IF c = d /\ k = n THEN call ELSE calls[c][k]
  BY DEF Request, TypeOK
<1>5. FormsKnown'
  BY <1>4 DEF Request, FormsKnown, appVars
<1>6. \A c \in Device, a \in User : a \in Underway(c) => a \in Underway(c)'
  BY <1>4 DEF Request, Underway
<1>7. AccountsGetTheirProfile'
  BY <1>6, ProfilesKept DEF Request, TypeOK, firestoreVars, Queued
<1>8. QED
  BY <1>1, <1>3, <1>5, <1>7

LEMMA signUpKeeps ==
  ASSUME IInv, NEW d \in Device, NEW n \in 1..MaxCalls, signUp(d, n)
  PROVE  IInv'
<1> DEFINE call == [kind |-> "signUp", email |-> Last(field[d]),
                    form |-> Len(field[d]), made |-> FALSE]
<1>1. field[d] \in Seq(Credential) /\ field[d] # <<>>
  BY DEF signUp, IInv, TypeOK
<1>2. Last(field[d]) \in Credential
  BY <1>1 DEF Last
<1>3. Len(field[d]) \in 1..Len(field[d]) /\ Len(field[d]) \in Nat
  BY <1>1
<1>4. call \in Call
  BY <1>2, <1>3 DEF signUp, Call, Credential
<1>5. Request(d, n, call)
  BY DEF signUp
<1>6. QED
  BY <1>3, <1>4, <1>5, RequestKeeps

LEMMA loginKeeps ==
  ASSUME IInv, NEW d \in Device, NEW n \in 1..MaxCalls, NEW u \in User,
         login(d, n, u)
  PROVE  IInv'
<1> DEFINE call == [kind |-> "signIn", email |-> u, form |-> 0, made |-> FALSE]
<1>1. call \in Call
  BY DEF Call
<1>2. QED
  BY <1>1, RequestKeeps DEF login

-----------------------------------------------------------------------------
(* Auth's answers append to the main queue *)

\* One device's main queue and current user change, Firestore does not.
LEMMA AppendedKeeps ==
  ASSUME IInv, NEW d \in Device, NEW u \in Credential, NEW bs \in Seq(Block),
         UNCHANGED firestoreVars,
         auth' = [auth EXCEPT ![d] = u], blocks' = [blocks EXCEPT ![d] = bs],
         Tells(bs, user[d], u), Ordered(bs, user[d])
  PROVE  /\ FirestoreTypeOK' /\ SentIsThere' /\ MainQueueTells'
         /\ auth' \in [Device -> Credential]
         /\ blocks' \in [Device -> Seq(Block)]
<1> USE DEF IInv
<1>1. FirestoreTypeOK' /\ SentIsThere'
  BY DEF TypeOK, firestoreVars, FirestoreTypeOK, SentIsThere, Pending
<1>2. auth' \in [Device -> Credential] /\ blocks' \in [Device -> Seq(Block)]
  BY DEF TypeOK
<1>3. MainQueueTells'
  BY DEF MainQueueTells, TypeOK, firestoreVars
<1>4. QED
  BY <1>1, <1>2, <1>3

LEMMA signOutKeeps ==
  ASSUME IInv, NEW d \in Device, signOut(d)
  PROVE  IInv'
<1> USE DEF IInv
<1> DEFINE bs == IF auth[d] = NoUser THEN blocks[d]
                 ELSE Append(blocks[d], Changed(NoUser))
<1>1. /\ blocks[d] \in Seq(Block) /\ Changed(NoUser) \in Block
      /\ NoUser \in Credential /\ Changed(NoUser).do = "changed"
  BY BlockTypes DEF TypeOK, Credential, Changed
<1>2. bs \in Seq(Block) /\ blocks' = [blocks EXCEPT ![d] = bs]
  BY <1>1 DEF signOut
<1>3. Tells(bs, user[d], NoUser) /\ Ordered(bs, user[d])
  <2>1. CASE auth[d] = NoUser
    BY <2>1 DEF MainQueueTells
  <2>2. CASE auth[d] # NoUser
    BY <1>1, <2>2, TellsAppendChanged, OrderedAppend DEF MainQueueTells
  <2>3. QED
    BY <2>1, <2>2
<1>4. /\ FirestoreTypeOK' /\ SentIsThere' /\ MainQueueTells'
      /\ auth' \in [Device -> Credential]
      /\ blocks' \in [Device -> Seq(Block)]
  BY <1>1, <1>2, <1>3, AppendedKeeps DEF signOut
<1>5. TypeOK'
  BY <1>1, <1>4 DEF signOut, TypeOK
<1>6. \A c \in Device :
        /\ 1..Len(blocks[c]) \subseteq 1..Len(blocks'[c])
        /\ \A i \in 1..Len(blocks[c]) : blocks'[c][i] = blocks[c][i]
        /\ \A i \in 1..Len(blocks'[c]) :
             blocks'[c][i].do = "registered" => i \in 1..Len(blocks[c])
  <2>1. /\ Len(Append(blocks[d], Changed(NoUser))) = Len(blocks[d]) + 1
        /\ Append(blocks[d], Changed(NoUser))[Len(blocks[d]) + 1]
             = Changed(NoUser)
        /\ \A i \in 1..Len(blocks[d]) :
             Append(blocks[d], Changed(NoUser))[i] = blocks[d][i]
        /\ Len(blocks[d]) \in Nat
    BY <1>1
  <2>2. QED
    BY <1>1, <1>2, <2>1 DEF TypeOK
<1>7. FormsKnown'
  BY <1>6 DEF signOut, FormsKnown
<1>8. \A c \in Device, a \in User : a \in Underway(c) => a \in Underway(c)'
  BY <1>6 DEF signOut, Underway
<1>9. AccountsGetTheirProfile'
  BY <1>8, ProfilesKept DEF signOut, TypeOK, firestoreVars, Queued
<1>10. QED
  BY <1>4, <1>5, <1>7, <1>9

LEMMA CallTypes ==
  ASSUME TypeOK, NEW d \in Device, NEW n \in 1..MaxCalls
  PROVE  calls[d][n] \in Call \cup {NoCall}
<1>1. calls \in [Device -> [1..MaxCalls -> Call \cup {NoCall}]]
  BY DEF TypeOK
<1>2. QED
  BY <1>1

LEMMA AccountMadeKeeps ==
  ASSUME IInv, NEW d \in Device, NEW n \in 1..MaxCalls, AccountMade(d, n)
  PROVE  IInv'
<1> USE DEF IInv
<1> DEFINE c == calls[d][n]
<1>1. FirestoreTypeOK' /\ SentIsThere' /\ MainQueueTells'
  BY QuietKeeps DEF AccountMade
<1>2. c \in Call /\ c # NoCall /\ c.kind = "signUp"
  <2>1. c \in Call \cup {NoCall}
    BY CallTypes
  <2>2. c # NoCall /\ c.kind = "signUp"
    BY DEF AccountMade
  <2>3. QED
    BY <2>1, <2>2
<1>3. [c EXCEPT !.made = TRUE] \in Call /\ [c EXCEPT !.made = TRUE].email = c.email
      /\ [c EXCEPT !.made = TRUE].kind = c.kind
      /\ [c EXCEPT !.made = TRUE].form = c.form
      /\ [c EXCEPT !.made = TRUE].made
  BY <1>2 DEF Call
<1>4. [c EXCEPT !.made = TRUE] # NoCall /\ c.email \in User
  BY <1>2, <1>3, RegistrationAssumption DEF Call
<1>5. calls' = [calls EXCEPT ![d][n] = [c EXCEPT !.made = TRUE]]
  BY DEF AccountMade
<1>6. TypeOK'
  BY <1>1, <1>3, <1>4, <1>5 DEF AccountMade, TypeOK, appVars
<1>7. \A e \in Device, k \in 1..MaxCalls :
        calls'[e][k] = IF e = d /\ k = n THEN [c EXCEPT !.made = TRUE]
                       ELSE calls[e][k]
  BY <1>5 DEF TypeOK
<1>8. FormsKnown'
  BY <1>2, <1>3, <1>7 DEF AccountMade, FormsKnown, appVars
<1>9. \A e \in Device, a \in User : a \in Underway(e) => a \in Underway(e)'
  BY <1>3, <1>4, <1>7 DEF AccountMade, Underway
<1>10. c.email \in Underway(d)'
  BY <1>3, <1>4, <1>7 DEF Underway
<1>11. AccountsGetTheirProfile'
  <2>1. \A a \in accounts' : a \in accounts \/ \E e \in Device : a \in Underway(e)'
    BY <1>10 DEF AccountMade
  <2>2. QED
    BY <1>9, <2>1, ProfilesKept DEF AccountMade, TypeOK, firestoreVars, Queued
<1>12. QED
  BY <1>1, <1>6, <1>8, <1>11

\* The blocks that an answer appends.
AnswerBlocks(c, bs) ==
  IF c.kind = "signUp"
    THEN Append(Append(bs, Changed(c.email)), Registered(c.email, c.form))
    ELSE Append(bs, Changed(c.email))

LEMMA AnswerBlocksAreGood ==
  ASSUME NEW c \in Call, NEW bs \in Seq(Block), NEW cred, Ordered(bs, cred)
  PROVE  /\ AnswerBlocks(c, bs) \in Seq(Block)
         /\ Tells(AnswerBlocks(c, bs), cred, c.email)
         /\ Ordered(AnswerBlocks(c, bs), cred)
         /\ 1..Len(bs) \subseteq 1..Len(AnswerBlocks(c, bs))
         /\ \A i \in 1..Len(bs) : AnswerBlocks(c, bs)[i] = bs[i]
         /\ \A i \in 1..Len(AnswerBlocks(c, bs)) :
              AnswerBlocks(c, bs)[i].do = "registered" =>
                \/ i \in 1..Len(bs)
                \/ /\ c.kind = "signUp"
                   /\ AnswerBlocks(c, bs)[i] = Registered(c.email, c.form)
         /\ c.kind = "signUp" =>
              \E i \in 1..Len(AnswerBlocks(c, bs)) :
                AnswerBlocks(c, bs)[i] = Registered(c.email, c.form)
<1> DEFINE x == Changed(c.email)
           y == Registered(c.email, c.form)
           bx == Append(bs, x)
           by == Append(bx, y)
<1>1. c.email \in User /\ c.email \in Credential /\ c.form \in Nat
  BY DEF Call, Credential
<1>2. x \in Block /\ y \in Block
  BY <1>1, BlockTypes
<1>3. x.do = "changed" /\ y.do = "registered" /\ y.user = c.email
  BY DEF Changed, Registered
<1>4. /\ bx \in Seq(Block) /\ Len(bx) = Len(bs) + 1 /\ bx[Len(bs) + 1] = x
      /\ \A i \in 1..Len(bs) : bx[i] = bs[i]
      /\ Len(bs) \in Nat /\ bx # <<>>
  BY <1>2
<1>5. Tells(bx, cred, c.email) /\ Ordered(bx, cred)
  BY <1>2, <1>3, TellsAppendChanged, OrderedAppend
<1>6. /\ by \in Seq(Block) /\ Len(by) = Len(bs) + 2 /\ by[Len(bs) + 2] = y
      /\ by[Len(bs) + 1] = x /\ \A i \in 1..Len(bs) : by[i] = bs[i]
  <2>1. Len(by) = Len(bx) + 1 /\ by[Len(bx) + 1] = y /\ by \in Seq(Block)
        /\ \A i \in 1..Len(bx) : by[i] = bx[i]
    BY <1>2, <1>4
  <2>2. QED
    BY <1>4, <2>1
<1>7. Tells(by, cred, c.email) /\ Ordered(by, cred)
  <2>1. bx[Len(bx)] = Changed(y.user)
    BY <1>3, <1>4
  <2>2. QED
    BY <1>2, <1>3, <1>4, <1>5, <2>1, TellsAppendOther, OrderedAppend
<1>8. CASE c.kind = "signUp"
  <2>1. AnswerBlocks(c, bs) = by
    BY <1>8 DEF AnswerBlocks
  <2>2. Len(bs) + 2 \in 1..Len(by)
    BY <1>4, <1>6
  <2>3. \A i \in 1..Len(by) :
          by[i].do = "registered" => i \in 1..Len(bs) \/ by[i] = y
    BY <1>3, <1>4, <1>6
  <2>4. 1..Len(bs) \subseteq 1..Len(by)
    BY <1>4, <1>6
  <2>5. QED
    BY <1>6, <1>7, <1>8, <2>1, <2>2, <2>3, <2>4
<1>9. CASE c.kind # "signUp"
  <2>1. AnswerBlocks(c, bs) = bx
    BY <1>9 DEF AnswerBlocks
  <2>2. \A i \in 1..Len(bx) : bx[i].do = "registered" => i \in 1..Len(bs)
    BY <1>3, <1>4
  <2>3. 1..Len(bs) \subseteq 1..Len(bx)
    BY <1>4
  <2>4. QED
    BY <1>4, <1>5, <1>9, <2>1, <2>2, <2>3
<1>10. QED
  BY <1>8, <1>9

LEMMA AnsweredKeeps ==
  ASSUME IInv, NEW d \in Device, NEW n \in 1..MaxCalls, Answered(d, n)
  PROVE  IInv'
<1> USE DEF IInv
<1> DEFINE c == calls[d][n]
           bs == AnswerBlocks(c, blocks[d])
<1>0. c \in Call /\ c # NoCall
  BY DEF Answered, TypeOK
<1>1. c \in Call /\ c # NoCall /\ c.email \in User /\ c.email \in Credential
  BY <1>0 DEF Call, Credential
<1>2. blocks[d] \in Seq(Block) /\ Ordered(blocks[d], user[d])
  BY DEF TypeOK, MainQueueTells
<1>3. /\ bs \in Seq(Block)
      /\ Tells(bs, user[d], c.email)
      /\ Ordered(bs, user[d])
      /\ 1..Len(blocks[d]) \subseteq 1..Len(bs)
      /\ \A i \in 1..Len(blocks[d]) : bs[i] = blocks[d][i]
      /\ \A i \in 1..Len(bs) : bs[i].do = "registered" =>
           \/ i \in 1..Len(blocks[d])
           \/ c.kind = "signUp" /\ bs[i] = Registered(c.email, c.form)
      /\ c.kind = "signUp" =>
           \E i \in 1..Len(bs) : bs[i] = Registered(c.email, c.form)
  BY <1>1, <1>2, AnswerBlocksAreGood
<1>4. /\ blocks' = [blocks EXCEPT ![d] = bs]
      /\ auth' = [auth EXCEPT ![d] = c.email]
      /\ calls' = [calls EXCEPT ![d][n] = NoCall]
  BY DEF Answered, AnswerBlocks
<1>5. /\ FirestoreTypeOK' /\ SentIsThere' /\ MainQueueTells'
      /\ auth' \in [Device -> Credential]
      /\ blocks' \in [Device -> Seq(Block)]
  BY <1>1, <1>3, <1>4, AppendedKeeps DEF Answered
<1>6. calls' \in [Device -> [1..MaxCalls -> Call \cup {NoCall}]]
  BY <1>4 DEF TypeOK
<1>7. TypeOK'
  BY <1>5, <1>6 DEF Answered, TypeOK, appVars
<1>8. \A e \in Device, k \in 1..MaxCalls :
        calls'[e][k] = IF e = d /\ k = n THEN NoCall ELSE calls[e][k]
  BY <1>4 DEF TypeOK
<1>9. \A e \in Device : blocks'[e] = IF e = d THEN bs ELSE blocks[e]
  BY <1>4 DEF TypeOK
<1>10. Registered(c.email, c.form).user = c.email
       /\ Registered(c.email, c.form).form = c.form
       /\ Registered(c.email, c.form).do = "registered"
  BY DEF Registered
<1>11. FormsKnown'
  <2>1. ASSUME NEW e \in Device, NEW i \in 1..Len(blocks'[e]),
               blocks'[e][i].do = "registered"
        PROVE  blocks'[e][i].user \in User
               /\ blocks'[e][i].form \in 1..Len(field[e])
    <3>1. CASE e # d
      BY <1>9, <2>1, <3>1 DEF FormsKnown
    <3>2. CASE e = d /\ i \in 1..Len(blocks[d])
      BY <1>3, <1>9, <2>1, <3>2 DEF FormsKnown
    <3>3. CASE e = d /\ i \notin 1..Len(blocks[d])
      <4>1. c.kind = "signUp" /\ bs[i] = Registered(c.email, c.form)
        BY <1>3, <1>9, <2>1, <3>3
      <4>2. c.form \in 1..Len(field[d])
        BY <1>1, <4>1 DEF FormsKnown
      <4>3. QED
        BY <1>1, <1>9, <1>10, <3>3, <4>1, <4>2
    <3>4. QED
      BY <3>1, <3>2, <3>3
  <2>2. field' = field
    BY DEF Answered, appVars
  <2>3. ASSUME NEW e \in Device, NEW k \in 1..MaxCalls, calls'[e][k] # NoCall
        PROVE  /\ calls'[e][k].kind = "signUp" =>
                    calls'[e][k].form \in 1..Len(field'[e])
               /\ calls'[e][k].made => calls'[e][k].kind = "signUp"
    <3>1. calls'[e][k] = calls[e][k]
      BY <1>8, <2>3
    <3>2. QED
      BY <2>2, <2>3, <3>1 DEF FormsKnown
  <2>4. QED
    BY <2>1, <2>2, <2>3 DEF FormsKnown
<1>12. ASSUME NEW e \in Device, NEW a \in User, a \in Underway(e)
       PROVE  a \in Underway(e)'
  <2>1. CASE e # d
    BY <1>8, <1>9, <1>12, <2>1 DEF Underway
  <2>2. CASE e = d /\ \E i \in 1..Len(blocks[d]) :
               blocks[d][i].do = "registered" /\ blocks[d][i].user = a
    BY <1>3, <1>9, <2>2 DEF Underway
  <2>3. CASE e = d /\ \E k \in 1..MaxCalls : /\ calls[d][k] # NoCall
                                           /\ calls[d][k].made
                                           /\ calls[d][k].email = a
    <3>1. PICK k \in 1..MaxCalls : /\ calls[d][k] # NoCall
                                   /\ calls[d][k].made
                                   /\ calls[d][k].email = a
      BY <2>3
    <3>2. CASE k = n
      <4>1. c.kind = "signUp" /\ c.email = a
        BY <3>1, <3>2 DEF FormsKnown
      <4>2. QED
        BY <1>3, <1>9, <1>10, <2>3, <4>1 DEF Underway
    <3>3. CASE k # n
      BY <1>8, <2>3, <3>1, <3>3 DEF Underway
    <3>4. QED
      BY <3>2, <3>3
  <2>4. QED
    BY <1>12, <2>1, <2>2, <2>3 DEF Underway
<1>13. AccountsGetTheirProfile'
  BY <1>12, ProfilesKept DEF Answered, TypeOK, firestoreVars, Queued
<1>14. QED
  BY <1>5, <1>7, <1>11, <1>13

LEMMA FailedKeeps ==
  ASSUME IInv, NEW d \in Device, NEW n \in 1..MaxCalls, Failed(d, n)
  PROVE  IInv'
<1> USE DEF IInv
<1> DEFINE c == calls[d][n]
<1>1. FirestoreTypeOK' /\ SentIsThere' /\ MainQueueTells'
  BY QuietKeeps DEF Failed
<1>0. c \in Call
  BY DEF Failed, TypeOK
<1>2. c \in Call /\ c.email \in User
  BY <1>0 DEF Call
<1>3. calls' \in [Device -> [1..MaxCalls -> Call \cup {NoCall}]]
      /\ lost' \subseteq User /\ lost \subseteq lost'
  BY <1>2 DEF Failed, TypeOK
<1>4. TypeOK'
  BY <1>1, <1>3 DEF Failed, TypeOK, appVars
<1>5. \A e \in Device, k \in 1..MaxCalls :
        calls'[e][k] = IF e = d /\ k = n THEN NoCall ELSE calls[e][k]
  BY DEF Failed, TypeOK
<1>6. FormsKnown'
  BY <1>5 DEF Failed, FormsKnown, appVars
<1>7. \A e \in Device, a \in User :
        a \in Underway(e) => a \in Underway(e)' \/ a \in lost'
  BY <1>5 DEF Failed, Underway
<1>8. AccountsGetTheirProfile'
  BY <1>3, <1>7, ProfilesKept DEF Failed, TypeOK, firestoreVars, Queued
<1>9. QED
  BY <1>1, <1>4, <1>6, <1>8

-----------------------------------------------------------------------------
(* The main queue runs a block *)

\* What a device's queue of blocks is like without its head.
LEMMA TailFacts ==
  ASSUME IInv, NEW d \in Device, blocks[d] # <<>>, BlockDone(d)
  PROVE  /\ Head(blocks[d]) \in Block
         /\ Head(blocks[d]) = blocks[d][1] /\ 1 \in 1..Len(blocks[d])
         /\ blocks' \in [Device -> Seq(Block)]
         /\ blocks'[d] = Tail(blocks[d])
         /\ \A e \in Device : e # d => blocks'[e] = blocks[e]
         /\ \A i \in 1..Len(blocks'[d]) :
              i + 1 \in 1..Len(blocks[d]) /\ blocks'[d][i] = blocks[d][i + 1]
         /\ \A i \in 1..Len(blocks[d]) : i # 1 =>
              i - 1 \in 1..Len(blocks'[d]) /\ blocks'[d][i - 1] = blocks[d][i]
<1>1. blocks[d] \in Seq(Block) /\ blocks' = [blocks EXCEPT ![d] = Tail(blocks[d])]
  BY DEF BlockDone, IInv, TypeOK
<1>2. /\ Tail(blocks[d]) \in Seq(Block)
      /\ Len(Tail(blocks[d])) = Len(blocks[d]) - 1
      /\ \A i \in 1..Len(Tail(blocks[d])) : Tail(blocks[d])[i] = blocks[d][i + 1]
      /\ Len(blocks[d]) \in Nat \ {0} /\ Head(blocks[d]) = blocks[d][1]
      /\ Head(blocks[d]) \in Block
  BY <1>1
<1>3. /\ blocks' \in [Device -> Seq(Block)] /\ blocks'[d] = Tail(blocks[d])
      /\ \A e \in Device : e # d => blocks'[e] = blocks[e]
  BY <1>1, <1>2 DEF IInv, TypeOK
<1>4. \A i \in 1..Len(blocks[d]) : i # 1 =>
        i - 1 \in 1..Len(Tail(blocks[d])) /\ Tail(blocks[d])[i - 1] = blocks[d][i]
  <2>1. ASSUME NEW i \in 1..Len(blocks[d]), i # 1
        PROVE  i - 1 \in 1..Len(Tail(blocks[d])) /\ Tail(blocks[d])[i - 1] = blocks[d][i]
    <3>1. i - 1 \in 1..Len(Tail(blocks[d])) /\ (i - 1) + 1 = i
      BY <1>2, <2>1
    <3>2. QED
      BY <1>2, <3>1
  <2>2. QED
    BY <2>1
<1>5. QED
  BY <1>2, <1>3, <1>4

\* Running a block leaves what the queue will tell as it was.
LEMMA RunTells ==
  ASSUME IInv, NEW d \in Device, blocks[d] # <<>>, BlockDone(d), auth' = auth,
         user' = [user EXCEPT ![d] = CredentialAfter(Head(blocks[d]), user[d])]
  PROVE  MainQueueTells'
<1>1. blocks[d] \in Seq(Block) /\ Tells(blocks[d], user[d], auth[d])
      /\ Ordered(blocks[d], user[d])
  BY DEF IInv, TypeOK, MainQueueTells
<1>2. Tells(blocks'[d], user'[d], auth'[d]) /\ Ordered(blocks'[d], user'[d])
  BY <1>1, TailFacts, TellsTail, OrderedTail, ZenonT(60) DEF IInv, TypeOK, FirestoreTypeOK
<1>3. ASSUME NEW e \in Device, e # d
      PROVE  Tells(blocks'[e], user'[e], auth'[e]) /\ Ordered(blocks'[e], user'[e])
  <2>1. blocks'[e] = blocks[e] /\ user'[e] = user[e] /\ auth'[e] = auth[e]
    BY <1>3, TailFacts DEF IInv, TypeOK, FirestoreTypeOK
  <2>2. QED
    BY <2>1 DEF IInv, MainQueueTells
<1>4. QED
  BY <1>2, <1>3 DEF MainQueueTells

LEMMA RunFormsKnown ==
  ASSUME IInv, NEW d \in Device, blocks[d] # <<>>, BlockDone(d),
         UNCHANGED <<calls, field>>
  PROVE  /\ FormsKnown'
         /\ \A e \in Device, a \in User : a \in Underway(e) =>
              \/ a \in Underway(e)'
              \/ /\ e = d /\ Head(blocks[d]).do = "registered"
                 /\ Head(blocks[d]).user = a
<1>0. /\ Head(blocks[d]) = blocks[d][1]
      /\ \A e \in Device : e # d => blocks'[e] = blocks[e]
      /\ \A i \in 1..Len(blocks'[d]) :
           i + 1 \in 1..Len(blocks[d]) /\ blocks'[d][i] = blocks[d][i + 1]
      /\ \A i \in 1..Len(blocks[d]) : i # 1 =>
           i - 1 \in 1..Len(blocks'[d]) /\ blocks'[d][i - 1] = blocks[d][i]
  BY TailFacts
<1>1. FormsKnown'
  <2>1. ASSUME NEW e \in Device, NEW i \in 1..Len(blocks'[e]),
               blocks'[e][i].do = "registered"
        PROVE  blocks'[e][i].user \in User
               /\ blocks'[e][i].form \in 1..Len(field[e])
    <3>1. \E k \in 1..Len(blocks[e]) : blocks'[e][i] = blocks[e][k]
      <4>1. CASE e = d
        <5>1. i + 1 \in 1..Len(blocks[d]) /\ blocks'[d][i] = blocks[d][i + 1]
          BY <1>0, <4>1
        <5>2. QED
          BY <4>1, <5>1
      <4>2. CASE e # d
        BY <1>0, <4>2
      <4>3. QED
        BY <4>1, <4>2
    <3>2. QED
      BY <2>1, <3>1 DEF IInv, FormsKnown
  <2>2. QED
    BY <2>1 DEF IInv, FormsKnown
<1>2. ASSUME NEW e \in Device, NEW a \in User, a \in Underway(e),
             ~(/\ e = d /\ Head(blocks[d]).do = "registered"
               /\ Head(blocks[d]).user = a)
      PROVE  a \in Underway(e)'
  <2>1. CASE \E n \in 1..MaxCalls : /\ calls[e][n] # NoCall /\ calls[e][n].made
                                    /\ calls[e][n].email = a
    BY <2>1 DEF Underway
  <2>2. CASE \E i \in 1..Len(blocks[e]) :
               blocks[e][i].do = "registered" /\ blocks[e][i].user = a
    <3>1. PICK i \in 1..Len(blocks[e]) :
            blocks[e][i].do = "registered" /\ blocks[e][i].user = a
      BY <2>2
    <3>2. \E k \in 1..Len(blocks'[e]) : blocks'[e][k] = blocks[e][i]
      <4>1. CASE e = d
        <5>1. i # 1
          BY <1>0, <1>2, <3>1, <4>1
        <5>2. QED
          BY <1>0, <4>1, <5>1
      <4>2. CASE e # d
        BY <1>0, <4>2
      <4>3. QED
        BY <4>1, <4>2
    <3>3. QED
      BY <3>1, <3>2 DEF Underway
  <2>3. QED
    BY <1>2, <2>1, <2>2 DEF Underway
<1>3. QED
  BY <1>1, <1>2

LEMMA HearType ==
  ASSUME IInv, NEW d \in Device, Hear(d), auth' = auth, field' = field
  PROVE  /\ heard' \in [Device -> Credential \cup {NotHeard}]
         /\ session' \in [Device -> Credential]
         /\ shown' \in [Device -> BOOLEAN]
         /\ \A e \in Device : shown'[e] => field'[e] # <<>>
<1>1. heard' \in [Device -> Credential \cup {NotHeard}]
      /\ session' \in [Device -> Credential]
  BY DEF Hear, IInv, TypeOK
<1>2. shown' = [shown EXCEPT ![d] = shown[d] /\ session'[d] = NoUser]
  BY DEF Hear
<1>3. shown' \in [Device -> BOOLEAN]
  BY <1>2 DEF IInv, TypeOK
<1>4. \A e \in Device : shown'[e] => shown[e]
  BY <1>2 DEF IInv, TypeOK
<1>5. QED
  BY <1>1, <1>3, <1>4 DEF IInv, TypeOK

\* What runs in the main queue without a write.
LEMMA listenKeeps ==
  ASSUME IInv, NEW d \in Device, listen(d)
  PROVE  IInv'
<1> USE DEF IInv
<1>1. blocks[d] # <<>> /\ BlockDone(d) /\ Hear(d) /\ Head(blocks[d]).do = "listen"
  BY DEF listen, NextBlock
<1>2. FirestoreTypeOK' /\ SentIsThere'
  BY DEF listen, TypeOK, firestoreVars, FirestoreTypeOK, SentIsThere, Pending
<1>3. TypeOK'
  BY <1>1, <1>2, TailFacts, HearType DEF listen, TypeOK, authVars
<1>4. MainQueueTells'
  <2>1. user' = [user EXCEPT ![d] = CredentialAfter(Head(blocks[d]), user[d])]
    BY <1>1 DEF listen, CredentialAfter, TypeOK, FirestoreTypeOK, firestoreVars
  <2>2. QED
    BY <1>1, <2>1, RunTells DEF listen, authVars
<1>5. /\ FormsKnown'
      /\ \A e \in Device, a \in User : a \in Underway(e) => a \in Underway(e)'
  BY <1>1, RunFormsKnown DEF listen, authVars
<1>6. AccountsGetTheirProfile'
  BY <1>5, ProfilesKept DEF listen, TypeOK, authVars, firestoreVars, Queued
<1>7. QED
  BY <1>2, <1>3, <1>4, <1>5, <1>6

LEMMA PostKeeps ==
  ASSUME IInv, NEW d \in Device, Post(d)
  PROVE  IInv'
<1> USE DEF IInv
<1> DEFINE u == Head(blocks[d]).user
<1>1. blocks[d] # <<>> /\ BlockDone(d) /\ Hear(d) /\ Head(blocks[d]).do = "changed"
  BY DEF Post, NextBlock
<1>2. Head(blocks[d]) \in Block
  BY <1>1, TailFacts
<1>3. u \in Credential
  BY <1>2 DEF Block
<1>4. FirestoreTypeOK'
  BY <1>3, ChangeCredentialType DEF Post, TypeOK, FirestoreTypeOK
<1>5. SentIsThere'
  BY <1>3, ClosedSends DEF Post, ChangeCredential, TypeOK, FirestoreTypeOK, Pending
<1>6. TypeOK'
  BY <1>1, <1>4, TailFacts, HearType DEF Post, TypeOK, authVars
<1>7. MainQueueTells'
  <2>1. user' = [user EXCEPT ![d] = CredentialAfter(Head(blocks[d]), user[d])]
    BY <1>1 DEF Post, ChangeCredential, CredentialAfter
  <2>2. QED
    BY <1>1, <2>1, RunTells DEF Post, authVars
<1>8. /\ FormsKnown'
      /\ \A e \in Device, a \in User : a \in Underway(e) => a \in Underway(e)'
  BY <1>1, RunFormsKnown DEF Post, authVars
<1>9. AccountsGetTheirProfile'
  BY <1>8, ProfilesKept DEF Post, TypeOK, authVars, Queued
<1>10. QED
  BY <1>5, <1>6, <1>7, <1>8, <1>9

\* The completion runs under the credential of the account it is for.
LEMMA RegistersOwn ==
  ASSUME IInv, NEW d \in Device, NextBlock(d, "registered")
  PROVE  /\ blocks[d] # <<>> /\ Head(blocks[d]).do = "registered"
         /\ Head(blocks[d]).user \in User
         /\ user[d] = Head(blocks[d]).user
         /\ field[d][Head(blocks[d]).form] \in Credential
<1>1. blocks[d] # <<>> /\ Head(blocks[d]).do = "registered"
  BY DEF NextBlock
<1>2. blocks[d] \in Seq(Block) /\ field[d] \in Seq(Credential)
  BY DEF IInv, TypeOK
<1>3. Head(blocks[d]) = blocks[d][1] /\ 1 \in 1..Len(blocks[d])
  BY <1>1, <1>2
<1>4. user[d] = Head(blocks[d]).user
  BY <1>1, <1>3 DEF IInv, MainQueueTells, Ordered
<1>5. /\ Head(blocks[d]).user \in User
      /\ Head(blocks[d]).form \in 1..Len(field[d])
  BY <1>1, <1>3 DEF IInv, FormsKnown
<1>6. QED
  BY <1>1, <1>2, <1>4, <1>5

LEMMA UserRecordType == \A e \in User \cup {NoText} : UserRecord(e) \in Doc
BY BlankDocType, RegistrationAssumption, FirestoreAssumption
   DEF UserRecord, Doc, BlankDoc

LEMMA RegisterKeeps ==
  ASSUME IInv, NEW d \in Device, Register(d)
  PROVE  IInv'
<1> USE DEF IInv
<1> DEFINE block == Head(blocks[d])
           email == field[d][block.form]
<1>1. /\ blocks[d] # <<>> /\ block.do = "registered" /\ block.user \in User
      /\ user[d] = block.user /\ email \in Credential
  BY RegistersOwn DEF Register
<1>2. email \in User
  BY <1>1 DEF Register, Credential
<1>3. PICK id \in Record :
        WriteLocally(d, <<SetDoc(id, UserRecord(email)), SetDoc(email, BlankDoc)>>)
  BY DEF Register
<1> DEFINE ms == <<SetDoc(id, UserRecord(email)), SetDoc(email, BlankDoc)>>
<1>4. ms \in Seq(Mutation)
  <2>1. id \in Path /\ email \in Path
    BY <1>2, RegistrationAssumption
  <2>2. SetDoc(id, UserRecord(email)) \in Mutation /\ SetDoc(email, BlankDoc) \in Mutation
    BY <1>2, <2>1, MutationTypes, UserRecordType, BlankDocType
  <2>3. QED
    BY <2>2
<1>5. UNCHANGED <<server, user, delivered, observed, cache>>
  BY DEF Register
<1>6. FirestoreTypeOK' /\ SentIsThere'
  BY <1>3, <1>4, <1>5, WriteLocallyType, WriteLocallySends DEF TypeOK
<1>7. BlockDone(d) /\ UNCHANGED <<accounts, calls, auth, heard, session, field, shown>>
  BY DEF Register, authVars, appVars
<1>8. lost \subseteq lost' /\ lost' \subseteq User
  BY <1>1 DEF Register, TypeOK
<1>9. TypeOK'
  BY <1>1, <1>6, <1>7, <1>8, TailFacts DEF TypeOK
<1>10. MainQueueTells'
  <2>1. user' = [user EXCEPT ![d] = CredentialAfter(Head(blocks[d]), user[d])]
    BY <1>1, <1>5 DEF CredentialAfter, TypeOK, FirestoreTypeOK
  <2>2. QED
    BY <1>1, <1>7, <2>1, RunTells
<1>11. /\ FormsKnown'
       /\ \A e \in Device, a \in User : a \in Underway(e) =>
            a \in Underway(e)' \/ (e = d /\ block.user = a)
  BY <1>1, <1>7, RunFormsKnown
<1>12. \A e \in Device, a \in User : Queued(e, a, a) => Queued(e, a, a)'
  BY <1>3, <1>4, WriteKeepsSaves, RegistrationAssumption DEF TypeOK, Credential
<1> PICK own \in User : own = block.user
  BY <1>1
<1>13. own \in lost' \/ Queued(d, own, own)'
  <2>1. CASE email # own
    BY <2>1 DEF Register
  <2>2. CASE email = own
    <3>1. queue'[d][own] = Pending(d) \o ms
      BY <1>1, <1>3, <1>4, WriteLocallyQueue, ZenonT(60) DEF TypeOK
    <3>2. Pending(d) \in Seq(Mutation)
      BY PendingType DEF TypeOK
    <3>3. /\ Len(Pending(d)) + 2 \in 1..Len(Pending(d) \o ms)
          /\ (Pending(d) \o ms)[Len(Pending(d)) + 2] = SetDoc(email, BlankDoc)
      BY <1>4, <3>2
    <3>4. /\ SetDoc(email, BlankDoc).op = "set"
          /\ SetDoc(email, BlankDoc).path = own
      BY <2>2 DEF SetDoc
    <3>5. /\ queue'[d][own][Len(Pending(d)) + 2] = SetDoc(email, BlankDoc)
          /\ Len(Pending(d)) + 2 \in 1..Len(queue'[d][own])
      BY <3>1, <3>3
    <3>6. QED
      BY <3>4, <3>5 DEF Queued
  <2>3. QED
    BY <2>1, <2>2
<1>14. AccountsGetTheirProfile'
  <2>1. \A e \in Device, a \in User : a \in Underway(e) =>
          a \in Underway(e)' \/ a \in lost' \/ Queued(e, a, a)'
    BY <1>11, <1>13
  <2>2. QED
    BY <1>5, <1>7, <1>8, <1>12, <2>1, ProfilesKept DEF TypeOK
<1>15. QED
  BY <1>6, <1>9, <1>10, <1>11, <1>14

-----------------------------------------------------------------------------
(* The process dies *)

\* Death keeps everything, whatever is still saved on the way.
LEMMA DieKeeps ==
  ASSUME IInv, NEW d \in Device, Die(d),
         queue' \in [Device -> [Credential -> Seq(Mutation)]],
         \A e \in Device : e # d => queue'[e] = queue[e],
         \A e \in Device, a \in User : Queued(e, a, a) => Queued(e, a, a)'
  PROVE  IInv'
<1> USE DEF IInv
<1>1. NoUser \in Credential /\ auth[d] \in Credential
  BY DEF Credential, TypeOK
<1>2. FirestoreTypeOK'
  BY <1>1, ChangeCredentialType DEF Die, TypeOK
<1>3. SentIsThere'
  BY <1>1, ClosedSends DEF Die, ChangeCredential, TypeOK, FirestoreTypeOK, Pending
<1>4. PICK bs \in StartBlocks(auth[d]) : blocks' = [blocks EXCEPT ![d] = bs]
  BY DEF Die
<1>5. /\ bs \in Seq(Block) /\ Tells(bs, NoUser, auth[d]) /\ Ordered(bs, NoUser)
      /\ \A i \in 1..Len(bs) : bs[i].do # "registered"
  BY <1>1, <1>4, StartBlocksAreGood
<1>6. /\ blocks' \in [Device -> Seq(Block)]
      /\ \A e \in Device : blocks'[e] = IF e = d THEN bs ELSE blocks[e]
  BY <1>4, <1>5 DEF TypeOK
<1>7. /\ calls' \in [Device -> [1..MaxCalls -> Call \cup {NoCall}]]
      /\ \A e \in Device, n \in 1..MaxCalls :
           calls'[e][n] = IF e = d THEN NoCall ELSE calls[e][n]
  BY DEF Die, TypeOK
<1>8. lost' = lost \cup Underway(d) /\ Underway(d) \subseteq User
  BY DEF Die, Underway
<1>9. TypeOK'
  <2>1. /\ field' = [field EXCEPT ![d] = <<>>] /\ <<>> \in Seq(Credential)
        /\ shown' = [shown EXCEPT ![d] = FALSE]
    BY DEF Die
  <2>2. /\ field' \in [Device -> Seq(Credential)]
        /\ shown' \in [Device -> BOOLEAN]
        /\ \A e \in Device : shown'[e] => field'[e] # <<>>
    BY <2>1 DEF TypeOK
  <2>3. QED
    BY <1>1, <1>2, <1>6, <1>7, <1>8, <2>2 DEF Die, TypeOK
<1>10. MainQueueTells'
  <2>1. \A e \in Device : user'[e] = IF e = d THEN NoUser ELSE user[e]
    BY DEF Die, ChangeCredential, TypeOK, FirestoreTypeOK
  <2>2. auth' = auth
    BY DEF Die
  <2>3. QED
    BY <1>5, <1>6, <2>1, <2>2 DEF MainQueueTells
<1>11. FormsKnown'
  <2>1. \A e \in Device : e # d => field'[e] = field[e]
    BY DEF Die, TypeOK
  <2>2. ASSUME NEW e \in Device
        PROVE  /\ \A n \in 1..MaxCalls : calls'[e][n] # NoCall =>
                    /\ calls'[e][n].kind = "signUp" =>
                         calls'[e][n].form \in 1..Len(field'[e])
                    /\ calls'[e][n].made => calls'[e][n].kind = "signUp"
               /\ \A i \in 1..Len(blocks'[e]) :
                    blocks'[e][i].do = "registered" =>
                      /\ blocks'[e][i].user \in User
                      /\ blocks'[e][i].form \in 1..Len(field'[e])
    <3>1. CASE e = d
      <4>1. blocks'[e] = bs /\ \A n \in 1..MaxCalls : calls'[e][n] = NoCall
        BY <1>6, <1>7, <3>1
      <4>2. QED
        BY <1>5, <4>1
    <3>2. CASE e # d
      <4>1. /\ blocks'[e] = blocks[e] /\ field'[e] = field[e]
            /\ \A n \in 1..MaxCalls : calls'[e][n] = calls[e][n]
        BY <1>6, <1>7, <2>1, <3>2
      <4>2. QED
        BY <4>1, ZenonT(60) DEF FormsKnown
    <3>3. QED
      BY <3>1, <3>2
  <2>3. QED
    BY <2>2 DEF FormsKnown
<1>12. \A e \in Device, a \in User :
         a \in Underway(e) => a \in Underway(e)' \/ a \in lost'
  BY <1>6, <1>7, <1>8, ZenonT(60) DEF Underway
<1>13. AccountsGetTheirProfile'
  BY <1>8, <1>12, ProfilesKept DEF Die, TypeOK
<1>14. QED
  BY <1>3, <1>9, <1>10, <1>11, <1>13

LEMMA KillKeeps ==
  ASSUME IInv, NEW d \in Device, Kill(d)
  PROVE  IInv'
BY DieKeeps DEF Kill, IInv, TypeOK, FirestoreTypeOK, Queued

LEMMA RegisterNobodyKeeps ==
  ASSUME IInv, NEW d \in Device, RegisterNobody(d)
  PROVE  IInv'
<1>1. PICK id \in Record : WriteLocally(d, <<SetDoc(id, UserRecord(NoText))>>)
  BY DEF RegisterNobody
<1> DEFINE ms == <<SetDoc(id, UserRecord(NoText))>>
<1>2. ms \in Seq(Mutation)
  BY MutationTypes, UserRecordType, RegistrationAssumption
<1>3. /\ queue' \in [Device -> [Credential -> Seq(Mutation)]]
      /\ \A c \in Device, u \in Credential :
           c # d \/ u # user[d] => queue'[c][u] = queue[c][u]
  BY <1>1, <1>2, WriteLocallyQueue DEF IInv, TypeOK
<1>4. \A e \in Device : e # d => queue'[e] = queue[e]
  BY <1>1 DEF WriteLocally, IInv, TypeOK, FirestoreTypeOK
<1>5. \A e \in Device, a \in User : Queued(e, a, a) => Queued(e, a, a)'
  BY <1>1, <1>2, WriteKeepsSaves, RegistrationAssumption
     DEF IInv, TypeOK, Credential
<1>6. QED
  BY <1>3, <1>4, <1>5, DieKeeps DEF RegisterNobody

-----------------------------------------------------------------------------
(* The network *)

LEMMA NetworkKeeps ==
  ASSUME IInv, NEW d \in Device, Network(d) \/ StreamBreaks(d)
  PROVE  IInv'
<1> USE DEF IInv
<1>1. /\ Deliver(d) \/ Ack(d) \/ Reject(d) \/ BreakStream(d)
      /\ UNCHANGED <<authVars, blocks, appVars, lost>>
  BY DEF Network, StreamBreaks
<1>2. FirestoreTypeOK' /\ SentIsThere' /\ user' = user
  <2>1. CASE Deliver(d)
    BY <2>1, DeliverType, DeliverSends DEF TypeOK, Deliver
  <2>2. CASE Ack(d)
    BY <2>2, AckType, AckSends DEF TypeOK, Ack
  <2>3. CASE Reject(d)
    BY <2>3, RejectType, RejectSends DEF TypeOK, Reject
  <2>4. CASE BreakStream(d)
    <3>1. FirestoreTypeOK'
      BY <2>4, StreamClosedType DEF BreakStream, TypeOK
    <3>2. SentIsThere'
      BY <2>4, ClosedSends DEF BreakStream, TypeOK, FirestoreTypeOK, Pending
    <3>3. QED
      BY <2>4, <3>1, <3>2 DEF BreakStream
  <2>5. QED
    BY <1>1, <2>1, <2>2, <2>3, <2>4
<1>3. TypeOK' /\ MainQueueTells' /\ FormsKnown'
  BY <1>1, <1>2 DEF TypeOK, MainQueueTells, FormsKnown, authVars, appVars
<1>4. \A a \in User : server[a] # NoDoc => server'[a] # NoDoc
  BY <1>1, DeliverKeepsDocs, RegistrationAssumption
     DEF TypeOK, Ack, Reject, BreakStream
<1>5. \A c \in Device, a \in User :
        Queued(c, a, a) => Queued(c, a, a)' \/ server'[a] # NoDoc
  BY <1>1, NetworkKeepsSaves, RegistrationAssumption DEF TypeOK
<1>6. AccountsGetTheirProfile'
  BY <1>1, <1>4, <1>5, ProfilesKept DEF TypeOK, authVars, Underway
<1>7. QED
  BY <1>2, <1>3, <1>6

-----------------------------------------------------------------------------
(* The theorems *)

LEMMA StepKeeps == IInv /\ [Next]_vars => IInv'
<1> SUFFICES ASSUME IInv, [Next]_vars PROVE IInv'
  OBVIOUS
<1>1. CASE UNCHANGED vars
  <2>1. UNCHANGED <<firestoreVars, accounts, calls, auth, blocks, heard, session,
                    field, shown, lost>>
    BY <1>1 DEF vars, authVars, appVars
  <2>2. FirestoreTypeOK' /\ SentIsThere' /\ MainQueueTells'
    BY <2>1, QuietKeeps
  <2>3. TypeOK' /\ FormsKnown' /\ AccountsGetTheirProfile'
    BY <2>1, <2>2
       DEF IInv, TypeOK, FormsKnown, AccountsGetTheirProfile, Underway, Queued,
           firestoreVars
  <2>4. QED
    BY <2>2, <2>3 DEF IInv
<1>2. ASSUME NEW d \in Device, UserStep(d) PROVE IInv'
  BY <1>2, OpenSignUpKeeps, TypeKeeps, signUpKeeps, loginKeeps, signOutKeeps
     DEF UserStep
<1>3. ASSUME NEW d \in Device, MainQueue(d) PROVE IInv'
  BY <1>3, listenKeeps, PostKeeps, RegisterKeeps, RegisterNobodyKeeps
     DEF MainQueue
<1>4. ASSUME NEW d \in Device, Service(d) PROVE IInv'
  BY <1>4, AccountMadeKeeps, AnsweredKeeps DEF Service
<1>5. ASSUME NEW d \in Device, Setback(d) PROVE IInv'
  BY <1>5, FailedKeeps, KillKeeps, NetworkKeeps DEF Setback
<1>6. ASSUME NEW d \in Device, Network(d) PROVE IInv'
  BY <1>6, NetworkKeeps
<1>7. QED
  BY <1>1, <1>2, <1>3, <1>4, <1>5, <1>6 DEF Next

LEMMA Inductive == Spec => []IInv
<1>1. Init => IInv
  BY InitHolds
<1>2. IInv /\ [Next]_vars => IInv'
  BY StepKeeps
<1>3. QED
  BY <1>1, <1>2, PTL DEF Spec

\* Every variable keeps its type.
THEOREM TypeCorrect == Spec => []TypeOK
<1>1. IInv => TypeOK
  BY DEF IInv
<1>2. QED
  BY <1>1, Inductive, PTL

\* When the main queue is empty, Firestore files writes under the user that
\* Auth holds.
THEOREM CredentialFollows == Spec => []CredentialFollowsAuth
<1>1. IInv => CredentialFollowsAuth
  BY DEF IInv, MainQueueTells, Tells, CredentialFollowsAuth, Idle
<1>2. QED
  BY <1>1, Inductive, PTL

\* No account is left without its profile but by a lost answer, a kill, or an
\* email field that is edited before the answer comes.
THEOREM ProfilesArrive == Spec => []AccountsGetTheirProfile
<1>1. IInv => AccountsGetTheirProfile
  BY DEF IInv
<1>2. QED
  BY <1>1, Inductive, PTL

-----------------------------------------------------------------------------
(* The session.  It is at most one change behind the listener, and the        *)
(* listener is at most the waiting blocks behind Auth.                        *)

\* A block that runs the listener is waiting.
ListenerDue(bs) == \E i \in 1..Len(bs) : bs[i].do # "registered"

SessionTells ==
  \A d \in Device :
    /\ session[d] \in {NoUser, heard[d]}
    /\ heard[d] = auth[d] \/ ListenerDue(blocks[d])

LEMMA DueAppend ==
  ASSUME NEW bs \in Seq(Block), NEW b \in Block,
         ListenerDue(bs) \/ b.do # "registered"
  PROVE  ListenerDue(Append(bs, b))
<1>1. /\ Len(Append(bs, b)) = Len(bs) + 1 /\ Append(bs, b)[Len(bs) + 1] = b
      /\ \A i \in 1..Len(bs) : Append(bs, b)[i] = bs[i]
      /\ Len(bs) + 1 \in 1..(Len(bs) + 1) /\ 1..Len(bs) \subseteq 1..(Len(bs) + 1)
  OBVIOUS
<1>2. QED
  BY <1>1 DEF ListenerDue

LEMMA DueTail ==
  ASSUME NEW bs \in Seq(Block), bs # <<>>, Head(bs).do = "registered",
         ListenerDue(bs)
  PROVE  ListenerDue(Tail(bs))
<1>1. PICK i \in 1..Len(bs) : bs[i].do # "registered"
  BY DEF ListenerDue
<1>2. i # 1
  BY <1>1
<1>3. /\ i - 1 \in 1..Len(Tail(bs)) /\ Tail(bs)[i - 1] = bs[i]
  BY <1>2
<1>4. QED
  BY <1>1, <1>3 DEF ListenerDue

\* It is enough to look at the device that takes the step.
LEMMA SessionKept ==
  ASSUME SessionTells, NEW d \in Device,
         session'[d] \in {NoUser, heard'[d]},
         heard'[d] = auth'[d] \/ ListenerDue(blocks'[d]),
         \A c \in Device \ {d} :
           /\ session'[c] = session[c] /\ heard'[c] = heard[c]
           /\ auth'[c] = auth[c] /\ blocks'[c] = blocks[c]
  PROVE  SessionTells'
<1>1. ASSUME NEW c \in Device
      PROVE  /\ session'[c] \in {NoUser, heard'[c]}
             /\ heard'[c] = auth'[c] \/ ListenerDue(blocks'[c])
  BY DEF SessionTells
<1>2. QED
  BY <1>1 DEF SessionTells

LEMMA SessionUntouched ==
  ASSUME SessionTells, UNCHANGED <<auth, blocks, heard, session>>
  PROVE  SessionTells'
BY DEF SessionTells

LEMMA HearTells ==
  ASSUME TypeOK, SessionTells, NEW d \in Device, Hear(d), UNCHANGED auth,
         BlockDone(d)
  PROVE  SessionTells'
<1>1. /\ heard' = [heard EXCEPT ![d] = auth[d]]
      /\ session' = [session EXCEPT ![d] =
           IF heard[d] # auth[d] THEN auth[d] ELSE session[d]]
      /\ blocks' = [blocks EXCEPT ![d] = Tail(blocks[d])]
  BY DEF Hear, BlockDone
<1>2. heard'[d] = auth[d] /\ session'[d] \in {NoUser, auth[d]}
  BY <1>1 DEF TypeOK, SessionTells
<1>3. QED
  BY <1>1, <1>2, SessionKept DEF TypeOK

LEMMA DieTells ==
  ASSUME TypeOK, SessionTells, NEW d \in Device, Die(d)
  PROVE  SessionTells'
<1>1. auth' = auth /\ auth[d] \in Credential
  BY DEF Die, TypeOK
<1>2. PICK bs \in StartBlocks(auth[d]) : blocks' = [blocks EXCEPT ![d] = bs]
  BY DEF Die
<1>3. ListenerDue(bs)
  <2>1. /\ \A x : Len(<<Listen>>) = 1 /\ <<Listen>>[1] = Listen
        /\ \A x : Len(<<Listen, x>>) = 2 /\ <<Listen, x>>[1] = Listen
        /\ \A x : Len(<<x, Listen>>) = 2 /\ <<x, Listen>>[2] = Listen
    OBVIOUS
  <2>2. Len(bs) \in Nat /\ \E i \in 1..Len(bs) : bs[i] = Listen
    BY <1>2, <2>1 DEF StartBlocks
  <2>3. QED
    BY <2>2 DEF ListenerDue, Listen
<1>4. /\ session'[d] = NoUser /\ blocks'[d] = bs
      /\ \A c \in Device \ {d} :
           /\ session'[c] = session[c] /\ heard'[c] = heard[c]
           /\ blocks'[c] = blocks[c]
  BY <1>2 DEF Die, TypeOK
<1>5. QED
  BY <1>1, <1>3, <1>4, SessionKept

LEMMA AnsweredTells ==
  ASSUME TypeOK, SessionTells, NEW d \in Device, NEW n \in 1..MaxCalls,
         Answered(d, n)
  PROVE  SessionTells'
<1> DEFINE c == calls[d][n]
           bs == Append(blocks[d], Changed(c.email))
<1>0. c \in Call /\ c # NoCall
  BY DEF Answered, TypeOK
<1>1. /\ blocks[d] \in Seq(Block) /\ c.email \in Credential /\ c.form \in Nat
  BY <1>0 DEF Call, Credential, TypeOK
<1>2. /\ Changed(c.email) \in Block /\ Registered(c.email, c.form) \in Block
      /\ Changed(c.email).do = "changed"
  BY <1>1, BlockTypes DEF Changed
<1>3. bs \in Seq(Block) /\ ListenerDue(bs)
  BY <1>1, <1>2, DueAppend
<1>4. ListenerDue(Append(bs, Registered(c.email, c.form)))
  BY <1>2, <1>3, DueAppend
<1>5. /\ ListenerDue(blocks'[d]) /\ UNCHANGED <<heard, session>>
      /\ \A e \in Device \ {d} : auth'[e] = auth[e] /\ blocks'[e] = blocks[e]
  BY <1>3, <1>4 DEF Answered, appVars, TypeOK
<1>6. session'[d] \in {NoUser, heard'[d]}
  BY <1>5 DEF SessionTells
<1>7. QED
  BY <1>5, <1>6, SessionKept

LEMMA SessionStep == TypeOK /\ SessionTells /\ [Next]_vars => SessionTells'
<1> SUFFICES ASSUME TypeOK, SessionTells, [Next]_vars PROVE SessionTells'
  OBVIOUS
<1>1. CASE UNCHANGED vars
  BY <1>1, SessionUntouched DEF vars, authVars, appVars
<1>2. ASSUME NEW d \in Device, UserStep(d) PROVE SessionTells'
  <2>1. CASE UNCHANGED <<auth, blocks, heard, session>>
    BY <2>1, SessionUntouched
  <2>2. CASE signOut(d)
    <3>1. /\ blocks[d] \in Seq(Block) /\ Changed(NoUser) \in Block
          /\ Changed(NoUser).do = "changed"
      BY BlockTypes DEF TypeOK, Credential, Changed
    <3>2. /\ session'[d] = NoUser /\ heard' = heard /\ auth'[d] = NoUser
          /\ blocks'[d] = IF auth[d] = NoUser THEN blocks[d]
                          ELSE Append(blocks[d], Changed(NoUser))
      BY <2>2 DEF signOut, TypeOK
    <3>3. heard'[d] = auth'[d] \/ ListenerDue(blocks'[d])
      BY <3>1, <3>2, DueAppend DEF SessionTells
    <3>4. QED
      BY <2>2, <3>2, <3>3, SessionKept DEF signOut, TypeOK
  <2>3. QED
    BY <1>2, <2>1, <2>2
       DEF UserStep, OpenSignUp, Type, signUp, login, Request, authVars, appVars
<1>3. ASSUME NEW d \in Device, MainQueue(d) PROVE SessionTells'
  <2>1. CASE listen(d)
    BY <2>1, HearTells DEF listen, authVars
  <2>2. CASE Post(d)
    BY <2>2, HearTells DEF Post, authVars
  <2>3. CASE Register(d)
    <3>1. /\ blocks[d] \in Seq(Block) /\ blocks[d] # <<>>
          /\ Head(blocks[d]).do = "registered" /\ blocks'[d] = Tail(blocks[d])
      BY <2>3 DEF Register, NextBlock, BlockDone, TypeOK
    <3>2. UNCHANGED <<auth, heard, session>>
      BY <2>3 DEF Register, authVars, appVars
    <3>3. heard'[d] = auth'[d] \/ ListenerDue(blocks'[d])
      BY <3>1, <3>2, DueTail DEF SessionTells
    <3>4. session'[d] \in {NoUser, heard'[d]}
      BY <3>2 DEF SessionTells
    <3>5. \A c \in Device \ {d} : blocks'[c] = blocks[c]
      BY <2>3 DEF Register, BlockDone, TypeOK
    <3>6. QED
      BY <3>2, <3>3, <3>4, <3>5, SessionKept
  <2>4. CASE RegisterNobody(d)
    BY <2>4, DieTells DEF RegisterNobody
  <2>5. QED
    BY <1>3, <2>1, <2>2, <2>3, <2>4 DEF MainQueue
<1>4. ASSUME NEW d \in Device, Service(d) PROVE SessionTells'
  <2>1. ASSUME NEW n \in 1..MaxCalls, AccountMade(d, n) PROVE SessionTells'
    BY <2>1, SessionUntouched DEF AccountMade, appVars
  <2>2. ASSUME NEW n \in 1..MaxCalls, Answered(d, n) PROVE SessionTells'
    BY <2>2, AnsweredTells
  <2>3. QED
    BY <1>4, <2>1, <2>2 DEF Service
<1>5. ASSUME NEW d \in Device, Setback(d) PROVE SessionTells'
  <2>1. CASE UNCHANGED <<auth, blocks, heard, session>>
    BY <2>1, SessionUntouched
  <2>2. CASE Kill(d)
    BY <2>2, DieTells DEF Kill
  <2>3. QED
    BY <1>5, <2>1, <2>2 DEF Setback, Failed, StreamBreaks, authVars, appVars
<1>6. ASSUME NEW d \in Device, Network(d) PROVE SessionTells'
  BY <1>6, SessionUntouched DEF Network, authVars, appVars
<1>7. QED
  BY <1>1, <1>2, <1>3, <1>4, <1>5, <1>6 DEF Next

\* When the main queue is empty, the app shows no page of a user whom Auth does
\* not hold any more.
THEOREM SessionHasUser == Spec => []SessionHasItsUser
<1>1. Init => SessionTells
  <2>1. ASSUME Init, NEW d \in Device PROVE ListenerDue(blocks[d])
    <3>1. blocks[d] = <<Listen>> /\ Len(<<Listen>>) = 1 /\ <<Listen>>[1] = Listen
      BY <2>1 DEF Init
    <3>2. QED
      BY <3>1 DEF ListenerDue, Listen
  <2>2. QED
    BY <2>1 DEF Init, SessionTells
<1>2. TypeOK /\ SessionTells /\ [Next]_vars => SessionTells'
  BY SessionStep
<1>3. SessionTells => SessionHasItsUser
  <2>1. ~ListenerDue(<<>>)
    BY DEF ListenerDue
  <2>2. QED
    BY <2>1 DEF SessionTells, SessionHasItsUser, Idle
<1>4. QED
  BY <1>1, <1>2, <1>3, TypeCorrect, PTL DEF Spec
=============================================================================
