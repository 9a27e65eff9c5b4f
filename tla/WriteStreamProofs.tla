--------------------------- MODULE WriteStreamProofs ---------------------------
(***************************************************************************)
(* Proofs about WriteStream, for every number of accounts, mutations,      *)
(* changes of user, refreshed tokens, restarts and lost streams and every  *)
(* length of the pipeline.                                                 *)
(*                                                                         *)
(* Part I: whose the queues and tokens are.  Part II: what is sent on a    *)
(* stream, what is answered on it, and when it is opened and stopped.      *)
(* Part III: the refinement of Firestore's client.  Beside WholeInv of     *)
(* part II it needs two facts that no property states: that the queue of a *)
(* user has room for the write that the worker takes, and that the write   *)
(* for which the server has ended a stream is one it must refuse still     *)
(* when the client hears of it.                                            *)
(***************************************************************************)
EXTENDS WriteStream, InductionLemmas, SequenceTheorems, FiniteSetTheorems

-----------------------------------------------------------------------------
(* Part I: owners.                                                           *)

-----------------------------------------------------------------------------
(* Queues of tasks through which changes of user travel                      *)

IsSequence(q) == \E S : q \in Seq(S)

\* The user in force when the first i items of the queue are done is u, if it
\* was "base" before them.
InForce(q, base, i, u) ==
  /\ (\A j \in 1..i : q[j].kind # "changed") => base = u
  /\ \A k \in 1..i :
       /\ q[k].kind = "changed"
       /\ \A j \in (k + 1)..i : q[j].kind # "changed"
       => q[k].user = u

\* ... when all of them are done.
Tells(q, base, u) == InForce(q, base, Len(q), u)

BaseAfter(item, base) == IF item.kind = "changed" THEN item.user ELSE base

LEMMA AppendFacts ==
  ASSUME NEW q, IsSequence(q), NEW e
  PROVE  /\ IsSequence(Append(q, e)) /\ Len(q) \in Nat
         /\ Len(Append(q, e)) = Len(q) + 1
         /\ Append(q, e)[Len(q) + 1] = e
         /\ \A i \in 1..Len(q) : Append(q, e)[i] = q[i]
<1>1. PICK S : q \in Seq(S)
  BY DEF IsSequence
<1>2. q \in Seq(S \cup {e}) /\ e \in S \cup {e}
  BY <1>1
<1>3. QED
  BY <1>2, AppendProperties, LenProperties DEF IsSequence

LEMMA TailFacts ==
  ASSUME NEW q, IsSequence(q), q # <<>>
  PROVE  /\ IsSequence(Tail(q)) /\ Len(q) \in Nat \ {0}
         /\ Len(Tail(q)) = Len(q) - 1
         /\ Head(q) = q[1]
         /\ \A i \in 1..Len(Tail(q)) : Tail(q)[i] = q[i + 1]
<1>1. PICK S : q \in Seq(S)
  BY DEF IsSequence
<1>2. QED
  BY <1>1, HeadTailProperties, EmptySeq DEF IsSequence

\* What is in force at an item stays when others are put behind it,
LEMMA InForceAppend ==
  ASSUME NEW q, IsSequence(q), NEW e, NEW base, NEW u,
         NEW i \in 0..Len(q), InForce(q, base, i, u)
  PROVE  InForce(Append(q, e), base, i, u)
<1>1. \A j \in 1..i : j \in 1..Len(q) /\ Append(q, e)[j] = q[j]
  BY AppendFacts
<1>2. \A k \in 1..i : \A j \in (k + 1)..i : Append(q, e)[j] = q[j]
  BY <1>1, AppendFacts
<1>3. QED
  BY <1>1, <1>2 DEF InForce

\* and when those before it are done.
LEMMA InForceTail ==
  ASSUME NEW q, IsSequence(q), q # <<>>, NEW base, NEW u,
         NEW i \in 1..Len(q), InForce(q, base, i, u)
  PROVE  InForce(Tail(q), BaseAfter(Head(q), base), i - 1, u)
<1> DEFINE t == Tail(q)
<1>1. /\ Len(q) \in Nat /\ i \in Nat /\ q[1] = Head(q)
      /\ \A j \in 1..(i - 1) : t[j] = q[j + 1] /\ j + 1 \in 1..i
  BY TailFacts
<1> HIDE DEF t
<1>2. (\A j \in 1..(i - 1) : t[j].kind # "changed") => BaseAfter(Head(q), base) = u
  <2>1. SUFFICES ASSUME \A j \in 1..(i - 1) : t[j].kind # "changed"
                 PROVE  BaseAfter(Head(q), base) = u
    OBVIOUS
  <2>2. \A j \in 2..i : q[j].kind # "changed"
    <3>1. SUFFICES ASSUME NEW j \in 2..i PROVE q[j].kind # "changed"
      OBVIOUS
    <3>2. j - 1 \in 1..(i - 1) /\ (j - 1) + 1 = j
      BY <1>1
    <3>3. t[j - 1] = q[j]
      BY <1>1, <3>2
    <3>4. QED
      BY <2>1, <3>2, <3>3
  <2>3. 1 \in 1..i /\ 1 + 1 = 2 /\ \A j \in 1..i : j = 1 \/ j \in 2..i
    BY <1>1
  <2>4. CASE q[1].kind = "changed"
    BY <1>1, <2>2, <2>3, <2>4 DEF InForce, BaseAfter
  <2>5. CASE q[1].kind # "changed"
    BY <1>1, <2>2, <2>3, <2>5 DEF InForce, BaseAfter
  <2>6. QED
    BY <2>4, <2>5
<1>3. ASSUME NEW k \in 1..(i - 1), t[k].kind = "changed",
             \A j \in (k + 1)..(i - 1) : t[j].kind # "changed"
      PROVE  t[k].user = u
  <2>1. k + 1 \in 1..i /\ t[k] = q[k + 1]
    BY <1>1
  <2>2. \A j \in ((k + 1) + 1)..i : q[j].kind # "changed"
    <3>1. SUFFICES ASSUME NEW j \in ((k + 1) + 1)..i PROVE q[j].kind # "changed"
      OBVIOUS
    <3>2. j - 1 \in (k + 1)..(i - 1) /\ j - 1 \in 1..(i - 1) /\ (j - 1) + 1 = j
      BY <1>1
    <3>3. t[j - 1] = q[j]
      BY <1>1, <3>2
    <3>4. QED
      BY <1>3, <3>2, <3>3
  <2>3. QED
    BY <1>3, <2>1, <2>2 DEF InForce
<1>4. QED
  BY <1>2, <1>3 DEF InForce, t

LEMMA TellsAppend ==
  ASSUME NEW q, IsSequence(q), NEW e, NEW base, NEW u, Tells(q, base, u)
  PROVE  Tells(Append(q, e), base, BaseAfter(e, u))
<1> DEFINE r == Append(q, e)
           n == Len(q)
<1>1. /\ n \in Nat /\ Len(r) = n + 1 /\ r[n + 1] = e
      /\ \A j \in 1..n : r[j] = q[j] /\ j \in 1..(n + 1)
  BY AppendFacts
<1>2. /\ (\A j \in 1..n : q[j].kind # "changed") => base = u
      /\ \A k \in 1..n :
           /\ q[k].kind = "changed"
           /\ \A j \in (k + 1)..n : q[j].kind # "changed"
           => q[k].user = u
  BY DEF Tells, InForce
<1> HIDE DEF r, n
<1>3. (\A j \in 1..(n + 1) : r[j].kind # "changed") => base = BaseAfter(e, u)
  BY <1>1, <1>2 DEF BaseAfter
<1>4. ASSUME NEW k \in 1..(n + 1), r[k].kind = "changed",
             \A j \in (k + 1)..(n + 1) : r[j].kind # "changed"
      PROVE  r[k].user = BaseAfter(e, u)
  <2>1. CASE k = n + 1
    BY <1>1, <1>4, <2>1 DEF BaseAfter
  <2>2. CASE k \in 1..n
    <3>1. n + 1 \in (k + 1)..(n + 1)
      BY <1>1, <2>2
    <3>2. e.kind # "changed"
      BY <1>1, <1>4, <3>1
    <3>3. \A j \in (k + 1)..n : j \in (k + 1)..(n + 1) /\ r[j] = q[j]
      BY <1>1, <2>2
    <3>4. QED
      BY <1>1, <1>2, <1>4, <2>2, <3>2, <3>3 DEF BaseAfter
  <2>3. QED
    BY <1>1, <2>1, <2>2
<1>5. InForce(r, base, n + 1, BaseAfter(e, u))
  BY <1>3, <1>4 DEF InForce
<1>6. QED
  BY <1>1, <1>5 DEF Tells, r

LEMMA TellsTail ==
  ASSUME NEW q, IsSequence(q), q # <<>>, NEW base, NEW u, Tells(q, base, u)
  PROVE  Tells(Tail(q), BaseAfter(Head(q), base), u)
<1>1. Len(q) \in 1..Len(q) /\ Len(Tail(q)) = Len(q) - 1
  BY TailFacts
<1>2. QED
  BY <1>1, InForceTail DEF Tells

-----------------------------------------------------------------------------
(* Auth and the main thread                                                  *)

MainTask == [kind : {"changed"}, user : Credential]
       \cup [kind : {"token"}, token : Token, counter : Nat, closes : Nat]

Ask == [counter : Nat, closes : Nat]

AuthTypes ==
  /\ currentUser \in Credential /\ contentsUser \in Credential
  /\ mainQueue \in Seq(MainTask)
  /\ tokenCounter \in Nat
  /\ asked \subseteq Ask
  /\ refreshing \subseteq [user : User, counter : Nat, closes : Nat]

NoChangeIn(q, n) == \A j \in 1..n : q[j].kind # "changed"

\* The provider will know Auth's user when it has heard of everything; what is
\* asked since the latest change it knows of, and answered before the next, is
\* answered for the user it knows.
MainInv ==
  /\ AuthTypes
  /\ Tells(mainQueue, contentsUser, currentUser)
  /\ \A r \in asked : r.counter <= tokenCounter
  /\ \A f \in refreshing :
       /\ f.counter <= tokenCounter
       /\ f.counter = tokenCounter /\ NoChangeIn(mainQueue, Len(mainQueue))
            => f.user = currentUser
  /\ \A i \in 1..Len(mainQueue) : mainQueue[i].kind = "token" =>
       /\ mainQueue[i].counter <= tokenCounter
       /\ mainQueue[i].counter = tokenCounter /\ NoChangeIn(mainQueue, i - 1)
            => mainQueue[i].token \in {contentsUser, Failed}

LEMMA MainSequence == AuthTypes => IsSequence(mainQueue)
BY DEF AuthTypes, IsSequence

LEMMA TaskTypes ==
  /\ \A u \in Credential : Changed(u) \in MainTask /\ Changed(u) \in Task
  /\ \A t \in Token, r \in Ask : Answer(t, r) \in MainTask
  /\ \A t \in Token, f \in [user : User, counter : Nat, closes : Nat] :
       Answer(t, f) \in MainTask
  /\ \A t \in Token, n \in Nat : Resume(t, n) \in Task
BY DEF Changed, Answer, Resume, MainTask, Task, Ask

LEMMA KindsOfMain ==
  ASSUME AuthTypes, NEW i \in 1..Len(mainQueue)
  PROVE  /\ mainQueue[i] \in MainTask
         /\ mainQueue[i].kind = "token" =>
              mainQueue[i].token \in Token /\ mainQueue[i].counter \in Nat
              /\ mainQueue[i].closes \in Nat
         /\ mainQueue[i].kind = "changed" => mainQueue[i].user \in Credential
<1>1. mainQueue[i] \in MainTask
  BY DEF AuthTypes
<1>2. QED
  BY <1>1 DEF MainTask

\* Requests for tokens are all that the worker changes here.
LEMMA MainQuiet ==
  ASSUME MainInv, UNCHANGED authVars, asked' \subseteq Ask,
         \A r \in asked' : r \in asked \/ r.counter = tokenCounter
  PROVE  MainInv'
<1>1. AuthTypes'
  BY DEF MainInv, AuthTypes, authVars
<1>2. \A r \in asked' : r.counter <= tokenCounter
  BY DEF MainInv, AuthTypes, Ask
<1>3. QED
  BY <1>1, <1>2 DEF MainInv, authVars, Tells, InForce, NoChangeIn

\* The user changes.
LEMMA MainUpdate ==
  ASSUME MainInv, NEW u \in Credential, UpdateCurrentUser(u)
  PROVE  MainInv'
<1>1. /\ currentUser' = u /\ mainQueue' = Append(mainQueue, Changed(u))
      /\ UNCHANGED <<contentsUser, tokenCounter, asked, refreshing>>
  BY DEF UpdateCurrentUser
<1>2. /\ IsSequence(mainQueue) /\ mainQueue \in Seq(MainTask)
      /\ Changed(u) \in MainTask /\ Changed(u).kind = "changed"
      /\ BaseAfter(Changed(u), currentUser) = u
  BY MainSequence, TaskTypes DEF MainInv, AuthTypes, Changed, BaseAfter
<1>3. AuthTypes'
  BY <1>1, <1>2 DEF MainInv, AuthTypes
<1>4. Tells(mainQueue', contentsUser', currentUser')
  BY <1>1, <1>2, TellsAppend DEF MainInv
<1>5. /\ Len(mainQueue') = Len(mainQueue) + 1 /\ Len(mainQueue) \in Nat
      /\ mainQueue'[Len(mainQueue) + 1] = Changed(u)
      /\ \A i \in 1..Len(mainQueue) : mainQueue'[i] = mainQueue[i]
  BY <1>1, <1>2, AppendFacts
<1>6. ~NoChangeIn(mainQueue', Len(mainQueue'))
  BY <1>2, <1>5 DEF NoChangeIn
<1>7. \A i \in 1..Len(mainQueue') : mainQueue'[i].kind = "token" =>
        /\ mainQueue'[i].counter <= tokenCounter
        /\ mainQueue'[i].counter = tokenCounter /\ NoChangeIn(mainQueue', i - 1)
             => mainQueue'[i].token \in {contentsUser, Failed}
  <2>1. SUFFICES ASSUME NEW i \in 1..Len(mainQueue'), mainQueue'[i].kind = "token"
        PROVE  /\ mainQueue'[i].counter <= tokenCounter
               /\ mainQueue'[i].counter = tokenCounter /\ NoChangeIn(mainQueue', i - 1)
                    => mainQueue'[i].token \in {contentsUser, Failed}
    OBVIOUS
  <2>2. i \in 1..Len(mainQueue) /\ mainQueue'[i] = mainQueue[i]
    BY <1>2, <1>5, <2>1
  <2>3. NoChangeIn(mainQueue', i - 1) => NoChangeIn(mainQueue, i - 1)
    BY <1>5, <2>2 DEF NoChangeIn
  <2>4. QED
    BY <2>1, <2>2, <2>3 DEF MainInv
<1>8. QED
  BY <1>1, <1>3, <1>4, <1>6, <1>7 DEF MainInv

\* An answer is put behind the notifications.
LEMMA MainAnswer ==
  ASSUME MainInv, NEW a \in MainTask, a.kind = "token",
         a.counter <= tokenCounter,
         a.counter = tokenCounter /\ NoChangeIn(mainQueue, Len(mainQueue))
           => a.token \in {currentUser, Failed},
         mainQueue' = Append(mainQueue, a),
         UNCHANGED <<currentUser, contentsUser, tokenCounter>>,
         asked' \subseteq asked, refreshing' \subseteq refreshing
  PROVE  MainInv'
<1>1. IsSequence(mainQueue) /\ mainQueue \in Seq(MainTask)
      /\ BaseAfter(a, currentUser) = currentUser
  BY MainSequence DEF MainInv, AuthTypes, BaseAfter
<1>2. AuthTypes'
  BY <1>1 DEF MainInv, AuthTypes
<1>3. Tells(mainQueue', contentsUser', currentUser')
  BY <1>1, TellsAppend DEF MainInv
<1>4. /\ Len(mainQueue') = Len(mainQueue) + 1 /\ Len(mainQueue) \in Nat
      /\ mainQueue'[Len(mainQueue) + 1] = a
      /\ \A i \in 1..Len(mainQueue) : mainQueue'[i] = mainQueue[i]
  BY <1>1, AppendFacts
<1>5. NoChangeIn(mainQueue', Len(mainQueue')) => NoChangeIn(mainQueue, Len(mainQueue))
  BY <1>4 DEF NoChangeIn
<1>6. NoChangeIn(mainQueue, Len(mainQueue)) => contentsUser = currentUser
  BY DEF MainInv, Tells, InForce, NoChangeIn
<1>7. \A i \in 1..Len(mainQueue') : mainQueue'[i].kind = "token" =>
        /\ mainQueue'[i].counter <= tokenCounter
        /\ mainQueue'[i].counter = tokenCounter /\ NoChangeIn(mainQueue', i - 1)
             => mainQueue'[i].token \in {contentsUser, Failed}
  <2>1. SUFFICES ASSUME NEW i \in 1..Len(mainQueue'), mainQueue'[i].kind = "token"
        PROVE  /\ mainQueue'[i].counter <= tokenCounter
               /\ mainQueue'[i].counter = tokenCounter /\ NoChangeIn(mainQueue', i - 1)
                    => mainQueue'[i].token \in {contentsUser, Failed}
    OBVIOUS
  <2>2. NoChangeIn(mainQueue', i - 1) => NoChangeIn(mainQueue, i - 1)
    BY <1>4, <2>1 DEF NoChangeIn
  <2>3. CASE i \in 1..Len(mainQueue)
    BY <1>4, <2>1, <2>2, <2>3 DEF MainInv
  <2>4. CASE i = Len(mainQueue) + 1
    <3>1. i - 1 = Len(mainQueue) /\ mainQueue'[i] = a
      BY <1>4, <2>4
    <3>2. QED
      BY <1>6, <2>2, <3>1
  <2>5. QED
    BY <1>4, <2>3, <2>4
<1>8. QED
  BY <1>2, <1>3, <1>5, <1>7 DEF MainInv

LEMMA MainAsk ==
  ASSUME MainInv, NEW r \in asked, StartRefresh(r) \/ AnswerWithToken(r)
  PROVE  MainInv'
<1>1. r \in Ask /\ r.counter <= tokenCounter /\ currentUser \in Credential
  BY DEF MainInv, AuthTypes
<1>2. CASE StartRefresh(r)
  <2>1. /\ UNCHANGED <<currentUser, mainQueue, contentsUser, tokenCounter>>
        /\ asked' \subseteq asked /\ currentUser \in User
        /\ refreshing' = refreshing \cup {Refresh(currentUser, r)}
    BY <1>1, <1>2 DEF StartRefresh, Credential
  <2>2. /\ Refresh(currentUser, r) \in [user : User, counter : Nat, closes : Nat]
        /\ Refresh(currentUser, r).user = currentUser
        /\ Refresh(currentUser, r).counter = r.counter
    BY <1>1, <2>1 DEF Refresh, Ask
  <2>3. AuthTypes'
    BY <2>1, <2>2 DEF MainInv, AuthTypes
  <2>4. QED
    BY <1>1, <2>1, <2>2, <2>3 DEF MainInv, Tells, InForce, NoChangeIn
<1>3. CASE AnswerWithToken(r)
  <2>1. /\ mainQueue' = Append(mainQueue, Answer(currentUser, r))
        /\ UNCHANGED <<currentUser, contentsUser, tokenCounter, refreshing>>
        /\ asked' \subseteq asked
    BY <1>3 DEF AnswerWithToken
  <2>2. /\ Answer(currentUser, r) \in MainTask
        /\ Answer(currentUser, r).kind = "token"
        /\ Answer(currentUser, r).token = currentUser
        /\ Answer(currentUser, r).counter = r.counter
    BY <1>1, TaskTypes DEF Answer, Token
  <2>3. QED
    BY <1>1, <2>1, <2>2, MainAnswer
<1>4. QED
  BY <1>2, <1>3

LEMMA FinishedQueue ==
  ASSUME MainInv, NEW f \in refreshing, FinishRefresh(f)
  PROVE  mainQueue' = IF f.user = currentUser
                        THEN Append(Append(mainQueue, Changed(f.user)), Answer(f.user, f))
                        ELSE Append(mainQueue, Answer(f.user, f))
<1> DEFINE a == Answer(f.user, f)
           c == Changed(f.user)
<1>1. mainQueue' = mainQueue \o (IF f.user = currentUser THEN <<c>> ELSE <<>>) \o <<a>>
  BY DEF FinishRefresh
<1>2. c \in MainTask /\ a \in MainTask /\ mainQueue \in Seq(MainTask)
  <2>1. f \in [user : User, counter : Nat, closes : Nat]
        /\ f.user \in Credential /\ f.user \in Token
    BY DEF MainInv, AuthTypes, Credential, Token
  <2>2. QED
    BY <2>1, TaskTypes DEF MainInv, AuthTypes
<1> HIDE DEF a, c
<1>3. /\ mainQueue \o <<>> = mainQueue
      /\ mainQueue \o <<c>> = Append(mainQueue, c)
      /\ mainQueue \o <<a>> = Append(mainQueue, a)
      /\ Append(mainQueue, c) \in Seq(MainTask)
  BY <1>2, AppendIsConcat, ConcatEmptySeq, AppendProperties
<1>4. Append(mainQueue, c) \o <<a>> = Append(Append(mainQueue, c), a)
  BY <1>2, <1>3, AppendIsConcat
<1>5. QED
  BY <1>1, <1>3, <1>4 DEF a, c

LEMMA MainRefreshed ==
  ASSUME MainInv, NEW f \in refreshing, FinishRefresh(f)
  PROVE  MainInv'
<1> DEFINE a == Answer(f.user, f)
           c == Changed(f.user)
<1>1. /\ f \in [user : User, counter : Nat, closes : Nat]
      /\ f.user \in Credential /\ f.counter <= tokenCounter
  BY DEF MainInv, AuthTypes, Credential
<1>2. /\ a \in MainTask /\ a.kind = "token" /\ a.token = f.user
      /\ a.counter = f.counter /\ f.user \in Token
      /\ c \in MainTask /\ c.kind = "changed" /\ c.user = f.user
  BY <1>1, TaskTypes DEF Answer, Changed, Token
<1>3. /\ IsSequence(mainQueue) /\ mainQueue \in Seq(MainTask)
  BY MainSequence DEF MainInv, AuthTypes
<1>4. /\ UNCHANGED <<currentUser, contentsUser, tokenCounter, asked>>
      /\ refreshing' \subseteq refreshing
      /\ mainQueue' = IF f.user = currentUser
                        THEN Append(Append(mainQueue, c), a)
                        ELSE Append(mainQueue, a)
  BY FinishedQueue DEF FinishRefresh
<1> HIDE DEF a, c
<1>5. CASE f.user # currentUser
  <2>1. mainQueue' = Append(mainQueue, a)
    BY <1>2, <1>3, <1>4, <1>5
  <2>2. f.counter = tokenCounter /\ NoChangeIn(mainQueue, Len(mainQueue)) => FALSE
    BY <1>5 DEF MainInv
  <2>3. QED
    BY <1>1, <1>2, <1>4, <2>1, <2>2, MainAnswer
<1>6. CASE f.user = currentUser
  <2> DEFINE q == Append(mainQueue, c)
             n == Len(mainQueue)
  <2>1. mainQueue' = Append(q, a)
    BY <1>2, <1>3, <1>4, <1>6
  <2>2. /\ n \in Nat /\ IsSequence(q) /\ q \in Seq(MainTask) /\ Len(q) = n + 1
        /\ q[n + 1] = c /\ \A i \in 1..n : q[i] = mainQueue[i]
    BY <1>2, <1>3, AppendFacts
  <2>3. Tells(q, contentsUser, currentUser)
    BY <1>2, <1>3, <1>6, TellsAppend DEF MainInv, BaseAfter
  <2> HIDE DEF q
  <2>4. /\ mainQueue' \in Seq(MainTask) /\ Len(mainQueue') = n + 2
        /\ mainQueue'[n + 2] = a /\ \A i \in 1..(n + 1) : mainQueue'[i] = q[i]
    BY <1>2, <2>1, <2>2, AppendFacts
  <2>5. Tells(mainQueue', contentsUser', currentUser')
    BY <1>2, <1>4, <2>1, <2>2, <2>3, TellsAppend DEF BaseAfter
  <2> HIDE DEF n
  <2>6. /\ \A i \in 1..n : mainQueue'[i] = mainQueue[i]
        /\ mainQueue'[n + 1] = c /\ n + 1 \in 1..(n + 1) /\ n + 1 \in 1..(n + 2)
    BY <2>2, <2>4
  <2>7. ~NoChangeIn(mainQueue', Len(mainQueue')) /\ ~NoChangeIn(mainQueue', n + 1)
    BY <1>2, <2>4, <2>6 DEF NoChangeIn
  <2>8. \A i \in 1..Len(mainQueue') : mainQueue'[i].kind = "token" =>
          /\ mainQueue'[i].counter <= tokenCounter
          /\ mainQueue'[i].counter = tokenCounter /\ NoChangeIn(mainQueue', i - 1)
               => mainQueue'[i].token \in {contentsUser, Failed}
    <3>1. SUFFICES ASSUME NEW i \in 1..Len(mainQueue'), mainQueue'[i].kind = "token"
          PROVE  /\ mainQueue'[i].counter <= tokenCounter
                 /\ mainQueue'[i].counter = tokenCounter /\ NoChangeIn(mainQueue', i - 1)
                      => mainQueue'[i].token \in {contentsUser, Failed}
      OBVIOUS
    <3>2. i \in 1..n \/ i = n + 2
      BY <1>2, <2>2, <2>4, <2>6, <3>1
    <3>3. CASE i \in 1..n
      <4>1. NoChangeIn(mainQueue', i - 1) => NoChangeIn(mainQueue, i - 1)
        BY <2>2, <2>6, <3>3 DEF NoChangeIn
      <4>2. QED
        BY <2>6, <3>1, <3>3, <4>1 DEF MainInv, n
    <3>4. CASE i = n + 2
      <4>1. i - 1 = n + 1 /\ mainQueue'[i] = a
        BY <2>2, <2>4, <3>4
      <4>2. QED
        BY <1>1, <1>2, <2>7, <4>1
    <3>5. QED
      BY <3>2, <3>3, <3>4
  <2>9. AuthTypes'
    BY <1>4, <2>4 DEF MainInv, AuthTypes
  <2>10. QED
    BY <1>4, <2>5, <2>7, <2>8, <2>9 DEF MainInv
<1>7. QED
  BY <1>5, <1>6

LEMMA MainFailed ==
  ASSUME MainInv, NEW f \in refreshing, FailRefresh(f)
  PROVE  MainInv'
<1>1. /\ f \in [user : User, counter : Nat, closes : Nat]
      /\ f.counter <= tokenCounter /\ Failed \in Token
  BY DEF MainInv, AuthTypes, Token
<1>2. /\ Answer(Failed, f) \in MainTask /\ Answer(Failed, f).kind = "token"
      /\ Answer(Failed, f).token = Failed /\ Answer(Failed, f).counter = f.counter
  BY <1>1, TaskTypes DEF Answer
<1>3. /\ mainQueue' = Append(mainQueue, Answer(Failed, f))
      /\ UNCHANGED <<currentUser, contentsUser, tokenCounter, asked>>
      /\ refreshing' \subseteq refreshing
  BY DEF FailRefresh
<1>4. QED
  BY <1>1, <1>2, <1>3, MainAnswer

\* The main thread hears of the change, or takes the answer.
LEMMA MainNote ==
  ASSUME MainInv, NoteChange
  PROVE  MainInv'
<1>1. /\ mainQueue # <<>> /\ Head(mainQueue).kind = "changed"
      /\ mainQueue' = Tail(mainQueue) /\ contentsUser' = Head(mainQueue).user
      /\ tokenCounter' = tokenCounter + 1
      /\ UNCHANGED <<currentUser, asked, refreshing>>
  BY DEF NoteChange
<1>2. IsSequence(mainQueue) /\ mainQueue \in Seq(MainTask) /\ tokenCounter \in Nat
  BY MainSequence DEF MainInv, AuthTypes
<1>3. /\ Len(mainQueue) \in Nat \ {0} /\ Len(mainQueue') = Len(mainQueue) - 1
      /\ Head(mainQueue) = mainQueue[1] /\ mainQueue' \in Seq(MainTask)
      /\ \A i \in 1..Len(mainQueue') : mainQueue'[i] = mainQueue[i + 1]
  BY <1>1, <1>2, TailFacts
<1>4. Head(mainQueue).user \in Credential
  BY <1>1, <1>3, KindsOfMain DEF MainInv
<1>5. AuthTypes'
  BY <1>1, <1>2, <1>3, <1>4 DEF MainInv, AuthTypes
<1>6. Tells(mainQueue', contentsUser', currentUser')
  BY <1>1, <1>2, TellsTail DEF MainInv, BaseAfter
<1>7. \A r \in asked' : r.counter <= tokenCounter'
  BY <1>1, <1>2 DEF MainInv, AuthTypes, Ask
<1>8. \A f \in refreshing' : f.counter <= tokenCounter' /\ f.counter # tokenCounter'
  BY <1>1, <1>2 DEF MainInv, AuthTypes
<1>9. \A i \in 1..Len(mainQueue') : mainQueue'[i].kind = "token" =>
        mainQueue'[i].counter <= tokenCounter' /\ mainQueue'[i].counter # tokenCounter'
  <2>1. SUFFICES ASSUME NEW i \in 1..Len(mainQueue'), mainQueue'[i].kind = "token"
        PROVE  mainQueue'[i].counter <= tokenCounter'
               /\ mainQueue'[i].counter # tokenCounter'
    OBVIOUS
  <2>2. i + 1 \in 1..Len(mainQueue) /\ mainQueue'[i] = mainQueue[i + 1]
    BY <1>3
  <2>3. mainQueue[i + 1].counter \in Nat /\ mainQueue[i + 1].counter <= tokenCounter
    BY <2>1, <2>2, KindsOfMain DEF MainInv
  <2>4. QED
    BY <1>1, <1>2, <2>2, <2>3
<1>10. QED
  BY <1>5, <1>6, <1>7, <1>8, <1>9 DEF MainInv

LEMMA MainTake ==
  ASSUME MainInv, TakeAnswer
  PROVE  MainInv'
<1>1. /\ mainQueue # <<>> /\ Head(mainQueue).kind = "token"
      /\ mainQueue' = Tail(mainQueue)
      /\ UNCHANGED <<currentUser, contentsUser, tokenCounter, refreshing>>
      /\ asked' = asked \/ asked' = GetToken(Head(mainQueue).closes)
  BY DEF TakeAnswer
<1>2. IsSequence(mainQueue) /\ mainQueue \in Seq(MainTask) /\ tokenCounter \in Nat
  BY MainSequence DEF MainInv, AuthTypes
<1>3. /\ Len(mainQueue) \in Nat \ {0} /\ Len(mainQueue') = Len(mainQueue) - 1
      /\ Head(mainQueue) = mainQueue[1] /\ mainQueue' \in Seq(MainTask)
      /\ \A i \in 1..Len(mainQueue') : mainQueue'[i] = mainQueue[i + 1]
  BY <1>1, <1>2, TailFacts
<1>4. Request(tokenCounter, Head(mainQueue).closes) \in Ask
  BY <1>1, <1>2, <1>3, KindsOfMain DEF MainInv, Request, Ask
<1>5. /\ asked' \subseteq Ask
      /\ \A r \in asked' : r \in asked \/ r.counter = tokenCounter
  BY <1>1, <1>4 DEF MainInv, AuthTypes, GetToken, Request
<1>6. AuthTypes'
  BY <1>1, <1>3, <1>5 DEF MainInv, AuthTypes
<1>7. Tells(mainQueue', contentsUser', currentUser')
  BY <1>1, <1>2, TellsTail DEF MainInv, BaseAfter
<1>8. \A r \in asked' : r.counter <= tokenCounter'
  BY <1>1, <1>2, <1>5 DEF MainInv
<1>9. \A n \in Nat : NoChangeIn(mainQueue', n) /\ n <= Len(mainQueue')
                       => NoChangeIn(mainQueue, n + 1)
  <2>1. SUFFICES ASSUME NEW n \in Nat, NoChangeIn(mainQueue', n), n <= Len(mainQueue'),
                        NEW j \in 1..(n + 1)
                 PROVE  mainQueue[j].kind # "changed"
    BY DEF NoChangeIn
  <2>2. CASE j = 1
    BY <1>1, <1>3, <2>2
  <2>3. CASE j # 1
    <3>1. j - 1 \in 1..n /\ j - 1 \in 1..Len(mainQueue') /\ (j - 1) + 1 = j
      BY <1>3, <2>1, <2>3
    <3>2. mainQueue'[j - 1] = mainQueue[j]
      BY <1>3, <3>1
    <3>3. QED
      BY <2>1, <3>1, <3>2 DEF NoChangeIn
  <2>4. QED
    BY <2>2, <2>3
<1>10. ASSUME NEW f \in refreshing'
       PROVE  /\ f.counter <= tokenCounter'
              /\ f.counter = tokenCounter' /\ NoChangeIn(mainQueue', Len(mainQueue'))
                   => f.user = currentUser'
  <2>1. Len(mainQueue') \in Nat /\ Len(mainQueue') + 1 = Len(mainQueue)
    BY <1>3
  <2>2. NoChangeIn(mainQueue', Len(mainQueue')) => NoChangeIn(mainQueue, Len(mainQueue))
    BY <1>9, <2>1
  <2>3. QED
    BY <1>1, <2>2 DEF MainInv
<1>11. ASSUME NEW i \in 1..Len(mainQueue'), mainQueue'[i].kind = "token"
       PROVE  /\ mainQueue'[i].counter <= tokenCounter'
              /\ mainQueue'[i].counter = tokenCounter' /\ NoChangeIn(mainQueue', i - 1)
                   => mainQueue'[i].token \in {contentsUser', Failed}
  <2>1. /\ i + 1 \in 1..Len(mainQueue) /\ mainQueue'[i] = mainQueue[i + 1]
        /\ i - 1 \in Nat /\ i - 1 <= Len(mainQueue') /\ (i - 1) + 1 = (i + 1) - 1
    BY <1>3
  <2>2. NoChangeIn(mainQueue', i - 1) => NoChangeIn(mainQueue, (i + 1) - 1)
    BY <1>9, <2>1
  <2>3. QED
    BY <1>1, <1>11, <2>1, <2>2 DEF MainInv
<1>12. QED
  BY <1>6, <1>7, <1>8, <1>10, <1>11 DEF MainInv

-----------------------------------------------------------------------------
(* The queue of the worker                                                   *)

\* The client will work for the user that the provider knows when it has done
\* all that waits; a token, and a write, is that of the user it will work for
\* when the token, or the write, has its turn.
WorkInv ==
  /\ user \in Credential /\ contentsUser \in Credential
  /\ workQueue \in Seq(Task) /\ closeCount \in Nat
  /\ Tells(workQueue, user, contentsUser)
  /\ \A i \in 1..Len(workQueue) :
       /\ workQueue[i].kind = "resume" /\ workQueue[i].token # Failed
            => InForce(workQueue, user, i - 1, workQueue[i].token)
       /\ workQueue[i].kind = "write"
            => InForce(workQueue, user, i - 1, workQueue[i].author)

LEMMA KindsOfTask ==
  ASSUME NEW t \in Task
  PROVE  /\ t.kind = "changed" => t.user \in Credential
         /\ t.kind = "resume" => t.token \in Token /\ t.closes \in Nat
         /\ t.kind = "write" => t.mutation \in AppWrite /\ t.author \in Credential
BY DEF Task

LEMMA WorkQuiet ==
  ASSUME WorkInv, UNCHANGED <<workQueue, user, contentsUser>>, closeCount' \in Nat
  PROVE  WorkInv'
BY DEF WorkInv, Tells

\* A task joins the queue.
LEMMA WorkAppend ==
  ASSUME WorkInv, NEW e \in Task, workQueue' = Append(workQueue, e),
         user' = user, closeCount' = closeCount,
         contentsUser' = BaseAfter(e, contentsUser),
         e.kind = "resume" /\ e.token # Failed => e.token = contentsUser,
         e.kind = "write" => e.author = contentsUser
  PROVE  WorkInv'
<1>1. IsSequence(workQueue) /\ workQueue \in Seq(Task)
  BY DEF WorkInv, IsSequence
<1>2. /\ Len(workQueue) \in Nat /\ Len(workQueue') = Len(workQueue) + 1
      /\ workQueue'[Len(workQueue) + 1] = e
      /\ \A i \in 1..Len(workQueue) : workQueue'[i] = workQueue[i]
      /\ workQueue' \in Seq(Task)
  BY <1>1, AppendFacts
<1>3. Tells(workQueue', user', contentsUser')
  BY <1>1, TellsAppend DEF WorkInv
<1>4. \A u : \A i \in 0..Len(workQueue) :
        InForce(workQueue, user, i, u) => InForce(workQueue', user', i, u)
  BY <1>1, InForceAppend
<1>5. ASSUME NEW i \in 1..Len(workQueue')
      PROVE  /\ workQueue'[i].kind = "resume" /\ workQueue'[i].token # Failed
                  => InForce(workQueue', user', i - 1, workQueue'[i].token)
             /\ workQueue'[i].kind = "write"
                  => InForce(workQueue', user', i - 1, workQueue'[i].author)
  <2>1. CASE i \in 1..Len(workQueue)
    <3>1. i - 1 \in 0..Len(workQueue) /\ workQueue'[i] = workQueue[i]
      BY <1>2, <2>1
    <3>2. QED
      BY <1>4, <2>1, <3>1 DEF WorkInv
  <2>2. CASE i = Len(workQueue) + 1
    <3>1. i - 1 = Len(workQueue) /\ i - 1 \in 0..Len(workQueue) /\ workQueue'[i] = e
      BY <1>2, <2>2
    <3>2. InForce(workQueue', user', i - 1, contentsUser)
      BY <1>4, <3>1 DEF WorkInv, Tells
    <3>3. QED
      BY <3>1, <3>2
  <2>3. QED
    BY <1>2, <2>1, <2>2
<1>6. contentsUser' \in Credential
  BY KindsOfTask DEF WorkInv, BaseAfter
<1>7. QED
  BY <1>2, <1>3, <1>5, <1>6 DEF WorkInv

\* The worker takes the first task.
LEMMA WorkTail ==
  ASSUME WorkInv, workQueue # <<>>, workQueue' = Tail(workQueue),
         user' = BaseAfter(Head(workQueue), user),
         contentsUser' = contentsUser, closeCount' \in Nat
  PROVE  WorkInv'
<1>1. IsSequence(workQueue) /\ workQueue \in Seq(Task)
  BY DEF WorkInv, IsSequence
<1>2. /\ Len(workQueue) \in Nat \ {0} /\ Len(workQueue') = Len(workQueue) - 1
      /\ Head(workQueue) = workQueue[1] /\ workQueue' \in Seq(Task)
      /\ \A i \in 1..Len(workQueue') : workQueue'[i] = workQueue[i + 1]
  BY <1>1, TailFacts
<1>3. Tells(workQueue', user', contentsUser')
  BY <1>1, TellsTail DEF WorkInv
<1>4. \A u : \A i \in 1..Len(workQueue) :
        InForce(workQueue, user, i, u) => InForce(workQueue', user', i - 1, u)
  BY <1>1, InForceTail
<1>5. ASSUME NEW i \in 1..Len(workQueue')
      PROVE  /\ workQueue'[i].kind = "resume" /\ workQueue'[i].token # Failed
                  => InForce(workQueue', user', i - 1, workQueue'[i].token)
             /\ workQueue'[i].kind = "write"
                  => InForce(workQueue', user', i - 1, workQueue'[i].author)
  <2>1. /\ i \in 1..Len(workQueue) /\ i + 1 \in 1..Len(workQueue)
        /\ (i + 1) - 1 = i /\ workQueue'[i] = workQueue[i + 1]
    BY <1>2
  <2>2. QED
    BY <1>4, <2>1 DEF WorkInv
<1>6. user' \in Credential
  BY <1>2, KindsOfTask DEF WorkInv, BaseAfter
<1>7. QED
  BY <1>2, <1>3, <1>5, <1>6 DEF WorkInv

\* The token, or the write, that has its turn is that of the present user.
LEMMA WorkHead ==
  ASSUME WorkInv, workQueue # <<>>
  PROVE  /\ Head(workQueue) \in Task
         /\ Head(workQueue).kind = "resume" /\ Head(workQueue).token # Failed
              => Head(workQueue).token = user
         /\ Head(workQueue).kind = "write" => Head(workQueue).author = user
<1>1. IsSequence(workQueue) /\ workQueue \in Seq(Task)
  BY DEF WorkInv, IsSequence
<1>2. /\ 1 \in 1..Len(workQueue) /\ Head(workQueue) = workQueue[1]
  BY <1>1, TailFacts
<1>3. \A u : InForce(workQueue, user, 1 - 1, u) => u = user
  BY DEF InForce
<1>4. workQueue[1] \in Task
  BY <1>1, <1>2
<1>5. QED
  BY <1>2, <1>3, <1>4 DEF WorkInv

\* What the main thread passes on to the worker.
LEMMA WorkMain ==
  ASSUME MainInv, WorkInv, NoteChange \/ TakeAnswer, UNCHANGED <<user, closeCount>>
  PROVE  WorkInv'
<1>1. /\ mainQueue # <<>> /\ Len(mainQueue) \in Nat /\ 1 \in 1..Len(mainQueue)
      /\ Head(mainQueue) = mainQueue[1]
  <2>1. mainQueue # <<>>
    BY DEF NoteChange, TakeAnswer
  <2>2. QED
    BY <2>1, MainSequence, TailFacts DEF MainInv
<1>2. CASE NoteChange
  <2> DEFINE e == Changed(Head(mainQueue).user)
  <2>1. /\ Head(mainQueue).kind = "changed" /\ contentsUser' = Head(mainQueue).user
        /\ workQueue' = Append(workQueue, e)
    BY <1>2 DEF NoteChange
  <2>2. Head(mainQueue).user \in Credential
    BY <1>1, <2>1, KindsOfMain DEF MainInv
  <2>3. e \in Task /\ e.kind = "changed" /\ BaseAfter(e, contentsUser) = contentsUser'
    BY <2>1, <2>2, TaskTypes DEF Changed, BaseAfter
  <2> HIDE DEF e
  <2>4. QED
    BY <2>1, <2>3, WorkAppend
<1>3. CASE TakeAnswer
  <2>1. /\ Head(mainQueue).kind = "token" /\ contentsUser' = contentsUser
        /\ \/ workQueue' = workQueue
           \/ /\ Head(mainQueue).counter = tokenCounter
              /\ workQueue' = Append(workQueue, Resume(Head(mainQueue).token,
                                                       Head(mainQueue).closes))
    BY <1>3 DEF TakeAnswer, IsCurrent
  <2>2. Head(mainQueue).token \in Token /\ Head(mainQueue).closes \in Nat
    BY <1>1, <2>1, KindsOfMain DEF MainInv
  <2>3. CASE workQueue' = workQueue
    BY <2>1, <2>3, WorkQuiet DEF WorkInv
  <2>4. CASE Head(mainQueue).counter = tokenCounter
             /\ workQueue' = Append(workQueue, Resume(Head(mainQueue).token,
                                                      Head(mainQueue).closes))
    <3> DEFINE e == Resume(Head(mainQueue).token, Head(mainQueue).closes)
    <3>1. NoChangeIn(mainQueue, 1 - 1)
      BY DEF NoChangeIn
    <3>2. Head(mainQueue).token \in {contentsUser, Failed}
      BY <1>1, <2>1, <2>4, <3>1 DEF MainInv
    <3>3. /\ e \in Task /\ e.kind = "resume" /\ e.token = Head(mainQueue).token
          /\ BaseAfter(e, contentsUser) = contentsUser
      BY <2>2, TaskTypes DEF Resume, BaseAfter
    <3>4. workQueue' = Append(workQueue, e)
      BY <2>4
    <3> HIDE DEF e
    <3>5. QED
      BY <2>1, <3>2, <3>3, <3>4, WorkAppend
  <2>5. QED
    BY <2>1, <2>3, <2>4
<1>4. QED
  BY <1>2, <1>3

-----------------------------------------------------------------------------
(* The queues of mutations                                                   *)

\* Batches wait under their author, in the order of their numbers.
QueueInv ==
  /\ nextBatchId \in Nat \ {0} /\ queue \in [Credential -> Seq(Batch)]
  /\ \A u \in Credential : \A i \in 1..Len(queue[u]) :
       /\ queue[u][i].author = u
       /\ queue[u][i].id \in 1..(nextBatchId - 1)
       /\ \A j \in 1..(i - 1) : queue[u][j].id < queue[u][i].id

LEMMA FreeIds ==
  ASSUME QueueInv
  PROVE  /\ FirstFreeId \in Nat \ {0}
         /\ \A u \in Credential : \A i \in 1..Len(queue[u]) :
              queue[u][i].id \in 1..(FirstFreeId - 1)
<1> DEFINE ids == UNION {{queue[u][i].id : i \in 1..Len(queue[u])} : u \in Credential}
           T == ids \cup {0}
<1>1. \A x \in T : x \in Nat /\ x <= nextBatchId
  BY DEF QueueInv
<1>2. \A u \in Credential : \A i \in 1..Len(queue[u]) : queue[u][i].id \in T
  OBVIOUS
<1>3. FirstFreeId = 1 + Max(T)
  BY DEF FirstFreeId
<1>4. T # {} /\ nextBatchId \in Nat
  BY DEF QueueInv
<1> HIDE DEF T
<1>5. Max(T) \in T /\ \A x \in T : x <= Max(T)
  BY <1>1, <1>4, MaxIsGreatest
<1>6. \A u \in Credential : \A i \in 1..Len(queue[u]) :
        /\ queue[u][i].id >= 1 /\ queue[u][i].id \in Nat
        /\ queue[u][i].id <= Max(T)
  BY <1>2, <1>4, <1>5 DEF QueueInv
<1>7. QED
  BY <1>1, <1>3, <1>5, <1>6

LEMMA QueueQuiet ==
  ASSUME QueueInv, queue' = queue, nextBatchId' \in {nextBatchId, FirstFreeId}
  PROVE  QueueInv'
<1>1. CASE nextBatchId' = nextBatchId
  BY <1>1 DEF QueueInv
<1>2. CASE nextBatchId' = FirstFreeId
  BY <1>2, FreeIds DEF QueueInv
<1>3. QED
  BY <1>1, <1>2

\* A batch joins the queue of its author.
LEMMA QueueAppend ==
  ASSUME QueueInv, NEW u \in Credential, NEW b \in Batch,
         b.id = nextBatchId, b.author = u,
         queue' = [queue EXCEPT ![u] = Append(@, b)],
         nextBatchId' = nextBatchId + 1
  PROVE  QueueInv'
<1> DEFINE q == queue[u]
           r == queue'[u]
           n == Len(q)
<1>1. q \in Seq(Batch) /\ nextBatchId \in Nat \ {0}
  BY DEF QueueInv
<1>2. /\ queue' \in [Credential -> Seq(Batch)] /\ r = Append(q, b)
      /\ \A v \in Credential : v # u => queue'[v] = queue[v]
  BY <1>1 DEF QueueInv
<1>3. \A i \in 1..n : /\ q[i].author = u /\ q[i].id \in 1..(nextBatchId - 1)
                      /\ \A j \in 1..(i - 1) : q[j].id < q[i].id
  BY DEF QueueInv
<1> HIDE DEF q, r
<1>4. /\ n \in Nat /\ Len(r) = n + 1 /\ r[n + 1] = b
      /\ \A i \in 1..n : r[i] = q[i]
  BY <1>1, <1>2, AppendProperties, LenProperties
<1> HIDE DEF n
<1>5. ASSUME NEW i \in 1..Len(r)
      PROVE  /\ r[i].author = u /\ r[i].id \in 1..nextBatchId
             /\ \A j \in 1..(i - 1) : r[j].id < r[i].id
  <2>1. CASE i \in 1..n
    <3>1. r[i] = q[i] /\ \A j \in 1..(i - 1) : r[j] = q[j]
      BY <1>4, <2>1
    <3>2. \A x \in 1..(nextBatchId - 1) : x \in 1..nextBatchId
      BY <1>1
    <3>3. QED
      BY <1>3, <2>1, <3>1, <3>2
  <2>2. CASE i = n + 1
    <3>1. r[i] = b /\ \A j \in 1..(i - 1) : r[j] = q[j] /\ j \in 1..n
      BY <1>4, <2>2
    <3>2. QED
      BY <1>1, <1>3, <3>1
  <2>3. QED
    BY <1>4, <2>1, <2>2
<1>6. nextBatchId' \in Nat \ {0} /\ nextBatchId' - 1 = nextBatchId
  BY <1>1
<1>7. ASSUME NEW v \in Credential, v # u, NEW i \in 1..Len(queue[v])
      PROVE  /\ queue[v][i].author = v
             /\ queue[v][i].id \in 1..nextBatchId
             /\ \A j \in 1..(i - 1) : queue[v][j].id < queue[v][i].id
  BY <1>1, <1>7 DEF QueueInv
<1>8. ASSUME NEW v \in Credential, NEW i \in 1..Len(queue'[v])
      PROVE  /\ queue'[v][i].author = v
             /\ queue'[v][i].id \in 1..(nextBatchId' - 1)
             /\ \A j \in 1..(i - 1) : queue'[v][j].id < queue'[v][i].id
  <2>1. CASE v = u
    BY <1>5, <1>6, <2>1 DEF r
  <2>2. CASE v # u
    BY <1>2, <1>6, <1>7, <2>2
  <2>3. QED
    BY <2>1, <2>2
<1>9. QED
  BY <1>2, <1>6, <1>8 DEF QueueInv

LEMMA SubSeqFacts ==
  ASSUME NEW S, NEW q \in Seq(S), NEW m \in Nat, NEW n \in Nat,
         1 <= m, m <= n + 1, n <= Len(q)
  PROVE  /\ SubSeq(q, m, n) \in Seq(S)
         /\ Len(SubSeq(q, m, n)) = n - m + 1
         /\ \A i \in 1..(n - m + 1) : SubSeq(q, m, n)[i] = q[m + i - 1]
<1>1. m \in Int /\ n \in Int /\ \A i \in m..n : q[i] \in S
  BY LenProperties
<1>2. /\ SubSeq(q, m, n) \in Seq(S)
      /\ Len(SubSeq(q, m, n)) = IF m <= n THEN n - m + 1 ELSE 0
      /\ \A i \in 1..(n - m + 1) : SubSeq(q, m, n)[i] = q[m + i - 1]
  BY <1>1
<1>3. QED
  BY <1>2

\* What is left when a batch leaves the queue.
LEMMA WithoutFacts ==
  ASSUME NEW q \in Seq(Batch), NEW b,
         NEW k \in 1..Len(q), q[k].id = b.id
  PROVE  /\ Without(q, b) \in Seq(Batch)
         /\ \E m \in 1..Len(q) :
              /\ q[m].id = b.id
              /\ Len(Without(q, b)) = Len(q) - 1
              /\ \A i \in 1..(Len(q) - 1) :
                   Without(q, b)[i] = IF i < m THEN q[i] ELSE q[i + 1]
<1> DEFINE at == {i \in 1..Len(q) : q[i].id = b.id}
           m == CHOOSE i \in at : TRUE
           n == Len(q)
           front == SubSeq(q, 1, m - 1)
           rest == SubSeq(q, m + 1, n)
<1>1. n \in Nat /\ at # {} /\ m \in at
  BY LenProperties
<1>2. Without(q, b) = RemoveAt(q, m)
  BY <1>1 DEF Without
<1>3. Without(q, b) = front \o rest
  BY <1>2 DEF RemoveAt
<1>4. m \in 1..n /\ q[m].id = b.id
  BY <1>1
<1>5. \A i \in 1..n : q[i] \in Batch
  OBVIOUS
<1> HIDE DEF m, n, at
<1>6. /\ front \in Seq(Batch) /\ Len(front) = m - 1
      /\ \A i \in 1..(m - 1) : front[i] = q[i]
  <2>1. m - 1 \in Nat /\ 1 <= (m - 1) + 1 /\ m - 1 <= Len(q) /\ 1 \in Nat /\ 1 <= 1
    BY <1>1, <1>4 DEF n
  <2>2. /\ front \in Seq(Batch) /\ Len(front) = (m - 1) - 1 + 1
        /\ \A i \in 1..((m - 1) - 1 + 1) : front[i] = q[1 + i - 1]
    BY <2>1, SubSeqFacts
  <2> HIDE DEF front
  <2>3. QED
    BY <1>1, <1>4, <2>2
<1>7. /\ rest \in Seq(Batch) /\ Len(rest) = n - m
      /\ \A i \in 1..(n - m) : rest[i] = q[m + i]
  <2>1. /\ m + 1 \in Nat /\ n \in Nat /\ 1 <= m + 1 /\ m + 1 <= n + 1 /\ n <= Len(q)
    BY <1>1, <1>4 DEF n
  <2>2. /\ rest \in Seq(Batch) /\ Len(rest) = n - (m + 1) + 1
        /\ \A i \in 1..(n - (m + 1) + 1) : rest[i] = q[(m + 1) + i - 1]
    BY <2>1, SubSeqFacts
  <2> HIDE DEF rest
  <2>3. QED
    BY <1>1, <1>4, <2>2
<1> HIDE DEF front, rest
<1>8. /\ front \o rest \in Seq(Batch) /\ Len(front \o rest) = n - 1
      /\ \A i \in 1..(n - 1) :
           (front \o rest)[i] = IF i <= m - 1 THEN front[i] ELSE rest[i - (m - 1)]
  <2>1. /\ front \o rest \in Seq(Batch)
        /\ Len(front \o rest) = Len(front) + Len(rest)
        /\ \A i \in 1..(Len(front) + Len(rest)) : (front \o rest)[i] =
             IF i <= Len(front) THEN front[i] ELSE rest[i - Len(front)]
    BY <1>6, <1>7, ConcatProperties, Zenon
  <2>2. /\ Len(front) = m - 1 /\ Len(front) + Len(rest) = n - 1
    BY <1>1, <1>4, <1>6, <1>7
  <2>3. QED
    BY <2>1, <2>2, Zenon
<1>9. \A i \in 1..(n - 1) : (front \o rest)[i] = IF i < m THEN q[i] ELSE q[i + 1]
  <2>1. TAKE i \in 1..(n - 1)
  <2>2. CASE i < m
    BY <1>1, <1>4, <1>6, <1>8, <2>2
  <2>3. CASE ~(i < m)
    <3>1. i - (m - 1) \in 1..(n - m) /\ m + (i - (m - 1)) = i + 1 /\ ~(i <= m - 1)
      BY <1>1, <1>4, <2>3
    <3>2. QED
      BY <1>7, <1>8, <2>3, <3>1
  <2>4. QED
    BY <2>2, <2>3
<1>10. QED
  BY <1>3, <1>4, <1>8, <1>9 DEF n

LEMMA QueueWithout ==
  ASSUME QueueInv, NEW u \in Credential, NEW b,
         queue' = [queue EXCEPT ![u] = Without(@, b)],
         nextBatchId' = nextBatchId
  PROVE  QueueInv'
<1> DEFINE q == queue[u]
           r == queue'[u]
           n == Len(q)
<1>1. /\ q \in Seq(Batch) /\ n \in Nat
  BY LenProperties DEF QueueInv
<1>2. r = Without(q, b) /\ \A v \in Credential : v # u => queue'[v] = queue[v]
  BY DEF QueueInv
<1>3. \A i \in 1..n : /\ q[i].author = u /\ q[i].id \in 1..(nextBatchId - 1)
                      /\ \A j \in 1..(i - 1) : q[j].id < q[i].id
  BY DEF QueueInv
<1>4. queue' = [queue EXCEPT ![u] = r] /\ queue \in [Credential -> Seq(Batch)]
  BY <1>2 DEF QueueInv
<1> HIDE DEF q, r
<1>5. CASE \E k \in 1..n : q[k].id = b.id
  <2>1. PICK k \in 1..n : q[k].id = b.id
    BY <1>5
  <2>2. /\ r \in Seq(Batch)
        /\ \E m \in 1..n :
             /\ q[m].id = b.id /\ Len(r) = n - 1
             /\ \A i \in 1..(n - 1) : r[i] = IF i < m THEN q[i] ELSE q[i + 1]
    BY <1>1, <1>2, <2>1, WithoutFacts
  <2>3. PICK m \in 1..n :
             /\ Len(r) = n - 1
             /\ \A i \in 1..(n - 1) : r[i] = IF i < m THEN q[i] ELSE q[i + 1]
    BY <2>2
  <2> HIDE DEF n
  <2>4. ASSUME NEW i \in 1..Len(r)
        PROVE  /\ r[i].author = u /\ r[i].id \in 1..(nextBatchId - 1)
               /\ \A j \in 1..(i - 1) : r[j].id < r[i].id
    <3> DEFINE f(x) == IF x < m THEN x ELSE x + 1
    <3>1. /\ \A x \in 1..i : f(x) \in 1..n /\ r[x] = q[f(x)]
          /\ \A x \in 1..(i - 1) : f(x) \in 1..(f(i) - 1)
          /\ i \in 1..i
      BY <1>1, <2>3
    <3>2. \A x \in 1..(i - 1) : x \in 1..i
      BY <1>1
    <3> HIDE DEF f
    <3>3. QED
      BY <1>3, <3>1, <3>2
  <2>5. queue' \in [Credential -> Seq(Batch)]
    BY <1>4, <2>2
  <2>6. ASSUME NEW v \in Credential, NEW i \in 1..Len(queue'[v])
        PROVE  /\ queue'[v][i].author = v
               /\ queue'[v][i].id \in 1..(nextBatchId - 1)
               /\ \A j \in 1..(i - 1) : queue'[v][j].id < queue'[v][i].id
    <3>1. CASE v = u
      BY <2>4, <3>1 DEF r
    <3>2. CASE v # u
      BY <1>2, <3>2 DEF QueueInv
    <3>3. QED
      BY <3>1, <3>2
  <2>7. QED
    BY <2>5, <2>6 DEF QueueInv
<1>6. CASE ~\E k \in 1..n : q[k].id = b.id
  <2>1. r = q
    BY <1>2, <1>6 DEF Without
  <2>2. queue' = queue
    BY <1>4, <2>1 DEF q
  <2>3. QED
    BY <2>2, QueueQuiet
<1>7. QED
  BY <1>5, <1>6

-----------------------------------------------------------------------------
(* All together                                                              *)

OwnerInv == MainInv /\ WorkInv /\ QueueInv /\ TokenOfQueuesOwner

LEMMA MainGetToken ==
  ASSUME MainInv, UNCHANGED authVars, NEW closes \in Nat,
         asked' = asked \/ asked' = GetToken(closes)
  PROVE  MainInv'
<1>1. Request(tokenCounter, closes) \in Ask
  BY DEF MainInv, AuthTypes, Request, Ask
<1>2. /\ asked' \subseteq Ask
      /\ \A r \in asked' : r \in asked \/ r.counter = tokenCounter
  BY <1>1 DEF MainInv, AuthTypes, GetToken, Request
<1>3. QED
  BY <1>2, MainQuiet

LEMMA Starting ==
  ASSUME NEW s, NEW p, NEW closes, StartIfNeeded(s, p, closes)
  PROVE  /\ asked' = asked \/ asked' = GetToken(closes)
         /\ state' = "open" => s = "open"
BY DEF StartIfNeeded

LEMMA Restarting ==
  ASSUME NEW u, RestartNetwork(u), closeCount \in Nat
  PROVE  /\ closeCount' = ClosesOfStop /\ ClosesOfStop \in Nat
         /\ asked' = asked \/ asked' = GetToken(ClosesOfStop)
         /\ state' # "open"
<1>1. StartIfNeeded("initial", Refill(<<>>, queue[u]), ClosesOfStop)
      /\ closeCount' = ClosesOfStop
  BY DEF RestartNetwork
<1>2. ClosesOfStop \in Nat
  BY DEF ClosesOfStop
<1>3. QED
  BY <1>1, <1>2, Starting

LEMMA Closing ==
  ASSUME NEW s, NEW p, CloseWithError(s, p), s # "open", closeCount \in Nat
  PROVE  /\ closeCount' = closeCount + 1
         /\ asked' = asked \/ asked' = GetToken(closeCount + 1)
         /\ state' # "open"
<1>1. StartIfNeeded(s, p, closeCount + 1) /\ closeCount' = closeCount + 1
  BY DEF CloseWithError
<1>2. QED
  BY <1>1, Starting

\* Steps that leave the queues, and the stream's user, alone.
LEMMA OwnerQuiet ==
  ASSUME OwnerInv, MainInv', WorkInv',
         UNCHANGED <<queue, nextBatchId>>,
         state' # "open" \/ UNCHANGED <<state, token, user>>
  PROVE  OwnerInv'
<1>1. QueueInv'
  BY QueueQuiet DEF OwnerInv
<1>2. TokenOfQueuesOwner'
  BY DEF OwnerInv, TokenOfQueuesOwner
<1>3. QED
  BY <1>1, <1>2 DEF OwnerInv

LEMMA OwnerInit == Init => OwnerInv
<1>1. SUFFICES ASSUME Init PROVE OwnerInv
  OBVIOUS
<1>2. /\ currentUser \in Credential /\ contentsUser = currentUser /\ user = currentUser
      /\ mainQueue = <<>> /\ workQueue = <<>> /\ Len(mainQueue) = 0 /\ Len(workQueue) = 0
      /\ tokenCounter = 0 /\ asked = {} /\ refreshing = {} /\ closeCount = 0
      /\ nextBatchId = 1 /\ state = "initial"
      /\ queue = [u \in Credential |-> <<>>]
  BY <1>1 DEF Init
<1>3. MainInv
  BY <1>2 DEF MainInv, AuthTypes, Tells, InForce
<1>4. WorkInv
  BY <1>2 DEF WorkInv, Tells, InForce
<1>5. QueueInv
  <2>1. \A u \in Credential : queue[u] = <<>> /\ Len(queue[u]) = 0
    BY <1>2
  <2>2. queue \in [Credential -> Seq(Batch)]
    BY <1>2
  <2>3. QED
    BY <1>2, <2>1, <2>2 DEF QueueInv
<1>6. QED
  BY <1>2, <1>3, <1>4, <1>5 DEF OwnerInv, TokenOfQueuesOwner

LEMMA OwnerApp ==
  ASSUME OwnerInv, NEW m \in AppWrite, WriteDocument(m)
  PROVE  OwnerInv'
<1> DEFINE e == [kind |-> "write", mutation |-> m, author |-> contentsUser]
<1>1. /\ workQueue' = Append(workQueue, e)
      /\ UNCHANGED <<authVars, asked, user, queue, nextBatchId, state, closeCount, token>>
  BY DEF WriteDocument, local, stream
<1>2. /\ e \in Task /\ e.kind = "write" /\ e.author = contentsUser
      /\ BaseAfter(e, contentsUser) = contentsUser
  BY DEF OwnerInv, WorkInv, Task, BaseAfter
<1> HIDE DEF e
<1>3. WorkInv'
  BY <1>1, <1>2, WorkAppend DEF OwnerInv, authVars
<1>4. MainInv'
  BY <1>1, MainQuiet DEF OwnerInv, MainInv, AuthTypes
<1>5. QED
  BY <1>1, <1>3, <1>4, OwnerQuiet

LEMMA OwnerAuth ==
  ASSUME OwnerInv, AuthStep
  PROVE  OwnerInv'
<1>1. UNCHANGED <<user, queue, nextBatchId, state, closeCount, token>>
  BY DEF AuthStep, local, stream
<1>2. UNCHANGED <<contentsUser, workQueue>>
  BY DEF AuthStep, UpdateCurrentUser, StartRefresh, AnswerWithToken, FinishRefresh,
         FailRefresh
<1>3. MainInv'
  <2>1. \/ \E u \in Credential : UpdateCurrentUser(u)
        \/ \E r \in asked : StartRefresh(r) \/ AnswerWithToken(r)
        \/ \E f \in refreshing : FinishRefresh(f)
        \/ \E f \in refreshing : FailRefresh(f)
    BY DEF AuthStep
  <2>2. QED
    BY <2>1, MainUpdate, MainAsk, MainRefreshed, MainFailed DEF OwnerInv
<1>4. WorkInv'
  BY <1>1, <1>2, WorkQuiet DEF OwnerInv, WorkInv
<1>5. QED
  BY <1>1, <1>3, <1>4, OwnerQuiet

LEMMA OwnerMain ==
  ASSUME OwnerInv, MainStep
  PROVE  OwnerInv'
<1>1. /\ NoteChange \/ TakeAnswer
      /\ UNCHANGED <<user, queue, nextBatchId, state, closeCount, token>>
  BY DEF MainStep, local, stream
<1>2. MainInv'
  BY <1>1, MainNote, MainTake DEF OwnerInv
<1>3. WorkInv'
  BY <1>1, WorkMain DEF OwnerInv
<1>4. QED
  BY <1>1, <1>2, <1>3, OwnerQuiet

\* A task has its turn.
LEMMA OwnerTasks ==
  ASSUME OwnerInv,
         WriteMutations \/ HandleCredentialChange \/ IgnoreToken
           \/ ResumeStartWithCredentials \/ FailToStart
  PROVE  OwnerInv'
<1> DEFINE e == Head(workQueue)
<1>1. /\ workQueue # <<>> /\ workQueue' = Tail(workQueue)
      /\ UNCHANGED authVars /\ contentsUser' = contentsUser
  BY DEF WriteMutations, HandleCredentialChange, IgnoreToken,
         ResumeStartWithCredentials, FailToStart, TakeTask, authVars
<1>2. /\ closeCount \in Nat /\ user \in Credential
      /\ MainInv /\ WorkInv /\ QueueInv /\ TokenOfQueuesOwner
  BY DEF OwnerInv, WorkInv
<1>3. /\ e \in Task
      /\ e.kind = "resume" /\ e.token # Failed => e.token = user
      /\ e.kind = "write" => e.author = user
  BY <1>1, <1>2, WorkHead
<1> HIDE DEF e
<1>4. CASE WriteMutations
  <2> DEFINE b == [id |-> nextBatchId, mutation |-> e.mutation, author |-> e.author]
  <2>1. /\ e.kind = "write"
        /\ queue' = [queue EXCEPT ![user] = Append(@, b)]
        /\ nextBatchId' = nextBatchId + 1
        /\ UNCHANGED <<user, closeCount, token>>
        /\ \E p : StartIfNeeded(state, p, closeCount)
    BY <1>4 DEF WriteMutations, TakeTask, FillWritePipeline, e
  <2>2. /\ b \in Batch /\ b.id = nextBatchId /\ b.author = user
    BY <1>2, <1>3, <2>1, KindsOfTask DEF Batch, QueueInv
  <2> HIDE DEF b
  <2>3. QueueInv'
    BY <1>2, <2>1, <2>2, QueueAppend
  <2>4. MainInv'
    BY <1>1, <1>2, <2>1, Starting, MainGetToken
  <2>5. BaseAfter(e, user) = user
    BY <2>1 DEF BaseAfter
  <2>6. WorkInv'
    BY <1>1, <1>2, <2>1, <2>5, WorkTail DEF e
  <2>7. TokenOfQueuesOwner'
    BY <1>2, <2>1, Starting DEF TokenOfQueuesOwner
  <2>8. QED
    BY <2>3, <2>4, <2>6, <2>7 DEF OwnerInv
<1>5. CASE HandleCredentialChange
  <2>1. /\ e.kind = "changed" /\ user' = e.user
        /\ RestartNetwork(e.user) /\ queue' = queue
        /\ nextBatchId' \in {nextBatchId, FirstFreeId}
    BY <1>5 DEF HandleCredentialChange, TakeTask, e
  <2>2. QueueInv'
    BY <1>2, <2>1, QueueQuiet
  <2>3. closeCount' \in Nat /\ state' # "open" /\ MainInv'
    BY <1>1, <1>2, <2>1, Restarting, MainGetToken
  <2>4. WorkInv'
    BY <1>1, <1>2, <2>1, <2>3, WorkTail DEF e, BaseAfter
  <2>5. QED
    BY <2>2, <2>3, <2>4 DEF OwnerInv, TokenOfQueuesOwner
<1>6. CASE IgnoreToken \/ ResumeStartWithCredentials \/ FailToStart
  <2>1. e.kind = "resume" /\ UNCHANGED <<user, queue, nextBatchId>>
    BY <1>6 DEF IgnoreToken, ResumeStartWithCredentials, FailToStart, TakeTask, local, e
  <2>2. BaseAfter(e, user) = user
    BY <2>1 DEF BaseAfter
  <2>3. CASE IgnoreToken
    <3>1. UNCHANGED <<asked, state, closeCount, token>>
      BY <2>3 DEF IgnoreToken, stream
    <3>2. MainInv' /\ WorkInv'
      BY <1>1, <1>2, <2>1, <2>2, <3>1, MainGetToken, WorkTail DEF e
    <3>3. QED
      BY <2>1, <3>1, <3>2, OwnerQuiet
  <2>4. CASE ResumeStartWithCredentials
    <3>1. /\ UNCHANGED <<asked, closeCount>>
          /\ token' = e.token /\ e.token # Failed
      BY <2>4 DEF ResumeStartWithCredentials, e
    <3>2. MainInv' /\ WorkInv'
      BY <1>1, <1>2, <2>1, <2>2, <3>1, MainGetToken, WorkTail DEF e
    <3>3. QueueInv'
      BY <1>2, <2>1, QueueQuiet
    <3>4. QED
      BY <1>3, <2>1, <3>1, <3>2, <3>3 DEF OwnerInv, TokenOfQueuesOwner
  <2>5. CASE FailToStart
    <3>1. CloseWithError("error", pipeline)
      BY <2>5 DEF FailToStart
    <3>2. closeCount' \in Nat /\ state' # "open" /\ MainInv'
      BY <1>1, <1>2, <3>1, Closing, MainGetToken
    <3>3. WorkInv'
      BY <1>1, <1>2, <2>1, <2>2, <3>2, WorkTail DEF e
    <3>4. QED
      BY <2>1, <3>2, <3>3, OwnerQuiet
  <2>6. QED
    BY <1>6, <2>3, <2>4, <2>5
<1>7. QED
  BY <1>4, <1>5, <1>6

\* Steps of the worker that no task asked for.
LEMMA OwnerWorker ==
  ASSUME OwnerInv,
         \/ BackoffElapses \/ IdleTimeout \/ ConnectivityChange
         \/ OnWriteStreamHandshakeComplete \/ OnWriteStreamMutationResult
         \/ HandleWriteError \/ OnWriteStreamClose
  PROVE  OwnerInv'
<1>1. /\ UNCHANGED authVars /\ UNCHANGED <<workQueue, user, nextBatchId, contentsUser>>
  BY DEF BackoffElapses, IdleTimeout, ConnectivityChange,
         OnWriteStreamHandshakeComplete, OnWriteStreamMutationResult,
         HandleWriteError, OnWriteStreamClose, local, authVars
<1>2. /\ closeCount \in Nat /\ user \in Credential
      /\ MainInv /\ WorkInv /\ QueueInv /\ TokenOfQueuesOwner
  BY DEF OwnerInv, WorkInv
<1>3. /\ closeCount' \in Nat
      /\ asked' = asked \/ \E n \in Nat : asked' = GetToken(n)
      /\ state' # "open" \/ (state = "open" /\ token' = token)
  <2>1. CASE BackoffElapses
    <3>1. StartIfNeeded("initial", pipeline, closeCount) /\ closeCount' = closeCount
      BY <2>1 DEF BackoffElapses
    <3>2. QED
      BY <1>2, <3>1, Starting
  <2>2. CASE IdleTimeout
    BY <1>2, <2>2 DEF IdleTimeout
  <2>3. CASE ConnectivityChange
    BY <1>2, <2>3, Restarting DEF ConnectivityChange
  <2>4. CASE OnWriteStreamHandshakeComplete
    BY <1>2, <2>4 DEF OnWriteStreamHandshakeComplete
  <2>5. CASE OnWriteStreamMutationResult
    <3>1. /\ \E p : StartIfNeeded(state, p, closeCount)
          /\ UNCHANGED <<closeCount, token>>
      BY <2>5 DEF OnWriteStreamMutationResult, FillWritePipeline
    <3>2. QED
      BY <1>2, <3>1, Starting
  <2>6. CASE HandleWriteError
    <3>1. \E p : CloseWithError("initial", p)
      BY <2>6 DEF HandleWriteError
    <3>2. closeCount + 1 \in Nat
      BY <1>2
    <3>3. QED
      BY <1>2, <3>1, <3>2, Closing
  <2>7. CASE OnWriteStreamClose
    <3>1. CloseWithError("error", pipeline)
      BY <2>7 DEF OnWriteStreamClose
    <3>2. closeCount + 1 \in Nat
      BY <1>2
    <3>3. QED
      BY <1>2, <3>1, <3>2, Closing
  <2>8. QED
    BY <2>1, <2>2, <2>3, <2>4, <2>5, <2>6, <2>7
<1>4. queue' = queue \/ queue' = [queue EXCEPT ![user] = Without(@, Head(pipeline))]
  BY DEF BackoffElapses, IdleTimeout, ConnectivityChange,
         OnWriteStreamHandshakeComplete, OnWriteStreamMutationResult,
         HandleWriteError, OnWriteStreamClose, local
<1>5. QueueInv'
  BY <1>1, <1>2, <1>4, QueueQuiet, QueueWithout
<1>6. MainInv'
  <2>1. 0 \in Nat
    OBVIOUS
  <2>2. QED
    BY <1>1, <1>2, <1>3, <2>1, MainGetToken
<1>7. WorkInv'
  BY <1>1, <1>2, <1>3, WorkQuiet
<1>8. TokenOfQueuesOwner'
  BY <1>1, <1>2, <1>3 DEF TokenOfQueuesOwner
<1>9. QED
  BY <1>5, <1>6, <1>7, <1>8 DEF OwnerInv

LEMMA OwnerServer ==
  ASSUME OwnerInv, ServerStep \/ LoseConnection
  PROVE  OwnerInv'
<1>1. UNCHANGED <<authVars, asked, workQueue, user, contentsUser, queue, nextBatchId,
                  state, closeCount, token>>
  BY DEF ServerStep, AnswerHandshake, ApplyWrite, RefuseWrite, Receive,
         LoseConnection, local, credentialVars, authVars
<1>2. MainInv'
  BY <1>1, MainQuiet DEF OwnerInv, MainInv, AuthTypes
<1>3. WorkInv'
  BY <1>1, WorkQuiet DEF OwnerInv, WorkInv
<1>4. QED
  BY <1>1, <1>2, <1>3, OwnerQuiet

LEMMA OwnerRestart ==
  ASSUME OwnerInv, RestartApp
  PROVE  OwnerInv'
<1>1. /\ mainQueue' = <<>> /\ workQueue' = <<>> /\ refreshing' = {}
      /\ contentsUser' = currentUser /\ user' = currentUser
      /\ currentUser' = currentUser
      /\ tokenCounter' = 0 /\ closeCount' = 0
      /\ nextBatchId' = FirstFreeId /\ queue' = queue
      /\ state' # "open" /\ asked' \subseteq {Request(0, 0)}
      /\ Len(mainQueue') = 0 /\ Len(workQueue') = 0
  BY DEF RestartApp
<1>2. currentUser \in Credential /\ QueueInv
  BY DEF OwnerInv, MainInv, AuthTypes
<1>3. Request(0, 0) \in Ask /\ Request(0, 0).counter = 0
  BY DEF Request, Ask
<1>4. MainInv'
  BY <1>1, <1>2, <1>3 DEF MainInv, AuthTypes, Tells, InForce
<1>5. WorkInv'
  BY <1>1, <1>2 DEF WorkInv, Tells, InForce
<1>6. QueueInv'
  BY <1>1, <1>2, QueueQuiet
<1>7. QED
  BY <1>1, <1>4, <1>5, <1>6 DEF OwnerInv, TokenOfQueuesOwner

LEMMA OwnerStuttering ==
  ASSUME OwnerInv, UNCHANGED vars
  PROVE  OwnerInv'
<1>1. UNCHANGED <<authVars, asked, workQueue, user, contentsUser, queue, nextBatchId,
                  state, closeCount, token>>
  BY DEF vars, credentialVars, authVars, local, stream
<1>2. MainInv'
  BY <1>1, MainQuiet DEF OwnerInv, MainInv, AuthTypes
<1>3. WorkInv'
  BY <1>1, WorkQuiet DEF OwnerInv, WorkInv
<1>4. QED
  BY <1>1, <1>2, <1>3, OwnerQuiet

LEMMA OwnerStep == OwnerInv /\ [Next]_vars => OwnerInv'
<1>1. SUFFICES ASSUME OwnerInv, [Next]_vars PROVE OwnerInv'
  OBVIOUS
<1>2. CASE \E m \in AppWrite : WriteDocument(m)
  BY <1>1, <1>2, OwnerApp
<1>3. CASE AuthStep
  BY <1>1, <1>3, OwnerAuth
<1>4. CASE MainStep
  BY <1>1, <1>4, OwnerMain
<1>5. CASE WorkerStep \/ IdleTimeout \/ ConnectivityChange
  BY <1>1, <1>5, OwnerTasks, OwnerWorker DEF WorkerStep
<1>6. CASE ServerStep \/ LoseConnection
  BY <1>1, <1>6, OwnerServer
<1>7. CASE RestartApp
  BY <1>1, <1>7, OwnerRestart
<1>8. CASE UNCHANGED vars
  BY <1>1, <1>8, OwnerStuttering
<1>9. QED
  BY <1>1, <1>2, <1>3, <1>4, <1>5, <1>6, <1>7, <1>8 DEF Next

LEMMA OwnerAlways == Spec => []OwnerInv
<1>1. QED
  BY OwnerInit, OwnerStep, PTL DEF Spec

-----------------------------------------------------------------------------
\* On a stream that is open the token is that of the user whose queue is sent,
\* whatever the order in which users change, tokens are asked for, refreshed
\* and answered, and streams are closed (remote_store.cc, stream.cc and the
\* credentials provider).
THEOREM TokenIsOwners == Spec => []TokenOfQueuesOwner
<1>1. OwnerInv => TokenOfQueuesOwner
  BY DEF OwnerInv
<1>2. QED
  BY <1>1, OwnerAlways, PTL

\* A mutation waits in the queue of the user under whom the app made it, even
\* when the user changes before the worker gets to it (sync_engine.cc).
THEOREM QueuesAreAuthors == Spec => []QueuedUnderAuthor
<1>1. OwnerInv => QueuedUnderAuthor
  BY DEF OwnerInv, QueueInv, QueuedUnderAuthor
<1>2. QED
  BY <1>1, OwnerAlways, PTL

-----------------------------------------------------------------------------
(* Part II: order.                                                           *)

-----------------------------------------------------------------------------
(* The head of a queue                                                       *)

\* Batches have ascending numbers.
Ascending(q) ==
  \A i \in 1..Len(q) : q[i].id \in Nat \ {0}
                       /\ \A j \in 1..(i - 1) : q[j].id < q[i].id

Room(q) == IF Len(q) < MaxPendingWrites THEN Len(q) ELSE MaxPendingWrites

HeadOf(q) == SubSeq(q, 1, Room(q))

LEMMA RoomFacts ==
  ASSUME NEW q \in Seq(Batch)
  PROVE  /\ Len(q) \in Nat /\ Room(q) \in Nat
         /\ Room(q) <= Len(q) /\ Room(q) <= MaxPendingWrites
         /\ MaxPendingWrites \in Nat \ {0}
         /\ Room(q) = 0 => Len(q) = 0
         /\ Room(q) = Len(q) \/ Room(q) = MaxPendingWrites
BY WriteStreamAssumption, LenProperties DEF Room

LEMMA HeadFacts ==
  ASSUME NEW q \in Seq(Batch)
  PROVE  /\ HeadOf(q) \in Seq(Batch) /\ Len(HeadOf(q)) = Room(q)
         /\ \A i \in 1..Room(q) : HeadOf(q)[i] = q[i]
<1>1. /\ 1 \in Nat /\ Room(q) \in Nat /\ 1 <= 1 /\ 1 <= Room(q) + 1
      /\ Room(q) <= Len(q)
  BY RoomFacts
<1>2. /\ HeadOf(q) \in Seq(Batch) /\ Len(HeadOf(q)) = Room(q) - 1 + 1
      /\ \A i \in 1..(Room(q) - 1 + 1) : HeadOf(q)[i] = q[1 + i - 1]
  BY <1>1, SubSeqFacts DEF HeadOf
<1>3. QED
  BY <1>1, <1>2

LEMMA PrefixFacts ==
  ASSUME NEW q \in Seq(Batch), NEW k \in 0..Len(q)
  PROVE  /\ SubSeq(q, 1, k) \in Seq(Batch) /\ Len(SubSeq(q, 1, k)) = k
         /\ \A i \in 1..k : SubSeq(q, 1, k)[i] = q[i]
<1>1. 1 \in Nat /\ k \in Nat /\ 1 <= 1 /\ 1 <= k + 1 /\ k <= Len(q)
  BY LenProperties
<1>2. /\ SubSeq(q, 1, k) \in Seq(Batch) /\ Len(SubSeq(q, 1, k)) = k - 1 + 1
      /\ \A i \in 1..(k - 1 + 1) : SubSeq(q, 1, k)[i] = q[1 + i - 1]
  BY <1>1, SubSeqFacts
<1>3. QED
  BY <1>1, <1>2

LEMMA MinOfInterval ==
  ASSUME NEW a \in Nat, NEW b \in Nat, a <= b
  PROVE  Min(a..b) = a
<1>1. \A x \in a..b : (\A y \in a..b : x <= y) <=> x = a
  BY Z3
<1>2. a \in a..b
  OBVIOUS
<1>3. QED
  BY <1>1, <1>2 DEF Min

\* A pipeline that holds a first part of the queue is filled up to the head of
\* the queue.
LEMMA RefillIsHead ==
  ASSUME NEW q \in Seq(Batch), Ascending(q), NEW k \in 0..Room(q)
  PROVE  Refill(SubSeq(q, 1, k), q) = HeadOf(q)
<1> DEFINE p == SubSeq(q, 1, k)
           n == Len(q)
           next == {i \in 1..n : p = <<>> \/ q[i].id > Last(p).id}
           end == Min(next) + MaxPendingWrites - Len(p) - 1
<1>1. /\ n \in Nat /\ Room(q) \in Nat /\ Room(q) <= n /\ k \in 0..n
      /\ Room(q) <= MaxPendingWrites /\ MaxPendingWrites \in Nat
      /\ Room(q) = n \/ Room(q) = MaxPendingWrites
      /\ Room(q) = IF n < MaxPendingWrites THEN n ELSE MaxPendingWrites
  BY RoomFacts DEF Room
<1>2. p \in Seq(Batch) /\ Len(p) = k /\ \A i \in 1..k : p[i] = q[i]
  BY <1>1, PrefixFacts
<1>3. p = <<>> <=> k = 0
  BY <1>1, <1>2, EmptySeq
<1>4. \A i \in 1..n : q[i].id \in Nat /\ \A j \in 1..(i - 1) : q[j].id < q[i].id
  BY DEF Ascending
<1>5. next = (k + 1)..n
  <2> HIDE DEF p, n
  <2>1. CASE k = 0
    BY <1>1, <1>3, <2>1
  <2>2. CASE k # 0
    <3>1. Last(p) = q[k] /\ k \in 1..n
      BY <1>1, <1>2, <2>2 DEF Last
    <3>2. \A i \in 1..n : q[i].id > q[k].id <=> i > k
      <4>1. TAKE i \in 1..n
      <4>2. CASE i > k
        BY <1>1, <1>4, <3>1, <4>2
      <4>3. CASE i = k
        BY <1>4, <3>1, <4>3
      <4>4. CASE i < k
        BY <1>1, <1>4, <3>1, <4>4
      <4>5. QED
        BY <1>1, <4>2, <4>3, <4>4
    <3>3. QED
      BY <1>1, <1>3, <2>2, <3>1, <3>2
  <2>3. QED
    BY <2>1, <2>2
<1>6. CASE k = n
  <2>1. next = {}
    BY <1>1, <1>5, <1>6
  <2>2. Refill(p, q) = p
    BY <2>1 DEF Refill
  <2>3. QED
    BY <1>1, <1>6, <2>2 DEF HeadOf
<1>7. CASE k # n
  <2>1. next # {} /\ Min(next) = k + 1
    <3>1. k + 1 \in Nat /\ k + 1 <= n /\ k + 1 \in (k + 1)..n
      BY <1>1, <1>7
    <3> HIDE DEF n, next
    <3>2. Min((k + 1)..n) = k + 1
      BY <1>1, <3>1, MinOfInterval
    <3>3. QED
      BY <1>5, <3>1, <3>2
  <2>2. end = MaxPendingWrites
    BY <1>1, <1>2, <2>1
  <2>3. Refill(p, q) = p \o SubSeq(q, k + 1, Room(q))
    BY <1>1, <2>1, <2>2 DEF Refill, Room
  <2>4. 1 \in 1..(Len(q) + 1) /\ k \in (1 - 1)..Len(q) /\ Room(q) \in k..Len(q)
    BY <1>1
  <2>5. SubSeq(q, 1, k) \o SubSeq(q, k + 1, Room(q)) = SubSeq(q, 1, Room(q))
    BY <2>4, ConcatAdjacentSubSeq
  <2>6. QED
    BY <2>3, <2>5 DEF HeadOf
<1>8. QED
  BY <1>6, <1>7

\* The batch that has been answered is the first, and nothing else leaves.
LEMMA WithoutFirst ==
  ASSUME NEW q \in Seq(Batch), Ascending(q), q # <<>>
  PROVE  Without(q, q[1]) = Tail(q)
<1>1. /\ Len(q) \in Nat \ {0} /\ 1 \in 1..Len(q) /\ Tail(q) \in Seq(Batch)
      /\ Len(Tail(q)) = Len(q) - 1
      /\ \A i \in 1..(Len(q) - 1) : Tail(q)[i] = q[i + 1]
  BY HeadTailProperties, LenProperties, EmptySeq
<1> DEFINE w == Without(q, q[1])
<1>2. /\ w \in Seq(Batch)
      /\ \E m \in 1..Len(q) :
           /\ q[m].id = q[1].id /\ Len(w) = Len(q) - 1
           /\ \A i \in 1..(Len(q) - 1) : w[i] = IF i < m THEN q[i] ELSE q[i + 1]
  BY <1>1, WithoutFacts
<1> HIDE DEF w
<1>3. PICK m \in 1..Len(q) :
           /\ q[m].id = q[1].id /\ Len(w) = Len(q) - 1
           /\ \A i \in 1..(Len(q) - 1) : w[i] = IF i < m THEN q[i] ELSE q[i + 1]
  BY <1>2
<1>4. m = 1
  <2>1. SUFFICES ASSUME m # 1 PROVE FALSE
    OBVIOUS
  <2>2. 1 \in 1..(m - 1)
    BY <1>1, <2>1
  <2>3. q[1].id < q[m].id /\ q[1].id \in Nat /\ q[m].id \in Nat
    BY <1>1, <2>2 DEF Ascending
  <2>4. QED
    BY <1>3, <2>3
<1>5. \A i \in 1..Len(w) : w[i] = Tail(q)[i]
  BY <1>1, <1>3, <1>4
<1>6. w = Tail(q)
  BY <1>1, <1>2, <1>3, <1>5, SeqEqual
<1>7. QED
  BY <1>6 DEF w

LEMMA HeadOfAppend ==
  ASSUME NEW q \in Seq(Batch), NEW b \in Batch
  PROVE  /\ HeadOf(q) = SubSeq(Append(q, b), 1, Room(q))
         /\ Room(q) \in 0..Room(Append(q, b))
         /\ Room(Append(q, b)) # 0
<1> DEFINE r == Append(q, b)
<1>1. /\ r \in Seq(Batch) /\ Len(r) = Len(q) + 1 /\ \A i \in 1..Len(q) : r[i] = q[i]
  BY AppendProperties
<1> HIDE DEF r
<1>2. Room(q) \in 0..Room(r) /\ Room(r) # 0 /\ Room(q) \in 0..Len(r)
  BY <1>1, RoomFacts DEF Room
<1> DEFINE h == SubSeq(r, 1, Room(q))
<1>3. /\ h \in Seq(Batch) /\ Len(h) = Room(q) /\ \A i \in 1..Room(q) : h[i] = r[i]
  BY <1>1, <1>2, PrefixFacts
<1> HIDE DEF h
<1>4. /\ HeadOf(q) \in Seq(Batch) /\ Len(HeadOf(q)) = Room(q)
      /\ \A i \in 1..Room(q) : HeadOf(q)[i] = q[i]
  BY HeadFacts
<1>5. \A i \in 1..Room(q) : i \in 1..Len(q)
  BY RoomFacts
<1>6. HeadOf(q) = h
  BY <1>1, <1>3, <1>4, <1>5, SeqEqual
<1>7. QED
  BY <1>2, <1>6 DEF h, r

LEMMA HeadOfTail ==
  ASSUME NEW q \in Seq(Batch), q # <<>>
  PROVE  /\ HeadOf(q) # <<>> /\ Head(HeadOf(q)) = q[1]
         /\ Tail(HeadOf(q)) = SubSeq(Tail(q), 1, Room(q) - 1)
         /\ Room(q) - 1 \in 0..Room(Tail(q))
<1> DEFINE h == HeadOf(q)
           t == Tail(q)
           m == Room(q) - 1
<1>1. /\ Len(q) \in Nat \ {0} /\ t \in Seq(Batch) /\ Len(t) = Len(q) - 1
      /\ \A i \in 1..(Len(q) - 1) : t[i] = q[i + 1]
  BY HeadTailProperties, LenProperties, EmptySeq
<1>2. /\ h \in Seq(Batch) /\ Len(h) = Room(q) /\ \A i \in 1..Room(q) : h[i] = q[i]
  BY HeadFacts
<1>3. Room(q) \in Nat \ {0} /\ m \in 0..Len(t) /\ Room(q) <= Len(q)
  BY <1>1, RoomFacts
<1>4. h # <<>>
  BY <1>2, <1>3
<1> HIDE DEF h
<1>5. /\ Tail(h) \in Seq(Batch) /\ Len(Tail(h)) = m
      /\ \A i \in 1..m : Tail(h)[i] = h[i + 1]
  BY <1>2, <1>4, HeadTailProperties
<1>6. m \in 0..Room(t)
  BY <1>1, <1>3, RoomFacts DEF Room
<1>7. Head(h) = q[1]
  BY <1>2, <1>3, <1>4
<1> DEFINE s == SubSeq(t, 1, m)
<1> HIDE DEF t
<1>8. s \in Seq(Batch) /\ Len(s) = m /\ \A i \in 1..m : s[i] = t[i]
  BY <1>1, <1>3, PrefixFacts
<1> HIDE DEF s
<1>9. \A i \in 1..m : /\ i + 1 \in 1..Room(q)
                      /\ i \in 1..(Len(q) - 1)
  BY <1>1, <1>3
<1>10. \A i \in 1..m : Tail(h)[i] = s[i]
  BY <1>1, <1>2, <1>5, <1>8, <1>9
<1>11. Tail(h) = s
  BY <1>5, <1>8, <1>10, SeqEqual
<1>12. QED
  BY <1>4, <1>6, <1>7, <1>11 DEF h, t, s

-----------------------------------------------------------------------------
(* Tokens under way                                                          *)

\* The items of a queue that carry what the stream closed c times waits for.
LiveAt(q, kind, c) == {i \in 1..Len(q) : q[i].kind = kind /\ q[i].closes = c}
LiveIn(S, c) == {r \in S : r.closes = c}
AtMostOne(S) == \A x, y \in S : x = y

NoneLive(c) ==
  /\ LiveIn(asked, c) = {} /\ LiveIn(refreshing, c) = {}
  /\ LiveAt(mainQueue, "token", c) = {} /\ LiveAt(workQueue, "resume", c) = {}

\* Four sets that have one member at most between them.
Lone(A, R, M, W) ==
  /\ AtMostOne(A) /\ AtMostOne(R) /\ AtMostOne(M) /\ AtMostOne(W)
  /\ A # {} => R = {} /\ M = {} /\ W = {}
  /\ R # {} => M = {} /\ W = {}
  /\ M # {} => W = {}

ClosesPast(c) ==
  /\ c \in Nat
  /\ \A r \in asked \cup refreshing : r.closes \in Nat /\ r.closes <= c
  /\ \A i \in 1..Len(mainQueue) :
       mainQueue[i].kind = "token" =>
         mainQueue[i].closes \in Nat /\ mainQueue[i].closes <= c
  /\ \A i \in 1..Len(workQueue) :
       workQueue[i].kind = "resume" =>
         workQueue[i].closes \in Nat /\ workQueue[i].closes <= c

\* A stream waits for one token at most, and only while it is starting.
LiveInv ==
  /\ ClosesPast(closeCount)
  /\ Lone(LiveIn(asked, closeCount), LiveIn(refreshing, closeCount),
          LiveAt(mainQueue, "token", closeCount),
          LiveAt(workQueue, "resume", closeCount))
  /\ state # "starting" => NoneLive(closeCount)

LEMMA LiveAppend ==
  ASSUME NEW q, IsSequence(q), NEW e, NEW kind, NEW c
  PROVE  /\ ~(e.kind = kind /\ e.closes = c)
              => LiveAt(Append(q, e), kind, c) = LiveAt(q, kind, c)
         /\ LiveAt(Append(q, e), kind, c) \subseteq LiveAt(q, kind, c) \cup {Len(q) + 1}
         /\ \A i \in 1..Len(Append(q, e)) :
              Append(q, e)[i] = e \/ \E j \in 1..Len(q) : Append(q, e)[i] = q[j]
<1> DEFINE r == Append(q, e)
           n == Len(q)
<1>1. /\ n \in Nat /\ Len(r) = n + 1 /\ r[n + 1] = e
      /\ \A i \in 1..n : r[i] = q[i]
  BY AppendFacts
<1> HIDE DEF r, n
<1>2. \A i \in 1..Len(r) : i \in 1..n \/ i = n + 1
  BY <1>1
<1>3. \A i \in 1..n : i \in 1..Len(r)
  BY <1>1
<1>4. LiveAt(r, kind, c) = {i \in 1..Len(r) : r[i].kind = kind /\ r[i].closes = c}
      /\ LiveAt(q, kind, c) = {i \in 1..n : q[i].kind = kind /\ q[i].closes = c}
  BY DEF LiveAt, n
<1>5. LiveAt(r, kind, c) \subseteq LiveAt(q, kind, c) \cup {n + 1}
  BY <1>1, <1>2, <1>4
<1>6. LiveAt(q, kind, c) \subseteq LiveAt(r, kind, c)
  BY <1>1, <1>3, <1>4
<1>7. ~(e.kind = kind /\ e.closes = c) => n + 1 \notin LiveAt(r, kind, c)
  BY <1>1, <1>4
<1>8. ~(e.kind = kind /\ e.closes = c) => LiveAt(r, kind, c) = LiveAt(q, kind, c)
  BY <1>5, <1>6, <1>7
<1>9. \A i \in 1..Len(r) : r[i] = e \/ \E j \in 1..n : r[i] = q[j]
  BY <1>1, <1>2
<1>10. QED
  BY <1>5, <1>8, <1>9 DEF r, n

LEMMA LiveTail ==
  ASSUME NEW q, IsSequence(q), q # <<>>, NEW kind, NEW c
  PROVE  /\ \A i \in LiveAt(Tail(q), kind, c) : i + 1 \in LiveAt(q, kind, c)
         /\ AtMostOne(LiveAt(q, kind, c)) => AtMostOne(LiveAt(Tail(q), kind, c))
         /\ LiveAt(q, kind, c) = {} => LiveAt(Tail(q), kind, c) = {}
         /\ AtMostOne(LiveAt(q, kind, c)) /\ Head(q).kind = kind /\ Head(q).closes = c
              => 1 \in LiveAt(q, kind, c) /\ LiveAt(Tail(q), kind, c) = {}
         /\ \A i \in 1..Len(Tail(q)) : \E j \in 1..Len(q) : Tail(q)[i] = q[j]
<1> DEFINE t == Tail(q)
<1>1. /\ Len(q) \in Nat \ {0} /\ Len(t) = Len(q) - 1 /\ Head(q) = q[1]
      /\ \A i \in 1..Len(t) : t[i] = q[i + 1]
  BY TailFacts
<1> HIDE DEF t
<1>2. \A i \in 1..Len(t) : i + 1 \in 1..Len(q)
  BY <1>1
<1>3. \A i \in LiveAt(t, kind, c) : i + 1 \in LiveAt(q, kind, c) /\ i \in Nat \ {0}
  BY <1>1, <1>2 DEF LiveAt
<1>4. ASSUME AtMostOne(LiveAt(q, kind, c)) PROVE AtMostOne(LiveAt(t, kind, c))
  <2>1. SUFFICES ASSUME NEW i \in LiveAt(t, kind, c), NEW j \in LiveAt(t, kind, c)
                 PROVE  i = j
    BY DEF AtMostOne
  <2>2. i + 1 = j + 1 /\ i \in Nat /\ j \in Nat
    BY <1>3, <1>4, <2>1 DEF AtMostOne
  <2>3. QED
    BY <2>2
<1>5. Head(q).kind = kind /\ Head(q).closes = c => 1 \in LiveAt(q, kind, c)
  BY <1>1 DEF LiveAt
<1>6. ASSUME AtMostOne(LiveAt(q, kind, c)), 1 \in LiveAt(q, kind, c)
      PROVE  LiveAt(t, kind, c) = {}
  <2>1. SUFFICES ASSUME NEW i \in LiveAt(t, kind, c) PROVE FALSE
    OBVIOUS
  <2>2. i + 1 = 1 /\ i \in Nat \ {0}
    BY <1>3, <1>6 DEF AtMostOne
  <2>3. QED
    BY <2>2
<1>7. \A i \in 1..Len(t) : \E j \in 1..Len(q) : t[i] = q[j]
  BY <1>1, <1>2
<1>8. QED
  BY <1>3, <1>4, <1>5, <1>6, <1>7 DEF t

\* Nothing is live for a stream that is closed, or not started.
LEMMA NothingLive ==
  ASSUME LiveInv, NEW c \in Nat, c > closeCount \/ (c = closeCount /\ state # "starting")
  PROVE  NoneLive(c)
<1>1. CASE c = closeCount /\ state # "starting"
  BY <1>1 DEF LiveInv
<1>2. CASE c > closeCount
  <2>1. /\ closeCount \in Nat
        /\ \A r \in asked \cup refreshing : r.closes \in Nat /\ r.closes <= closeCount
        /\ \A i \in 1..Len(mainQueue) : mainQueue[i].kind = "token" =>
             mainQueue[i].closes \in Nat /\ mainQueue[i].closes <= closeCount
        /\ \A i \in 1..Len(workQueue) : workQueue[i].kind = "resume" =>
             workQueue[i].closes \in Nat /\ workQueue[i].closes <= closeCount
    BY DEF LiveInv, ClosesPast
  <2>2. \A x \in Nat : x <= closeCount => x # c
    BY <1>2, <2>1
  <2>3. LiveIn(asked, c) = {} /\ LiveIn(refreshing, c) = {}
    BY <2>1, <2>2 DEF LiveIn
  <2>4. LiveAt(mainQueue, "token", c) = {} /\ LiveAt(workQueue, "resume", c) = {}
    BY <2>1, <2>2 DEF LiveAt
  <2>5. QED
    BY <2>3, <2>4 DEF NoneLive
<1>3. QED
  BY <1>1, <1>2

\* The worker takes a task that is not the token waited for, or none, and
\* leaves the stream as it is.
LEMMA LiveQuiet ==
  ASSUME LiveInv, IsSequence(workQueue),
         workQueue' = workQueue \/ (workQueue # <<>> /\ workQueue' = Tail(workQueue)),
         UNCHANGED <<asked, refreshing, mainQueue, closeCount>>,
         state' = state
  PROVE  LiveInv'
<1> DEFINE W == LiveAt(workQueue, "resume", closeCount)
<1>1. /\ AtMostOne(W) => AtMostOne(W')
      /\ W = {} => W' = {}
      /\ \A i \in 1..Len(workQueue') : \E j \in 1..Len(workQueue) :
           workQueue'[i] = workQueue[j]
  <2>1. CASE workQueue' = workQueue
    BY <2>1
  <2>2. CASE workQueue # <<>> /\ workQueue' = Tail(workQueue)
    BY <2>2, LiveTail
  <2>3. QED
    BY <2>1, <2>2
<1>2. ClosesPast(closeCount)'
  BY <1>1 DEF LiveInv, ClosesPast
<1>3. /\ LiveIn(asked, closeCount)' = LiveIn(asked, closeCount)
      /\ LiveIn(refreshing, closeCount)' = LiveIn(refreshing, closeCount)
      /\ LiveAt(mainQueue, "token", closeCount)' = LiveAt(mainQueue, "token", closeCount)
  OBVIOUS
<1>4. NoneLive(closeCount) => NoneLive(closeCount)'
  BY <1>1, <1>3 DEF NoneLive
<1> HIDE DEF W
<1>5. Lone(LiveIn(asked, closeCount), LiveIn(refreshing, closeCount),
           LiveAt(mainQueue, "token", closeCount), W)'
  BY <1>1, <1>3 DEF LiveInv, Lone, W
<1>6. QED
  BY <1>2, <1>4, <1>5 DEF LiveInv, W

\* A stream that waits for nothing asks for a token, or does not.
LEMMA LiveStart ==
  ASSUME LiveInv, IsSequence(workQueue),
         workQueue' = workQueue \/ (workQueue # <<>> /\ workQueue' = Tail(workQueue)),
         UNCHANGED <<refreshing, mainQueue>>,
         closeCount' \in Nat, closeCount' >= closeCount, NoneLive(closeCount'),
         asked' = asked \/ (asked' = GetToken(closeCount') /\ state' = "starting")
  PROVE  LiveInv'
<1> DEFINE c == closeCount'
           new == Request(tokenCounter, c)
<1>1. /\ LiveAt(workQueue', "resume", c) = {}
      /\ \A i \in 1..Len(workQueue') : \E j \in 1..Len(workQueue) :
           workQueue'[i] = workQueue[j]
  <2>1. LiveAt(workQueue, "resume", c) = {}
    BY DEF NoneLive
  <2>2. CASE workQueue' = workQueue
    BY <2>1, <2>2
  <2>3. CASE workQueue # <<>> /\ workQueue' = Tail(workQueue)
    BY <2>1, <2>3, LiveTail
  <2>4. QED
    BY <2>2, <2>3
<1>2. LiveIn(refreshing', c) = {} /\ LiveAt(mainQueue', "token", c) = {}
  BY DEF NoneLive
<1>3. /\ new.closes = c
      /\ asked' \subseteq asked \cup {new}
      /\ asked' = asked \/ state' = "starting"
  BY DEF GetToken, Request
<1>4. LiveIn(asked, c) = {} /\ LiveIn(asked', c) \subseteq {new}
  BY <1>3 DEF NoneLive, LiveIn
<1>5. ClosesPast(closeCount)'
  <2>1. /\ closeCount \in Nat
        /\ \A r \in asked \cup refreshing : r.closes \in Nat /\ r.closes <= closeCount
        /\ \A i \in 1..Len(mainQueue) : mainQueue[i].kind = "token" =>
             mainQueue[i].closes \in Nat /\ mainQueue[i].closes <= closeCount
        /\ \A i \in 1..Len(workQueue) : workQueue[i].kind = "resume" =>
             workQueue[i].closes \in Nat /\ workQueue[i].closes <= closeCount
    BY DEF LiveInv, ClosesPast
  <2>2. \A x \in Nat : x <= closeCount => x <= c
    BY <2>1
  <2> HIDE DEF c, new
  <2>3. \A r \in asked' \cup refreshing' : r.closes \in Nat /\ r.closes <= c
    BY <1>3, <2>1, <2>2 DEF c
  <2>4. \A i \in 1..Len(workQueue') : workQueue'[i].kind = "resume" =>
          workQueue'[i].closes \in Nat /\ workQueue'[i].closes <= c
    BY <1>1, <2>1, <2>2
  <2>5. QED
    BY <2>1, <2>2, <2>3, <2>4 DEF ClosesPast, c
<1> HIDE DEF new
<1>6. Lone(LiveIn(asked', c), LiveIn(refreshing', c), LiveAt(mainQueue', "token", c),
           LiveAt(workQueue', "resume", c))
  BY <1>1, <1>2, <1>4 DEF Lone, AtMostOne
<1>7. state' # "starting" => NoneLive(closeCount)'
  BY <1>1, <1>2, <1>3, <1>4 DEF NoneLive
<1>8. QED
  BY <1>5, <1>6, <1>7 DEF LiveInv

\* The token that was waited for arrives.
LEMMA LiveOpen ==
  ASSUME LiveInv, IsSequence(workQueue), workQueue # <<>>,
         workQueue' = Tail(workQueue),
         Head(workQueue).kind = "resume", Head(workQueue).closes = closeCount,
         UNCHANGED <<asked, refreshing, mainQueue, closeCount>>
  PROVE  LiveInv' /\ state = "starting"
<1> DEFINE W == LiveAt(workQueue, "resume", closeCount)
<1>1. /\ AtMostOne(W) => 1 \in W /\ W' = {}
      /\ \A i \in 1..Len(workQueue') : \E j \in 1..Len(workQueue) :
           workQueue'[i] = workQueue[j]
  <2>1. /\ AtMostOne(W) => 1 \in W /\ LiveAt(Tail(workQueue), "resume", closeCount) = {}
        /\ \A i \in 1..Len(Tail(workQueue)) : \E j \in 1..Len(workQueue) :
             Tail(workQueue)[i] = workQueue[j]
    BY LiveTail
  <2>2. W' = LiveAt(Tail(workQueue), "resume", closeCount)
    OBVIOUS
  <2>3. QED
    BY <2>1, <2>2
<1>2. ClosesPast(closeCount)'
  BY <1>1 DEF LiveInv, ClosesPast
<1>3. /\ LiveIn(asked, closeCount)' = LiveIn(asked, closeCount)
      /\ LiveIn(refreshing, closeCount)' = LiveIn(refreshing, closeCount)
      /\ LiveAt(mainQueue, "token", closeCount)' = LiveAt(mainQueue, "token", closeCount)
  OBVIOUS
<1> HIDE DEF W
<1>4. /\ Lone(LiveIn(asked, closeCount), LiveIn(refreshing, closeCount),
              LiveAt(mainQueue, "token", closeCount), W)
      /\ state # "starting" => W = {}
  BY DEF LiveInv, NoneLive, W
<1>5. /\ W # {} /\ W' = {} /\ AtMostOne(W')
      /\ LiveIn(asked, closeCount) = {} /\ LiveIn(refreshing, closeCount) = {}
      /\ LiveAt(mainQueue, "token", closeCount) = {}
  BY <1>1, <1>4 DEF Lone, AtMostOne
<1>6. NoneLive(closeCount)'
  BY <1>3, <1>5 DEF NoneLive, W
<1>7. Lone(LiveIn(asked, closeCount), LiveIn(refreshing, closeCount),
           LiveAt(mainQueue, "token", closeCount), W)'
  BY <1>3, <1>5 DEF Lone, AtMostOne
<1>8. QED
  BY <1>2, <1>4, <1>5, <1>6, <1>7 DEF LiveInv, W

\* Auth's part: nothing but where a request waits changes.
LEMMA LiveUpdate ==
  ASSUME LiveInv, IsSequence(mainQueue), NEW u, UpdateCurrentUser(u),
         UNCHANGED <<state, closeCount>>
  PROVE  LiveInv'
<1> DEFINE M == LiveAt(mainQueue, "token", closeCount)
<1>1. /\ mainQueue' = Append(mainQueue, Changed(u))
      /\ Changed(u).kind # "token"
      /\ UNCHANGED <<asked, refreshing, workQueue>>
  BY DEF UpdateCurrentUser, Changed
<1>2. /\ M' = M
      /\ \A i \in 1..Len(mainQueue') :
           mainQueue'[i] = Changed(u) \/ \E j \in 1..Len(mainQueue) :
                                           mainQueue'[i] = mainQueue[j]
  BY <1>1, LiveAppend
<1>3. ClosesPast(closeCount)'
  BY <1>1, <1>2 DEF LiveInv, ClosesPast
<1>4. /\ LiveIn(asked, closeCount)' = LiveIn(asked, closeCount)
      /\ LiveIn(refreshing, closeCount)' = LiveIn(refreshing, closeCount)
      /\ LiveAt(workQueue, "resume", closeCount)' = LiveAt(workQueue, "resume", closeCount)
  BY <1>1
<1> HIDE DEF M
<1>5. (state # "starting" => NoneLive(closeCount))'
  BY <1>2, <1>4 DEF LiveInv, NoneLive, M
<1>6. QED
  BY <1>2, <1>3, <1>4, <1>5 DEF LiveInv, M

\* An answer to x is put behind q, the main queue or the main queue with a
\* change behind it.
LEMMA LiveAnswered ==
  ASSUME LiveInv, IsSequence(mainQueue), NEW q, IsSequence(q),
         LiveAt(q, "token", closeCount) = LiveAt(mainQueue, "token", closeCount),
         \A i \in 1..Len(q) : q[i].kind # "token"
                              \/ \E j \in 1..Len(mainQueue) : q[i] = mainQueue[j],
         NEW x, NEW t, mainQueue' = Append(q, Answer(t, x)),
         UNCHANGED <<workQueue, state, closeCount>>,
         \/ x \in asked /\ asked' = asked \ {x} /\ refreshing' = refreshing
         \/ x \in refreshing /\ refreshing' = refreshing \ {x} /\ asked' = asked
  PROVE  LiveInv'
<1> DEFINE a == Answer(t, x)
           A == LiveIn(asked, closeCount)
           R == LiveIn(refreshing, closeCount)
           M == LiveAt(mainQueue, "token", closeCount)
           W == LiveAt(workQueue, "resume", closeCount)
<1>1. a.kind = "token" /\ a.closes = x.closes
  BY DEF Answer
<1>2. mainQueue' = Append(q, a) /\ closeCount' = closeCount
  OBVIOUS
<1>3. /\ x.closes # closeCount => M' = M
      /\ M' \subseteq M \cup {Len(q) + 1}
      /\ \A i \in 1..Len(mainQueue') :
           mainQueue'[i] = a \/ \E j \in 1..Len(q) : mainQueue'[i] = q[j]
  <2>1. /\ a.closes # closeCount
             => LiveAt(Append(q, a), "token", closeCount) = LiveAt(q, "token", closeCount)
        /\ LiveAt(Append(q, a), "token", closeCount)
             \subseteq LiveAt(q, "token", closeCount) \cup {Len(q) + 1}
        /\ \A i \in 1..Len(Append(q, a)) :
             Append(q, a)[i] = a \/ \E j \in 1..Len(q) : Append(q, a)[i] = q[j]
    BY <1>1, LiveAppend
  <2>2. M' = LiveAt(Append(q, a), "token", closeCount)
    BY <1>2
  <2>3. QED
    BY <1>1, <1>2, <2>1, <2>2
<1>4. W' = W
  BY <1>2
<1>5. /\ \/ /\ x.closes = closeCount => x \in A
            /\ A' = A \ {x} /\ R' = R
         \/ /\ x.closes = closeCount => x \in R
            /\ R' = R \ {x} /\ A' = A
      /\ x.closes # closeCount => A' = A /\ R' = R
  BY <1>2 DEF LiveIn
<1>6. ClosesPast(closeCount)'
  <2>1. x.closes \in Nat /\ x.closes <= closeCount
    BY DEF LiveInv, ClosesPast
  <2>2. \A i \in 1..Len(mainQueue') : mainQueue'[i].kind = "token" =>
          mainQueue'[i].closes \in Nat /\ mainQueue'[i].closes <= closeCount
    <3> HIDE DEF a, M
    <3>1. \A i \in 1..Len(mainQueue') :
            \/ mainQueue'[i] = a \/ mainQueue'[i].kind # "token"
            \/ \E j \in 1..Len(mainQueue) : mainQueue'[i] = mainQueue[j]
      BY <1>3
    <3>2. \A j \in 1..Len(mainQueue) : mainQueue[j].kind = "token" =>
            mainQueue[j].closes \in Nat /\ mainQueue[j].closes <= closeCount
      BY DEF LiveInv, ClosesPast
    <3>3. QED
      BY <1>1, <2>1, <3>1, <3>2
  <2>3. QED
    BY <2>2 DEF LiveInv, ClosesPast
<1>7. Lone(A, R, M, W) /\ (state # "starting" => A = {} /\ R = {} /\ M = {} /\ W = {})
  BY DEF LiveInv, NoneLive
<1> HIDE DEF A, R, M, W, a
<1>8. CASE x.closes = closeCount
  <2>1. state = "starting" /\ M = {} /\ W = {} /\ A' = {} /\ R' = {}
    BY <1>5, <1>7, <1>8 DEF Lone, AtMostOne
  <2>2. Lone(A', R', M', W') /\ state' = "starting"
    BY <1>3, <1>4, <2>1 DEF Lone, AtMostOne
  <2>3. QED
    BY <1>6, <2>2 DEF LiveInv, A, R, M, W
<1>9. CASE x.closes # closeCount
  <2>1. A' = A /\ R' = R /\ M' = M /\ W' = W
    BY <1>3, <1>4, <1>5, <1>9
  <2>2. /\ Lone(A', R', M', W')
        /\ state' # "starting" => A' = {} /\ R' = {} /\ M' = {} /\ W' = {}
    BY <1>7, <2>1
  <2>3. QED
    BY <1>6, <2>2 DEF LiveInv, NoneLive, A, R, M, W
<1>10. QED
  BY <1>8, <1>9

LEMMA LiveStartRefresh ==
  ASSUME LiveInv, NEW r \in asked, StartRefresh(r),
         UNCHANGED <<state, closeCount>>
  PROVE  LiveInv'
<1> DEFINE f == Refresh(currentUser, r)
           A == LiveIn(asked, closeCount)
           R == LiveIn(refreshing, closeCount)
           M == LiveAt(mainQueue, "token", closeCount)
           W == LiveAt(workQueue, "resume", closeCount)
<1>1. /\ asked' = asked \ {r} /\ refreshing' = refreshing \cup {f}
      /\ UNCHANGED <<mainQueue, workQueue>> /\ f.closes = r.closes
  BY DEF StartRefresh, Refresh
<1>2. M' = M /\ W' = W
  BY <1>1
<1>3. /\ r.closes = closeCount => r \in A
      /\ A' = A \ {r}
      /\ r.closes # closeCount => A' = A /\ R' = R
      /\ R' \subseteq R \cup {f}
  BY <1>1 DEF LiveIn
<1>4. ClosesPast(closeCount)'
  BY <1>1 DEF LiveInv, ClosesPast
<1>5. Lone(A, R, M, W) /\ (state # "starting" => A = {} /\ R = {} /\ M = {} /\ W = {})
  BY DEF LiveInv, NoneLive
<1> HIDE DEF A, R, M, W, f
<1>6. CASE r.closes = closeCount
  <2>1. state = "starting" /\ R = {} /\ M = {} /\ W = {} /\ A' = {}
    BY <1>3, <1>5, <1>6 DEF Lone, AtMostOne
  <2>2. Lone(A', R', M', W') /\ state' = "starting"
    BY <1>2, <1>3, <2>1 DEF Lone, AtMostOne
  <2>3. QED
    BY <1>4, <2>2 DEF LiveInv, A, R, M, W
<1>7. CASE r.closes # closeCount
  <2>1. A' = A /\ R' = R
    BY <1>3, <1>7
  <2>2. /\ Lone(A', R', M', W')
        /\ state' # "starting" => A' = {} /\ R' = {} /\ M' = {} /\ W' = {}
    BY <1>2, <1>5, <2>1
  <2>3. QED
    BY <1>4, <2>2 DEF LiveInv, NoneLive, A, R, M, W
<1>8. QED
  BY <1>6, <1>7

LEMMA LiveAuth ==
  ASSUME OwnerInv, LiveInv, AuthStep
  PROVE  LiveInv'
<1>1. UNCHANGED <<state, closeCount>> /\ MainInv /\ IsSequence(mainQueue)
  BY MainSequence DEF AuthStep, stream, OwnerInv, MainInv
<1>2. CASE \E u \in Credential : UpdateCurrentUser(u)
  BY <1>1, <1>2, LiveUpdate
<1>3. CASE \E r \in asked : StartRefresh(r)
  BY <1>1, <1>3, LiveStartRefresh
<1>4. CASE \E r \in asked : AnswerWithToken(r)
  <2>1. PICK r \in asked : AnswerWithToken(r)
    BY <1>4
  <2>2. /\ asked' = asked \ {r} /\ mainQueue' = Append(mainQueue, Answer(currentUser, r))
        /\ UNCHANGED <<refreshing, workQueue>>
    BY <2>1 DEF AnswerWithToken
  <2>3. QED
    BY <1>1, <2>2, LiveAnswered
<1>5. CASE \E f \in refreshing : FailRefresh(f)
  <2>1. PICK f \in refreshing : FailRefresh(f)
    BY <1>5
  <2>2. /\ refreshing' = refreshing \ {f} /\ mainQueue' = Append(mainQueue, Answer(Failed, f))
        /\ UNCHANGED <<asked, workQueue>>
    BY <2>1 DEF FailRefresh
  <2>3. QED
    BY <1>1, <2>2, LiveAnswered
<1>6. CASE \E f \in refreshing : FinishRefresh(f)
  <2>1. PICK f \in refreshing : FinishRefresh(f)
    BY <1>6
  <2>2. refreshing' = refreshing \ {f} /\ UNCHANGED <<asked, workQueue>>
    BY <2>1 DEF FinishRefresh
  <2>3. mainQueue' = IF f.user = currentUser
                       THEN Append(Append(mainQueue, Changed(f.user)), Answer(f.user, f))
                       ELSE Append(mainQueue, Answer(f.user, f))
    BY <1>1, <2>1, FinishedQueue
  <2>4. CASE f.user # currentUser
    <3>1. mainQueue' = Append(mainQueue, Answer(f.user, f))
      BY <2>3, <2>4
    <3>2. QED
      BY <1>1, <2>2, <3>1, LiveAnswered
  <2>5. CASE f.user = currentUser
    <3> DEFINE q == Append(mainQueue, Changed(f.user))
    <3>1. mainQueue' = Append(q, Answer(f.user, f))
      BY <2>3, <2>5
    <3>2. Changed(f.user).kind # "token"
      BY DEF Changed
    <3>3. /\ IsSequence(q)
          /\ LiveAt(q, "token", closeCount) = LiveAt(mainQueue, "token", closeCount)
          /\ \A i \in 1..Len(q) : q[i] = Changed(f.user)
                                  \/ \E j \in 1..Len(mainQueue) : q[i] = mainQueue[j]
      BY <1>1, <3>2, LiveAppend, AppendFacts
    <3> HIDE DEF q
    <3>4. \A i \in 1..Len(q) : q[i].kind # "token"
                               \/ \E j \in 1..Len(mainQueue) : q[i] = mainQueue[j]
      BY <3>2, <3>3
    <3>5. QED
      BY <1>1, <2>2, <3>1, <3>3, <3>4, LiveAnswered
  <2>6. QED
    BY <2>4, <2>5
<1>7. QED
  BY <1>2, <1>3, <1>4, <1>5, <1>6 DEF AuthStep

\* The main thread's part.
LEMMA LiveMain ==
  ASSUME OwnerInv, LiveInv, MainStep
  PROVE  LiveInv'
<1> DEFINE A == LiveIn(asked, closeCount)
           R == LiveIn(refreshing, closeCount)
           M == LiveAt(mainQueue, "token", closeCount)
           W == LiveAt(workQueue, "resume", closeCount)
           h == Head(mainQueue)
<1>1. /\ NoteChange \/ TakeAnswer
      /\ UNCHANGED <<state, closeCount, refreshing>>
      /\ mainQueue # <<>> /\ mainQueue' = Tail(mainQueue)
  BY DEF MainStep, stream, NoteChange, TakeAnswer
<1>2. /\ IsSequence(mainQueue) /\ IsSequence(workQueue)
  BY MainSequence DEF OwnerInv, MainInv, WorkInv, IsSequence
<1>3. /\ AtMostOne(M) => AtMostOne(M')
      /\ M = {} => M' = {}
      /\ AtMostOne(M) /\ h.kind = "token" /\ h.closes = closeCount => 1 \in M /\ M' = {}
      /\ \A i \in 1..Len(mainQueue') : \E j \in 1..Len(mainQueue) :
           mainQueue'[i] = mainQueue[j]
  <2> DEFINE T == LiveAt(Tail(mainQueue), "token", closeCount)
  <2>1. M' = T
    BY <1>1
  <2>2. /\ AtMostOne(M) => AtMostOne(T)
        /\ M = {} => T = {}
        /\ AtMostOne(M) /\ h.kind = "token" /\ h.closes = closeCount => 1 \in M /\ T = {}
        /\ \A i \in 1..Len(Tail(mainQueue)) : \E j \in 1..Len(mainQueue) :
             Tail(mainQueue)[i] = mainQueue[j]
    BY <1>1, <1>2, LiveTail
  <2> HIDE DEF T, M, h
  <2>3. QED
    BY <1>1, <2>1, <2>2
<1>4. Lone(A, R, M, W) /\ (state # "starting" => A = {} /\ R = {} /\ M = {} /\ W = {})
  BY DEF LiveInv, NoneLive
<1>5. R' = R
  BY <1>1
<1>6. /\ h = mainQueue[1] /\ 1 \in 1..Len(mainQueue)
  BY <1>1, <1>2, TailFacts
<1>7. /\ h.kind = "token" => h.closes \in Nat /\ h.closes <= closeCount
      /\ closeCount \in Nat
  BY <1>6 DEF LiveInv, ClosesPast
<1>8. CASE workQueue' = workQueue /\ asked' = asked
  <2>1. W' = W /\ A' = A
    BY <1>1, <1>8
  <2>2. ClosesPast(closeCount)'
    BY <1>1, <1>3, <1>8 DEF LiveInv, ClosesPast
  <2> HIDE DEF A, R, M, W
  <2>3. /\ Lone(A', R', M', W')
        /\ state' # "starting" => A' = {} /\ R' = {} /\ M' = {} /\ W' = {}
    BY <1>1, <1>3, <1>4, <1>5, <2>1 DEF Lone
  <2>4. QED
    BY <2>2, <2>3 DEF LiveInv, NoneLive, A, R, M, W
<1>9. CASE \E e : workQueue' = Append(workQueue, e) /\ asked' = asked
                  /\ (e.kind = "resume" => h.kind = "token" /\ e.closes = h.closes)
  <2>1. PICK e : workQueue' = Append(workQueue, e) /\ asked' = asked
                  /\ (e.kind = "resume" => h.kind = "token" /\ e.closes = h.closes)
    BY <1>9
  <2>2. A' = A
    BY <1>1, <2>1
  <2>3. /\ ~(e.kind = "resume" /\ e.closes = closeCount) => W' = W
        /\ W' \subseteq W \cup {Len(workQueue) + 1}
        /\ \A i \in 1..Len(workQueue') :
             workQueue'[i] = e \/ \E j \in 1..Len(workQueue) : workQueue'[i] = workQueue[j]
    <3>1. W' = LiveAt(Append(workQueue, e), "resume", closeCount)
      BY <1>1, <2>1
    <3>2. QED
      BY <1>2, <2>1, <3>1, LiveAppend
  <2>4. ClosesPast(closeCount)'
    <3>1. \A i \in 1..Len(workQueue') : workQueue'[i].kind = "resume" =>
            workQueue'[i].closes \in Nat /\ workQueue'[i].closes <= closeCount
      BY <1>7, <2>1, <2>3 DEF LiveInv, ClosesPast
    <3>2. QED
      BY <1>1, <1>3, <2>1, <3>1 DEF LiveInv, ClosesPast
  <2> HIDE DEF A, R, M, W, h
  <2>5. /\ Lone(A', R', M', W')
        /\ state' # "starting" => A' = {} /\ R' = {} /\ M' = {} /\ W' = {}
    <3>1. CASE e.kind = "resume" /\ e.closes = closeCount
      <4>1. M # {} /\ M' = {}
        BY <1>3, <1>4, <2>1, <3>1 DEF Lone
      <4>2. A = {} /\ R = {} /\ W = {} /\ state = "starting"
        BY <1>4, <4>1 DEF Lone
      <4>3. QED
        BY <1>1, <1>5, <2>2, <2>3, <4>1, <4>2 DEF Lone, AtMostOne
    <3>2. CASE ~(e.kind = "resume" /\ e.closes = closeCount)
      BY <1>1, <1>3, <1>4, <1>5, <2>2, <2>3, <3>2 DEF Lone
    <3>3. QED
      BY <3>1, <3>2
  <2>6. QED
    BY <2>4, <2>5 DEF LiveInv, NoneLive, A, R, M, W
<1>10. CASE h.kind = "token" /\ workQueue' = workQueue /\ asked' = GetToken(h.closes)
  <2> DEFINE r == Request(tokenCounter, h.closes)
  <2>1. W' = W
    BY <1>1, <1>10
  <2>2. asked' = asked \cup {r} /\ r.closes = h.closes
    BY <1>10 DEF GetToken, Request
  <2> HIDE DEF r
  <2>3. (h.closes # closeCount => A' = A) /\ A' \subseteq A \cup {r}
    BY <1>1, <2>2 DEF LiveIn
  <2>4. ClosesPast(closeCount)'
    BY <1>1, <1>3, <1>7, <1>10, <2>2 DEF LiveInv, ClosesPast
  <2> HIDE DEF A, R, M, W, h
  <2>5. /\ Lone(A', R', M', W')
        /\ state' # "starting" => A' = {} /\ R' = {} /\ M' = {} /\ W' = {}
    <3>1. CASE h.closes = closeCount
      <4>1. M # {} /\ M' = {}
        BY <1>3, <1>4, <1>10, <3>1 DEF Lone
      <4>2. A = {} /\ R = {} /\ W = {} /\ state = "starting"
        BY <1>4, <4>1 DEF Lone
      <4>3. QED
        BY <1>1, <1>5, <2>1, <2>3, <4>1, <4>2 DEF Lone, AtMostOne
    <3>2. CASE h.closes # closeCount
      BY <1>1, <1>3, <1>4, <1>5, <2>1, <2>3, <3>2 DEF Lone
    <3>3. QED
      BY <3>1, <3>2
  <2>6. QED
    BY <2>4, <2>5 DEF LiveInv, NoneLive, A, R, M, W
<1>11. QED
  <2>1. CASE NoteChange
    <3>1. workQueue' = Append(workQueue, Changed(h.user)) /\ asked' = asked
      BY <2>1 DEF NoteChange
    <3>2. Changed(h.user).kind # "resume"
      BY DEF Changed
    <3>3. QED
      BY <1>9, <3>1, <3>2
  <2>2. CASE TakeAnswer
    <3>1. /\ h.kind = "token"
          /\ \/ /\ workQueue' = Append(workQueue, Resume(h.token, h.closes))
                /\ asked' = asked
             \/ workQueue' = workQueue /\ asked' = GetToken(h.closes)
      BY <2>2 DEF TakeAnswer
    <3>2. Resume(h.token, h.closes).closes = h.closes
      BY DEF Resume
    <3>3. QED
      BY <1>9, <1>10, <3>1, <3>2
  <2>3. QED
    BY <1>1, <2>1, <2>2

LEMMA LiveStarting ==
  ASSUME OwnerInv, LiveInv, NEW s, NEW p, StartIfNeeded(s, p, closeCount'),
         workQueue' = workQueue \/ (workQueue # <<>> /\ workQueue' = Tail(workQueue)),
         UNCHANGED <<refreshing, mainQueue>>,
         \/ s = state /\ closeCount' = closeCount
         \/ /\ closeCount' \in Nat /\ closeCount' >= closeCount
            /\ NoneLive(closeCount')
  PROVE  LiveInv'
<1>1. IsSequence(workQueue) /\ closeCount \in Nat
  BY DEF OwnerInv, WorkInv, IsSequence
<1>2. \/ state' = s /\ asked' = asked
      \/ s = "error" /\ state' = "backoff" /\ asked' = asked
      \/ s # "starting" /\ state' = "starting" /\ asked' = GetToken(closeCount')
  BY DEF StartIfNeeded, IsStarted
<1>3. CASE s = state /\ closeCount' = closeCount
  <2>1. CASE state' = s /\ asked' = asked
    BY <1>1, <1>3, <2>1, LiveQuiet
  <2>2. CASE state # "starting" /\ (asked' = asked \/
                (asked' = GetToken(closeCount') /\ state' = "starting"))
    <3>1. NoneLive(closeCount') /\ closeCount' \in Nat /\ closeCount' >= closeCount
      BY <1>1, <1>3, <2>2, NothingLive
    <3>2. QED
      BY <1>1, <2>2, <3>1, LiveStart
  <2>3. QED
    BY <1>2, <1>3, <2>1, <2>2
<1>4. CASE closeCount' \in Nat /\ closeCount' >= closeCount /\ NoneLive(closeCount')
  BY <1>1, <1>2, <1>4, LiveStart
<1>5. QED
  BY <1>3, <1>4

LEMMA LiveRestarting ==
  ASSUME OwnerInv, LiveInv, NEW u, RestartNetwork(u),
         workQueue' = workQueue \/ (workQueue # <<>> /\ workQueue' = Tail(workQueue)),
         UNCHANGED <<refreshing, mainQueue>>
  PROVE  LiveInv'
<1>1. \E p : StartIfNeeded("initial", p, closeCount')
  BY DEF RestartNetwork
<1>2. /\ closeCount \in Nat
      /\ closeCount' = IF IsStarted(state) THEN closeCount + 1 ELSE closeCount
  BY DEF OwnerInv, WorkInv, RestartNetwork, ClosesOfStop
<1>3. /\ closeCount' \in Nat /\ closeCount' >= closeCount
      /\ closeCount' > closeCount \/ (closeCount' = closeCount /\ state # "starting")
  BY <1>2 DEF IsStarted
<1>4. QED
  BY <1>1, <1>3, NothingLive, LiveStarting

LEMMA LiveClosing ==
  ASSUME OwnerInv, LiveInv, NEW s, NEW p, CloseWithError(s, p),
         workQueue' = workQueue \/ (workQueue # <<>> /\ workQueue' = Tail(workQueue)),
         UNCHANGED <<refreshing, mainQueue>>
  PROVE  LiveInv'
<1>1. /\ closeCount \in Nat /\ closeCount' = closeCount + 1
      /\ StartIfNeeded(s, p, closeCount')
  BY DEF CloseWithError, OwnerInv, WorkInv
<1>2. closeCount' \in Nat /\ closeCount' > closeCount /\ closeCount' >= closeCount
  BY <1>1
<1>3. QED
  BY <1>1, <1>2, NothingLive, LiveStarting

LEMMA LiveTasks ==
  ASSUME OwnerInv, LiveInv,
         WriteMutations \/ HandleCredentialChange \/ IgnoreToken
           \/ ResumeStartWithCredentials \/ FailToStart
  PROVE  LiveInv'
<1>1. /\ workQueue # <<>> /\ workQueue' = Tail(workQueue)
      /\ UNCHANGED <<refreshing, mainQueue>> /\ IsSequence(workQueue)
  BY DEF WriteMutations, HandleCredentialChange, IgnoreToken,
         ResumeStartWithCredentials, FailToStart, TakeTask, authVars,
         OwnerInv, WorkInv, IsSequence
<1>2. CASE WriteMutations
  <2>1. (\E p : StartIfNeeded(state, p, closeCount)) /\ closeCount' = closeCount
    BY <1>2 DEF WriteMutations, FillWritePipeline
  <2>2. QED
    BY <1>1, <2>1, LiveStarting
<1>3. CASE HandleCredentialChange
  BY <1>1, <1>3, LiveRestarting DEF HandleCredentialChange
<1>4. CASE IgnoreToken
  BY <1>1, <1>4, LiveQuiet DEF IgnoreToken, stream
<1>5. CASE ResumeStartWithCredentials
  BY <1>1, <1>5, LiveOpen DEF ResumeStartWithCredentials, IsLive, TakeTask
<1>6. CASE FailToStart
  BY <1>1, <1>6, LiveClosing DEF FailToStart
<1>7. QED
  BY <1>2, <1>3, <1>4, <1>5, <1>6

LEMMA LiveWorker ==
  ASSUME OwnerInv, LiveInv,
         \/ BackoffElapses \/ IdleTimeout \/ ConnectivityChange
         \/ OnWriteStreamHandshakeComplete \/ OnWriteStreamMutationResult
         \/ HandleWriteError \/ OnWriteStreamClose
         \/ ServerStep \/ LoseConnection
  PROVE  LiveInv'
<1>1. UNCHANGED <<refreshing, mainQueue, workQueue>>
      /\ IsSequence(workQueue) /\ closeCount \in Nat
  BY DEF BackoffElapses, IdleTimeout, ConnectivityChange,
         OnWriteStreamHandshakeComplete, OnWriteStreamMutationResult,
         HandleWriteError, OnWriteStreamClose, authVars, OwnerInv, WorkInv, IsSequence,
         ServerStep, AnswerHandshake, ApplyWrite, RefuseWrite, Receive,
         LoseConnection, credentialVars
<1>2. CASE BackoffElapses
  <2>1. /\ StartIfNeeded("initial", pipeline, closeCount) /\ closeCount' = closeCount
        /\ state # "starting"
    BY <1>2 DEF BackoffElapses
  <2>2. NoneLive(closeCount') /\ closeCount' >= closeCount
    BY <1>1, <2>1, NothingLive
  <2>3. QED
    BY <1>1, <2>1, <2>2, LiveStarting
<1>3. CASE IdleTimeout
  <2>1. closeCount' = closeCount + 1 /\ asked' = asked
    BY <1>3 DEF IdleTimeout
  <2>2. closeCount' \in Nat /\ closeCount' > closeCount /\ closeCount' >= closeCount
    BY <1>1, <2>1
  <2>3. QED
    BY <1>1, <2>1, <2>2, NothingLive, LiveStart
<1>4. CASE ConnectivityChange
  BY <1>1, <1>4, LiveRestarting DEF ConnectivityChange
<1>5. CASE OnWriteStreamHandshakeComplete \/ ServerStep \/ LoseConnection
  <2>1. UNCHANGED <<asked, state, closeCount>>
    BY <1>5 DEF OnWriteStreamHandshakeComplete, ServerStep, AnswerHandshake,
                ApplyWrite, RefuseWrite, Receive, LoseConnection, credentialVars
  <2>2. QED
    BY <1>1, <2>1, LiveQuiet
<1>6. CASE OnWriteStreamMutationResult
  <2>1. (\E p : StartIfNeeded(state, p, closeCount)) /\ closeCount' = closeCount
    BY <1>6 DEF OnWriteStreamMutationResult, FillWritePipeline
  <2>2. QED
    BY <1>1, <2>1, LiveStarting
<1>7. CASE HandleWriteError
  <2>1. \E p : CloseWithError("initial", p)
    BY <1>7 DEF HandleWriteError
  <2>2. QED
    BY <1>1, <2>1, LiveClosing
<1>8. CASE OnWriteStreamClose
  BY <1>1, <1>8, LiveClosing DEF OnWriteStreamClose
<1>9. QED
  BY <1>2, <1>3, <1>4, <1>5, <1>6, <1>7, <1>8

\* A write that waits for the worker is no token.
LEMMA LiveApp ==
  ASSUME OwnerInv, LiveInv, NEW m \in AppWrite, WriteDocument(m)
  PROVE  LiveInv'
<1> DEFINE e == [kind |-> "write", mutation |-> m, author |-> contentsUser]
           W == LiveAt(workQueue, "resume", closeCount)
<1>1. /\ workQueue' = Append(workQueue, e) /\ e.kind # "resume"
      /\ UNCHANGED <<asked, refreshing, mainQueue, state, closeCount>>
      /\ IsSequence(workQueue)
  BY DEF WriteDocument, authVars, stream, OwnerInv, WorkInv, IsSequence
<1>2. /\ W' = W
      /\ \A i \in 1..Len(workQueue') :
           workQueue'[i] = e \/ \E j \in 1..Len(workQueue) : workQueue'[i] = workQueue[j]
  BY <1>1, LiveAppend
<1> HIDE DEF e
<1>3. ClosesPast(closeCount)'
  BY <1>1, <1>2 DEF LiveInv, ClosesPast
<1>4. /\ LiveIn(asked, closeCount)' = LiveIn(asked, closeCount)
      /\ LiveIn(refreshing, closeCount)' = LiveIn(refreshing, closeCount)
      /\ LiveAt(mainQueue, "token", closeCount)' = LiveAt(mainQueue, "token", closeCount)
  BY <1>1
<1> HIDE DEF W
<1>5. (state # "starting" => NoneLive(closeCount))'
  BY <1>1, <1>2, <1>4 DEF LiveInv, NoneLive, W
<1>6. QED
  BY <1>2, <1>3, <1>4, <1>5 DEF LiveInv, W

LEMMA LiveEmpty ==
  ASSUME mainQueue = <<>>, workQueue = <<>>, refreshing = {},
         closeCount = 0,
         asked = {} \/ (asked = {Request(0, 0)} /\ state = "starting")
  PROVE  LiveInv
<1>1. Len(mainQueue) = 0 /\ Len(workQueue) = 0
  OBVIOUS
<1>2. /\ LiveAt(mainQueue, "token", closeCount) = {}
      /\ LiveAt(workQueue, "resume", closeCount) = {}
      /\ LiveIn(refreshing, closeCount) = {}
      /\ asked = {} => LiveIn(asked, closeCount) = {}
      /\ LiveIn(asked, closeCount) \subseteq {Request(0, 0)}
  BY <1>1 DEF LiveAt, LiveIn
<1>3. \A r \in asked : r.closes = 0
  BY DEF Request
<1>4. ClosesPast(closeCount)
  BY <1>1, <1>3 DEF ClosesPast
<1>5. QED
  BY <1>2, <1>4 DEF LiveInv, Lone, AtMostOne, NoneLive

LEMMA LiveInit == Init => LiveInv
BY LiveEmpty DEF Init

LEMMA LiveRestart ==
  ASSUME RestartApp
  PROVE  LiveInv'
<1>1. /\ mainQueue' = <<>> /\ workQueue' = <<>> /\ refreshing' = {}
      /\ closeCount' = 0
      /\ asked' = {} \/ (asked' = {Request(0, 0)} /\ state' = "starting")
  BY DEF RestartApp
<1>2. Len(mainQueue') = 0 /\ Len(workQueue') = 0
  BY <1>1
<1>3. /\ LiveAt(mainQueue', "token", closeCount') = {}
      /\ LiveAt(workQueue', "resume", closeCount') = {}
      /\ LiveIn(refreshing', closeCount') = {}
      /\ asked' = {} => LiveIn(asked', closeCount') = {}
      /\ LiveIn(asked', closeCount') \subseteq {Request(0, 0)}
  BY <1>1, <1>2 DEF LiveAt, LiveIn
<1>4. \A r \in asked' : r.closes = 0
  BY <1>1 DEF Request
<1>5. ClosesPast(closeCount)'
  BY <1>1, <1>2, <1>4 DEF ClosesPast
<1>6. QED
  BY <1>1, <1>3, <1>5 DEF LiveInv, Lone, AtMostOne, NoneLive

LEMMA LiveStep == OwnerInv /\ LiveInv /\ [Next]_vars => LiveInv'
<1>1. SUFFICES ASSUME OwnerInv, LiveInv, [Next]_vars PROVE LiveInv'
  OBVIOUS
<1>2. CASE \E m \in AppWrite : WriteDocument(m)
  BY <1>1, <1>2, LiveApp
<1>3. CASE AuthStep
  BY <1>1, <1>3, LiveAuth
<1>4. CASE MainStep
  BY <1>1, <1>4, LiveMain
<1>5. CASE WorkerStep \/ IdleTimeout \/ ConnectivityChange \/ ServerStep \/ LoseConnection
  BY <1>1, <1>5, LiveTasks, LiveWorker DEF WorkerStep
<1>6. CASE RestartApp
  BY <1>1, <1>6, LiveRestart
<1>7. CASE UNCHANGED vars
  <2>1. UNCHANGED <<asked, refreshing, mainQueue, workQueue, state, closeCount>>
        /\ IsSequence(workQueue)
    BY <1>1, <1>7 DEF vars, credentialVars, authVars, stream, OwnerInv, WorkInv, IsSequence
  <2>2. QED
    BY <1>1, <2>1, LiveQuiet
<1>8. QED
  BY <1>1, <1>2, <1>3, <1>4, <1>5, <1>6, <1>7 DEF Next

-----------------------------------------------------------------------------
(* What is on its way on a stream                                            *)

Refused(st) == IF st = "permanent" THEN 1 ELSE 0

\* After the handshake: the answers, the batch that is refused if one is, and
\* the requests are the pipeline p, in its order; of a stream that is lost only
\* the last requests are left.
Fits(req, resp, st, p) ==
  /\ resp \in Seq(Nat)
  /\ \A i \in 1..Len(resp) : i \in 1..Len(p) /\ resp[i] = p[i].id
  /\ \E j \in 0..Len(p) :
       /\ req = SubSeq(p, j + 1, Len(p))
       /\ Len(resp) + Refused(st) <= j
       /\ st # "transient" => j = Len(resp) + Refused(st)
  /\ st = "transient" => resp = <<>>

LEMMA RestFacts ==
  ASSUME NEW p \in Seq(Batch), NEW j \in 0..Len(p)
  PROVE  LET r == SubSeq(p, j + 1, Len(p))
         IN /\ r \in Seq(Batch) /\ Len(r) = Len(p) - j
            /\ \A i \in 1..(Len(p) - j) : r[i] = p[j + i]
<1>1. /\ j + 1 \in Nat /\ Len(p) \in Nat /\ 1 <= j + 1 /\ j + 1 <= Len(p) + 1
      /\ Len(p) <= Len(p)
  BY LenProperties
<1> DEFINE r == SubSeq(p, j + 1, Len(p))
<1>2. /\ r \in Seq(Batch) /\ Len(r) = Len(p) - (j + 1) + 1
      /\ \A i \in 1..(Len(p) - (j + 1) + 1) : r[i] = p[(j + 1) + i - 1]
  BY <1>1, SubSeqFacts
<1> HIDE DEF r
<1>3. /\ r \in Seq(Batch) /\ Len(r) = Len(p) - j
      /\ \A i \in 1..(Len(p) - j) : r[i] = p[j + i]
  BY <1>1, <1>2
<1>4. QED
  BY <1>3 DEF r

LEMMA FitsStart ==
  ASSUME NEW p \in Seq(Batch)
  PROVE  Fits(p, <<>>, "ok", p) /\ Fits(<<>>, <<>>, "transient", p)
<1>1. Len(p) \in Nat /\ 0 \in 0..Len(p) /\ Len(p) \in 0..Len(p)
  BY LenProperties
<1>2. p = SubSeq(p, 0 + 1, Len(p))
  BY SubSeqFull
<1>3. <<>> = SubSeq(p, Len(p) + 1, Len(p))
  BY <1>1, SubSeqEmpty
<1>4. QED
  BY <1>1, <1>2, <1>3 DEF Fits, Refused

\* The pipeline grows, and what is added to it is sent.
LEMMA FitsFill ==
  ASSUME NEW p \in Seq(Batch), NEW k \in 0..Len(p), NEW req, NEW resp, NEW st,
         Fits(req, resp, st, SubSeq(p, 1, k))
  PROVE  Fits(req \o SubSeq(p, k + 1, Len(p)), resp, st, p)
<1> DEFINE o == SubSeq(p, 1, k)
<1>1. o \in Seq(Batch) /\ Len(o) = k /\ \A i \in 1..k : o[i] = p[i]
  BY PrefixFacts
<1>2. Len(p) \in Nat
  BY LenProperties
<1> HIDE DEF o
<1>3. /\ resp \in Seq(Nat)
      /\ \A i \in 1..Len(resp) : i \in 1..k /\ resp[i] = o[i].id
      /\ st = "transient" => resp = <<>>
  BY <1>1 DEF Fits, o
<1>4. PICK j \in 0..k :
         /\ req = SubSeq(o, j + 1, k)
         /\ Len(resp) + Refused(st) <= j
         /\ st # "transient" => j = Len(resp) + Refused(st)
  BY <1>1 DEF Fits, o
<1>5. SubSeq(o, j + 1, k) = SubSeq(p, j + 1, k)
  <2>1. /\ j + 1 \in Nat /\ k \in Nat /\ 1 <= j + 1 /\ j + 1 <= k + 1
        /\ k <= Len(p) /\ k <= Len(o)
    BY <1>1, <1>2
  <2> DEFINE a == SubSeq(o, j + 1, k)
             b == SubSeq(p, j + 1, k)
             l == k - (j + 1) + 1
  <2>2. a \in Seq(Batch) /\ Len(a) = l /\ \A i \in 1..l : a[i] = o[(j + 1) + i - 1]
    BY <1>1, <2>1, SubSeqFacts
  <2>3. b \in Seq(Batch) /\ Len(b) = l /\ \A i \in 1..l : b[i] = p[(j + 1) + i - 1]
    BY <2>1, SubSeqFacts
  <2>4. \A i \in 1..l : (j + 1) + i - 1 \in 1..k
    BY <2>1
  <2> HIDE DEF a, b, l
  <2>5. \A i \in 1..Len(a) : a[i] = b[i]
    BY <1>1, <2>2, <2>3, <2>4
  <2>6. a = b
    BY <2>2, <2>3, <2>5, SeqEqual
  <2>7. QED
    BY <2>6 DEF a, b
<1>6. SubSeq(p, j + 1, k) \o SubSeq(p, k + 1, Len(p)) = SubSeq(p, j + 1, Len(p))
  <2>1. /\ j + 1 \in 1..(Len(p) + 1) /\ k \in ((j + 1) - 1)..Len(p)
        /\ Len(p) \in k..Len(p)
    BY <1>2
  <2>2. QED
    BY <2>1, ConcatAdjacentSubSeq
<1>7. /\ j \in 0..Len(p) /\ \A i \in 1..k : i \in 1..Len(p)
  BY <1>2
<1>8. req \o SubSeq(p, k + 1, Len(p)) = SubSeq(p, j + 1, Len(p))
  BY <1>4, <1>5, <1>6
<1>9. \A i \in 1..Len(resp) : i \in 1..Len(p) /\ resp[i] = p[i].id
  BY <1>1, <1>3, <1>7
<1> DEFINE new == req \o SubSeq(p, k + 1, Len(p))
<1> HIDE DEF new
<1>10. QED
  BY <1>3, <1>4, <1>7, <1>8, <1>9 DEF Fits

\* The first answer is read, and its batch leaves the pipeline.
LEMMA FitsTail ==
  ASSUME NEW p \in Seq(Batch), NEW req, NEW resp, NEW st,
         Fits(req, resp, st, p), resp # <<>>
  PROVE  /\ p # <<>> /\ Fits(req, Tail(resp), st, Tail(p))
<1>1. /\ resp \in Seq(Nat) /\ Len(resp) \in Nat \ {0} /\ Tail(resp) \in Seq(Nat)
      /\ Len(Tail(resp)) = Len(resp) - 1
      /\ \A i \in 1..(Len(resp) - 1) : Tail(resp)[i] = resp[i + 1]
  BY HeadTailProperties, LenProperties, EmptySeq DEF Fits
<1>2. /\ \A i \in 1..Len(resp) : i \in 1..Len(p) /\ resp[i] = p[i].id
      /\ st # "transient"
  BY DEF Fits
<1>3. Len(p) \in Nat \ {0} /\ p # <<>>
  <2>1. 1 \in 1..Len(resp) /\ Len(p) \in Nat
    BY <1>1, LenProperties
  <2>2. 1 \in 1..Len(p)
    BY <1>2, <2>1
  <2>3. QED
    BY <2>1, <2>2
<1>4. /\ Tail(p) \in Seq(Batch) /\ Len(Tail(p)) = Len(p) - 1
      /\ \A i \in 1..(Len(p) - 1) : Tail(p)[i] = p[i + 1]
  BY <1>3, HeadTailProperties
<1> DEFINE t == Tail(p)
           s == Tail(resp)
<1>5. \A i \in 1..Len(s) : i \in 1..Len(t) /\ s[i] = t[i].id
  <2>1. TAKE i \in 1..Len(s)
  <2>2. i + 1 \in 1..Len(resp) /\ i \in 1..(Len(resp) - 1)
    BY <1>1
  <2>3. i + 1 \in 1..Len(p) /\ resp[i + 1] = p[i + 1].id
    BY <1>2, <2>2
  <2>4. i \in 1..(Len(p) - 1)
    BY <1>3, <2>2, <2>3
  <2>5. QED
    BY <1>1, <1>4, <2>2, <2>3, <2>4
<1>6. PICK j \in 0..Len(p) :
         req = SubSeq(p, j + 1, Len(p)) /\ j = Len(resp) + Refused(st)
  BY <1>2 DEF Fits
<1>7. /\ Refused(st) \in {0, 1} /\ j - 1 \in 0..Len(t)
      /\ j - 1 = Len(s) + Refused(st) /\ Len(s) + Refused(st) <= j - 1
  <2>1. Refused(st) \in {0, 1}
    BY DEF Refused
  <2>2. Len(s) = Len(resp) - 1 /\ Len(t) = Len(p) - 1
    BY <1>1, <1>4
  <2>3. /\ Len(resp) \in Nat \ {0} /\ Len(p) \in Nat \ {0} /\ j \in 0..Len(p)
        /\ j = Len(resp) + Refused(st)
    BY <1>1, <1>3, <1>6
  <2> DEFINE d == Refused(st)
             m == Len(resp)
             n == Len(p)
  <2> HIDE DEF s, t, d, m, n
  <2>4. d \in {0, 1} /\ m \in Nat \ {0} /\ n \in Nat \ {0} /\ j \in 0..n /\ j = m + d
    BY <2>1, <2>3 DEF d, m, n
  <2>5. Len(s) = m - 1 /\ Len(t) = n - 1
    BY <2>2 DEF m, n
  <2>6. d \in {0, 1} /\ j - 1 \in 0..(n - 1) /\ j - 1 = (m - 1) + d /\ (m - 1) + d <= j - 1
    BY <2>4
  <2>7. QED
    BY <2>5, <2>6 DEF d
<1>8. SubSeq(p, j + 1, Len(p)) = SubSeq(t, (j - 1) + 1, Len(t))
  <2> DEFINE a == SubSeq(p, j + 1, Len(p))
             b == SubSeq(t, (j - 1) + 1, Len(t))
  <2>1. a \in Seq(Batch) /\ Len(a) = Len(p) - j /\ \A i \in 1..(Len(p) - j) : a[i] = p[j + i]
    BY RestFacts
  <2>2. /\ b \in Seq(Batch) /\ Len(b) = Len(t) - (j - 1)
        /\ \A i \in 1..(Len(t) - (j - 1)) : b[i] = t[(j - 1) + i]
    BY <1>4, <1>7, RestFacts
  <2>3. Len(a) = Len(b)
    <3>1. Len(t) = Len(p) - 1
      BY <1>4
    <3> HIDE DEF a, b, t
    <3>2. QED
      BY <1>3, <2>1, <2>2, <3>1
  <2>4. \A i \in 1..(Len(p) - j) : /\ (j - 1) + i \in 1..(Len(p) - 1)
                                   /\ ((j - 1) + i) + 1 = j + i
                                   /\ i \in 1..(Len(t) - (j - 1))
    BY <1>3, <1>4, <1>7
  <2> HIDE DEF a, b, t
  <2>5. \A i \in 1..(Len(p) - j) : t[(j - 1) + i] = p[j + i]
    <3>1. TAKE i \in 1..(Len(p) - j)
    <3>2. t[(j - 1) + i] = p[((j - 1) + i) + 1]
      BY <1>4, <2>4 DEF t
    <3>3. QED
      BY <2>4, <3>2
  <2>6. \A i \in 1..Len(a) : a[i] = b[i]
    BY <2>1, <2>2, <2>4, <2>5
  <2>7. a = b
    BY <2>1, <2>2, <2>3, <2>6, SeqEqual
  <2>8. QED
    BY <2>7 DEF a, b, t
<1>9. s \in Seq(Nat)
  BY <1>1
<1> HIDE DEF s, t
<1>10. Fits(req, s, st, t)
  <2>1. req = SubSeq(t, (j - 1) + 1, Len(t))
    BY <1>6, <1>8
  <2>2. \E i \in 0..Len(t) :
          /\ req = SubSeq(t, i + 1, Len(t))
          /\ Len(s) + Refused(st) <= i
          /\ st # "transient" => i = Len(s) + Refused(st)
    BY <1>7, <2>1
  <2>3. QED
    BY <1>2, <1>5, <1>9, <2>2 DEF Fits
<1>11. QED
  BY <1>3, <1>10 DEF s, t

\* A request is received: it is answered, or refused.
LEMMA FitsReceive ==
  ASSUME NEW p \in Seq(Batch), NEW req, NEW resp, Fits(req, resp, "ok", p), req # <<>>
  PROVE  /\ Head(req) \in Batch /\ Len(resp) + 1 \in 1..Len(p)
         /\ Head(req) = p[Len(resp) + 1]
         /\ Fits(Tail(req), Append(resp, Head(req).id), "ok", p)
         /\ Fits(Tail(req), resp, "permanent", p)
<1>1. /\ resp \in Seq(Nat) /\ Len(resp) \in Nat
      /\ \A i \in 1..Len(resp) : i \in 1..Len(p) /\ resp[i] = p[i].id
  BY LenProperties DEF Fits
<1> DEFINE n == Len(resp)
<1>2. /\ n \in 0..Len(p) /\ req = SubSeq(p, n + 1, Len(p)) /\ Len(p) \in Nat
  <2>1. Refused("ok") = 0
    BY DEF Refused
  <2>2. PICK j \in 0..Len(p) : req = SubSeq(p, j + 1, Len(p)) /\ j = n + Refused("ok")
    BY DEF Fits
  <2>3. j = n
    BY <1>1, <2>1, <2>2
  <2>4. QED
    BY <2>2, <2>3, LenProperties
<1>3. /\ req \in Seq(Batch) /\ Len(req) = Len(p) - n
      /\ \A i \in 1..(Len(p) - n) : req[i] = p[n + i]
  BY <1>2, RestFacts
<1>4. n < Len(p)
  <2>1. Len(req) \in Nat /\ Len(req) # 0
    BY <1>3, LenProperties, EmptySeq
  <2> HIDE DEF n
  <2>2. QED
    BY <1>2, <1>3, <2>1
<1>5. n + 1 \in 1..Len(p) /\ n \in Nat
  BY <1>1, <1>2, <1>4
<1> HIDE DEF n
<1>6. Head(req) = p[n + 1] /\ Tail(req) = SubSeq(p, (n + 1) + 1, Len(p))
  <2>1. Len(p) \in (n + 1)..Len(p)
    BY <1>2, <1>5
  <2>2. /\ Head(SubSeq(p, n + 1, Len(p))) = p[n + 1]
        /\ Tail(SubSeq(p, n + 1, Len(p))) = SubSeq(p, (n + 1) + 1, Len(p))
    BY <1>5, <2>1, HeadTailOfSubSeq
  <2>3. QED
    BY <1>2, <2>2
<1>7. Head(req) \in Batch /\ Head(req).id \in Nat
  <2>1. p[n + 1] \in Batch
    BY <1>5
  <2>2. \A b \in Batch : b.id \in Nat
    BY DEF Batch
  <2>3. QED
    BY <1>6, <2>1, <2>2
<1> DEFINE x == Head(req).id
           r == Append(resp, x)
<1>8. /\ r \in Seq(Nat) /\ Len(r) = n + 1 /\ r[n + 1] = x
      /\ \A i \in 1..n : r[i] = resp[i]
  BY <1>1, <1>7, AppendProperties DEF n
<1>9. x = p[n + 1].id
  BY <1>6
<1> HIDE DEF r, x
<1>10. \A i \in 1..Len(r) : i \in 1..Len(p) /\ r[i] = p[i].id
  <2>1. \A i \in 1..(n + 1) : i \in 1..n \/ i = n + 1
    BY <1>5
  <2>2. \A i \in 1..n : i \in 1..Len(p) /\ resp[i] = p[i].id
    BY <1>1 DEF n
  <2>3. QED
    BY <1>5, <1>8, <1>9, <2>1, <2>2
<1>11. n + 1 \in 0..Len(p) /\ n + 1 = Len(r) + Refused("ok")
       /\ n + 1 = Len(resp) + Refused("permanent")
  BY <1>1, <1>5, <1>8 DEF Refused, n
<1>12. Len(r) + Refused("ok") <= n + 1 /\ Len(resp) + Refused("permanent") <= n + 1
  BY <1>5, <1>11
<1>13. Fits(Tail(req), r, "ok", p)
  BY <1>6, <1>8, <1>10, <1>11, <1>12 DEF Fits
<1>14. Fits(Tail(req), resp, "permanent", p)
  BY <1>1, <1>6, <1>11, <1>12 DEF Fits
<1>15. QED
  BY <1>5, <1>6, <1>7, <1>13, <1>14 DEF n, r, x

\* Before the handshake is answered: it is on its way, or its answer is, or
\* both are lost.
Opening(req, resp, st) ==
  /\ \/ req = <<Handshake>> /\ resp = <<>>
     \/ req = <<>> /\ resp \in {<<>>, <<0>>}
  /\ st \in {"ok", "transient"}
  /\ st = "transient" => req = <<>> /\ resp = <<>>

Closed == {"initial", "starting", "error", "backoff"}

StreamInv ==
  /\ pipeline = HeadOf(queue[user])
  /\ state \in Closed \cup {"open"}
  /\ handshake \in BOOLEAN /\ idle \in BOOLEAN /\ token \in Credential
  /\ status \in {"ok", "transient", "permanent"}
  /\ state \in Closed =>
       /\ handshake = FALSE /\ idle = FALSE
       /\ requests = <<>> /\ responses = <<>> /\ status = "ok"
  /\ idle = TRUE => handshake = TRUE /\ pipeline = <<>>
  /\ state = "open" /\ handshake = FALSE => Opening(requests, responses, status)
  /\ handshake = TRUE => Fits(requests, responses, status, pipeline)

LEMMA StreamQueue ==
  ASSUME OwnerInv
  PROVE  /\ user \in Credential
         /\ \A u \in Credential : queue[u] \in Seq(Batch) /\ Ascending(queue[u])
BY DEF OwnerInv, WorkInv, QueueInv, Ascending

LEMMA StreamQuiet ==
  ASSUME StreamInv, UNCHANGED <<local, stream>>
  PROVE  StreamInv'
BY DEF StreamInv, local, stream

\* A stream that is dropped.
LEMMA StreamDropped ==
  ASSUME DropStream, pipeline' = HeadOf(queue'[user']), state' \in Closed
  PROVE  StreamInv'
<1>1. /\ handshake' = FALSE /\ idle' = FALSE /\ token' = NoUser
      /\ requests' = <<>> /\ responses' = <<>> /\ status' = "ok"
      /\ token' \in Credential
  BY DEF DropStream, Credential
<1>2. state' # "open"
  BY DEF Closed
<1>3. QED
  BY <1>1, <1>2 DEF StreamInv

LEMMA ClosedStates ==
  ASSUME NEW s, NEW p, NEW c, StartIfNeeded(s, p, c)
  PROVE  /\ s \in Closed => state' \in Closed
         /\ s = "open" => state' = "open" /\ asked' = asked
BY DEF StartIfNeeded, IsStarted, Closed

LEMMA RefilledAnew ==
  ASSUME NEW q \in Seq(Batch), Ascending(q)
  PROVE  Refill(<<>>, q) = HeadOf(q)
<1>1. Room(q) \in Nat
  BY RoomFacts
<1>2. 0 \in 0..Room(q) /\ SubSeq(q, 1, 0) = <<>>
  BY <1>1, SubSeqEmpty
<1>3. QED
  BY <1>2, RefillIsHead

\* The pipeline that held a first part of the queue is filled.
LEMMA Filled ==
  ASSUME NEW q \in Seq(Batch), Ascending(q), NEW k \in 0..Room(q), NEW s, NEW c,
         FillWritePipeline(s, SubSeq(q, 1, k), q, c)
  PROVE  LET h == HeadOf(q)
             sent == IF s = "open" /\ handshake
                       THEN SubSeq(h, k + 1, Len(h)) ELSE <<>>
         IN /\ pipeline' = h
            /\ requests' = requests \o sent
            /\ idle' = (s = "open" /\ (h = <<>> \/ (idle /\ sent = <<>>)))
            /\ StartIfNeeded(s, h, c)
            /\ SubSeq(q, 1, k) = SubSeq(h, 1, k)
            /\ k \in 0..Len(h) /\ h \in Seq(Batch)
<1> DEFINE h == HeadOf(q)
           p == SubSeq(q, 1, k)
<1>1. Refill(p, q) = h
  BY RefillIsHead
<1>2. /\ Len(q) \in Nat /\ Room(q) \in Nat /\ Room(q) <= Len(q) /\ k \in 0..Len(q)
  BY RoomFacts
<1>3. /\ h \in Seq(Batch) /\ Len(h) = Room(q)
      /\ \A i \in 1..Room(q) : h[i] = q[i]
  BY HeadFacts
<1>4. p \in Seq(Batch) /\ Len(p) = k /\ \A i \in 1..k : p[i] = q[i]
  BY <1>2, PrefixFacts
<1>5. /\ pipeline' = Refill(p, q)
      /\ requests' = requests \o (IF s = "open" /\ handshake
                      THEN SubSeq(Refill(p, q), Len(p) + 1, Len(Refill(p, q)))
                      ELSE <<>>)
      /\ idle' = (s = "open" /\ (Refill(p, q) = <<>>
                   \/ (idle /\ (IF s = "open" /\ handshake
                      THEN SubSeq(Refill(p, q), Len(p) + 1, Len(Refill(p, q)))
                      ELSE <<>>) = <<>>)))
      /\ StartIfNeeded(s, Refill(p, q), c)
  BY DEF FillWritePipeline, IdleAfterFill
<1>6. SubSeq(h, 1, k) = p
  <2> DEFINE o == SubSeq(h, 1, k)
  <2> HIDE DEF h, p
  <2>1. o \in Seq(Batch) /\ Len(o) = k /\ \A i \in 1..k : o[i] = h[i]
    BY <1>2, <1>3, PrefixFacts
  <2> HIDE DEF o
  <2>2. \A i \in 1..k : i \in 1..Room(q)
    BY <1>2
  <2>3. \A i \in 1..Len(o) : o[i] = p[i]
    BY <1>3, <1>4, <2>1, <2>2
  <2>4. o = p
    BY <1>4, <2>1, <2>3, SeqEqual
  <2>5. QED
    BY <2>4 DEF o
<1>7. k \in 0..Len(h)
  BY <1>3
<1> HIDE DEF h, p
<1>8. /\ pipeline' = h
      /\ requests' = requests \o (IF s = "open" /\ handshake
                                    THEN SubSeq(h, k + 1, Len(h)) ELSE <<>>)
      /\ idle' = (s = "open" /\ (h = <<>>
                   \/ (idle /\ (IF s = "open" /\ handshake
                                  THEN SubSeq(h, k + 1, Len(h)) ELSE <<>>) = <<>>)))
      /\ StartIfNeeded(s, h, c)
  BY <1>1, <1>4, <1>5, Zenon
<1>9. QED
  BY <1>3, <1>6, <1>7, <1>8, Zenon DEF h, p

\* What is sent when the pipeline grows is something.
LEMMA SentIsNotEmpty ==
  ASSUME NEW h \in Seq(Batch), h # <<>>
  PROVE  SubSeq(h, 0 + 1, Len(h)) # <<>>
BY SubSeqFull

\* The stream, whatever its state, after the pipeline is filled.
LEMMA StreamFilled ==
  ASSUME NEW q \in Seq(Batch), Ascending(q), NEW k \in 0..Room(q),
         FillWritePipeline(state, SubSeq(q, 1, k), q, closeCount),
         q = queue'[user'],
         UNCHANGED <<handshake, token, status>>,
         state \in Closed \cup {"open"},
         handshake \in BOOLEAN, idle \in BOOLEAN, token \in Credential,
         status \in {"ok", "transient", "permanent"},
         state \in Closed =>
           /\ handshake = FALSE /\ idle = FALSE
           /\ requests = <<>> /\ responses' = <<>> /\ status = "ok",
         idle = TRUE => handshake = TRUE /\ k = 0,
         state = "open" /\ handshake = FALSE =>
           Opening(requests, responses', status) /\ HeadOf(q) # <<>>,
         handshake = TRUE => Fits(requests, responses', status, SubSeq(q, 1, k))
  PROVE  StreamInv'
<1> DEFINE h == HeadOf(q)
           sent == IF state = "open" /\ handshake
                     THEN SubSeq(h, k + 1, Len(h)) ELSE <<>>
<1>1. /\ pipeline' = h
      /\ requests' = requests \o sent
      /\ idle' = (state = "open" /\ (h = <<>> \/ (idle /\ sent = <<>>)))
      /\ StartIfNeeded(state, h, closeCount)
      /\ SubSeq(q, 1, k) = SubSeq(h, 1, k)
      /\ k \in 0..Len(h) /\ h \in Seq(Batch)
  BY Filled
<1>2. /\ state \in Closed => state' \in Closed
      /\ state = "open" => state' = "open"
  BY <1>1, ClosedStates
<1>3. pipeline' = HeadOf(queue[user])'
  BY <1>1
<1> HIDE DEF h
<1>4. CASE state \in Closed
  <2>1. state # "open"
    BY <1>4 DEF Closed
  <2>2. sent = <<>> /\ idle' = FALSE
    BY <1>1, <2>1
  <2>3. requests' = <<>> /\ responses' = <<>> /\ handshake' = FALSE /\ status' = "ok"
    BY <1>1, <1>4, <2>2
  <2>4. state' \in Closed /\ state' # "open" /\ token' \in Credential
    BY <1>2, <1>4 DEF Closed
  <2>5. QED
    BY <1>3, <2>2, <2>3, <2>4 DEF StreamInv
<1>5. CASE state = "open" /\ handshake = FALSE
  <2>1. sent = <<>> /\ state \notin Closed /\ state' = "open" /\ state' \notin Closed
    BY <1>2, <1>5 DEF Closed
  <2>2. idle = FALSE /\ h # <<>>
    BY <1>5 DEF h
  <2>3. idle' = FALSE
    BY <1>1, <2>2
  <2>4. requests \in {<<Handshake>>, <<>>}
    BY <1>5 DEF Opening
  <2>5. requests' = requests
    <3>1. \A x : <<x>> \o <<>> = <<x>>
      OBVIOUS
    <3>2. requests \o <<>> = requests
      BY <2>4, <3>1
    <3>3. QED
      BY <1>1, <2>1, <3>2
  <2>6. Opening(requests', responses', status')
    BY <1>5, <2>5
  <2>7. /\ handshake' = FALSE /\ token' \in Credential
        /\ status' \in {"ok", "transient", "permanent"}
    BY <1>5
  <2>8. QED
    BY <1>3, <2>1, <2>3, <2>6, <2>7 DEF StreamInv
<1>6. CASE state = "open" /\ handshake = TRUE
  <2>1. sent = SubSeq(h, k + 1, Len(h)) /\ state' = "open" /\ state' \notin Closed
    BY <1>2, <1>6 DEF Closed
  <2>2. Fits(requests, responses', status, SubSeq(h, 1, k))
    BY <1>1, <1>6
  <2>3. Fits(requests', responses', status', pipeline')
    BY <1>1, <2>1, <2>2, FitsFill
  <2>4. /\ handshake' = TRUE /\ token' \in Credential
        /\ status' \in {"ok", "transient", "permanent"}
    BY <1>6
  <2>5. idle' = TRUE => pipeline' = <<>>
    <3>1. SUFFICES ASSUME idle' = TRUE, h # <<>> PROVE FALSE
      BY <1>1
    <3>2. idle = TRUE /\ sent = <<>>
      BY <1>1, <3>1
    <3>3. k = 0
      BY <3>2
    <3>4. QED
      BY <1>1, <2>1, <3>1, <3>2, <3>3, SentIsNotEmpty
  <2>6. idle' \in BOOLEAN
    BY <1>1
  <2>7. QED
    BY <1>3, <2>1, <2>3, <2>4, <2>5, <2>6 DEF StreamInv
<1>7. QED
  BY <1>4, <1>5, <1>6

\* Streams that are closed, and those that are started again at once.
LEMMA StreamDrops ==
  ASSUME OwnerInv, OwnerInv', StreamInv,
         HandleCredentialChange \/ ConnectivityChange \/ FailToStart \/ IdleTimeout
           \/ HandleWriteError \/ OnWriteStreamClose \/ RestartApp
  PROVE  StreamInv'
<1>1. /\ user \in Credential /\ queue[user] \in Seq(Batch) /\ Ascending(queue[user])
      /\ user' \in Credential
      /\ \A u \in Credential : queue[u] \in Seq(Batch) /\ Ascending(queue[u])
  BY StreamQueue DEF OwnerInv, WorkInv
<1>2. pipeline = HeadOf(queue[user])
  BY DEF StreamInv
<1>3. /\ "initial" \in Closed /\ "error" \in Closed /\ "starting" \in Closed
  BY DEF Closed
<1>4. ASSUME NEW u, RestartNetwork(u), u = user', queue' = queue
      PROVE  StreamInv'
  <2>1. /\ DropStream /\ pipeline' = Refill(<<>>, queue[u])
        /\ \E p, c : StartIfNeeded("initial", p, c)
    BY <1>4 DEF RestartNetwork
  <2>2. pipeline' = HeadOf(queue[u])
    BY <1>1, <1>4, <2>1, RefilledAnew
  <2>3. pipeline' = HeadOf(queue'[user'])
    BY <1>4, <2>2
  <2>4. state' \in Closed
    BY <1>3, <2>1, ClosedStates
  <2>5. QED
    BY <2>1, <2>3, <2>4, StreamDropped
<1>5. ASSUME NEW s \in Closed, NEW p, CloseWithError(s, p), p = HeadOf(queue'[user'])
      PROVE  StreamInv'
  <2>1. /\ DropStream /\ pipeline' = p /\ \E c : StartIfNeeded(s, p, c)
    BY <1>5 DEF CloseWithError
  <2>2. state' \in Closed
    BY <2>1, ClosedStates
  <2>3. QED
    BY <1>5, <2>1, <2>2, StreamDropped
<1>6. CASE HandleCredentialChange
  <2>1. RestartNetwork(user') /\ queue' = queue
    BY <1>6 DEF HandleCredentialChange
  <2>2. QED
    BY <1>4, <2>1
<1>7. CASE ConnectivityChange
  <2>1. RestartNetwork(user) /\ queue' = queue /\ user' = user
    BY <1>7 DEF ConnectivityChange, local
  <2>2. QED
    BY <1>4, <2>1
<1>8. CASE FailToStart \/ OnWriteStreamClose
  <2>1. CloseWithError("error", pipeline) /\ queue' = queue /\ user' = user
    BY <1>8 DEF FailToStart, OnWriteStreamClose, local
  <2>2. QED
    BY <1>2, <1>3, <1>5, <2>1
<1>9. CASE IdleTimeout
  <2>1. /\ DropStream /\ state' = "initial" /\ pipeline' = pipeline
        /\ queue' = queue /\ user' = user
    BY <1>9 DEF IdleTimeout, local
  <2>2. QED
    BY <1>2, <1>3, <2>1, StreamDropped
<1>10. CASE HandleWriteError
  <2> DEFINE q == queue[user]
             r == queue'[user']
  <2>1. /\ pipeline # <<>> /\ user' = user
        /\ queue' = [queue EXCEPT ![user] = Without(@, Head(pipeline))]
        /\ CloseWithError("initial", Refill(Tail(pipeline), queue'[user]))
    BY <1>10 DEF HandleWriteError
  <2>2. q # <<>>
    <3>1. SUFFICES ASSUME q = <<>> PROVE FALSE
      OBVIOUS
    <3>2. Len(q) = 0 /\ q \in Seq(Batch)
      BY <1>1, <3>1
    <3>3. Room(q) = 0
      BY <3>2, RoomFacts
    <3>4. pipeline \in Seq(Batch) /\ Len(pipeline) = 0
      BY <1>2, <3>2, <3>3, HeadFacts
    <3>5. QED
      BY <2>1, <3>4, EmptySeq
  <2>3. /\ Head(pipeline) = q[1] /\ Tail(pipeline) = SubSeq(Tail(q), 1, Room(q) - 1)
        /\ Room(q) - 1 \in 0..Room(Tail(q))
    BY <1>1, <1>2, <2>2, HeadOfTail
  <2>4. r = Without(q, q[1])
    BY <1>1, <2>1, <2>3 DEF OwnerInv, QueueInv
  <2>5. r = Tail(q)
    BY <1>1, <2>2, <2>4, WithoutFirst
  <2>6. r \in Seq(Batch) /\ Ascending(r)
    BY <1>1, StreamQueue DEF OwnerInv, WorkInv, QueueInv, Ascending
  <2>7. Refill(Tail(pipeline), queue'[user]) = HeadOf(r)
    <3>1. queue'[user] = r
      BY <2>1
    <3>2. Tail(pipeline) = SubSeq(r, 1, Room(q) - 1) /\ Room(q) - 1 \in 0..Room(r)
      BY <2>3, <2>5
    <3> HIDE DEF q, r
    <3>3. QED
      BY <2>6, <3>1, <3>2, RefillIsHead
  <2>8. QED
    BY <1>3, <1>5, <2>1, <2>7
<1>11. CASE RestartApp
  <2>1. /\ DropStream /\ pipeline' = Refill(<<>>, queue[currentUser])
        /\ user' = currentUser /\ queue' = queue /\ state' \in Closed
    BY <1>11 DEF RestartApp, Closed
  <2>2. pipeline' = HeadOf(queue'[user'])
    BY <1>1, <2>1, RefilledAnew
  <2>3. QED
    BY <2>1, <2>2, StreamDropped
<1>12. QED
  BY <1>6, <1>7, <1>8, <1>9, <1>10, <1>11

\* A mutation is put behind the others, and into the pipeline if it fits.
LEMMA StreamWrites ==
  ASSUME OwnerInv, OwnerInv', StreamInv, WriteMutations
  PROVE  StreamInv'
<1> DEFINE q == queue[user]
           r == queue'[user']
           b == [id |-> nextBatchId, mutation |-> Head(workQueue).mutation,
                 author |-> Head(workQueue).author]
<1>1. /\ user' = user /\ queue' = [queue EXCEPT ![user] = Append(@, b)]
      /\ FillWritePipeline(state, pipeline, r, closeCount)
      /\ UNCHANGED <<handshake, token, responses, status>>
      /\ workQueue # <<>> /\ Head(workQueue).kind = "write"
  BY DEF WriteMutations, TakeTask
<1>2. /\ user \in Credential /\ q \in Seq(Batch) /\ r \in Seq(Batch) /\ Ascending(r)
  BY StreamQueue DEF OwnerInv, WorkInv, QueueInv, Ascending
<1>3. b \in Batch
  BY <1>1, WorkHead, KindsOfTask DEF OwnerInv, QueueInv, Batch
<1>4. r = Append(q, b)
  BY <1>1, <1>2 DEF OwnerInv, QueueInv
<1> HIDE DEF b
<1>5. /\ HeadOf(q) = SubSeq(r, 1, Room(q)) /\ Room(q) \in 0..Room(r) /\ Room(r) # 0
  BY <1>2, <1>3, <1>4, HeadOfAppend
<1>6. pipeline = SubSeq(r, 1, Room(q))
  BY <1>5 DEF StreamInv
<1>7. pipeline = <<>> => Room(q) = 0
  <2>1. Len(HeadOf(q)) = Room(q)
    BY <1>2, HeadFacts
  <2>2. QED
    BY <2>1 DEF StreamInv
<1>8. HeadOf(r) # <<>>
  <2>1. Len(HeadOf(r)) = Room(r)
    BY <1>2, HeadFacts
  <2>2. QED
    BY <1>5, <2>1
<1> DEFINE k == Room(q)
<1>9. /\ state \in Closed \cup {"open"}
      /\ handshake \in BOOLEAN /\ idle \in BOOLEAN /\ token \in Credential
      /\ status \in {"ok", "transient", "permanent"}
      /\ state \in Closed =>
           /\ handshake = FALSE /\ idle = FALSE
           /\ requests = <<>> /\ responses' = <<>> /\ status = "ok"
      /\ idle = TRUE => handshake = TRUE /\ k = 0
      /\ state = "open" /\ handshake = FALSE =>
           Opening(requests, responses', status) /\ HeadOf(r) # <<>>
      /\ handshake = TRUE => Fits(requests, responses', status, SubSeq(r, 1, k))
  BY <1>1, <1>6, <1>7, <1>8 DEF StreamInv
<1>10. FillWritePipeline(state, SubSeq(r, 1, k), r, closeCount)
  BY <1>1, <1>6
<1> HIDE DEF k
<1>11. k \in 0..Room(r) /\ r = queue'[user']
  BY <1>5 DEF k
<1> HIDE DEF q, r
<1>12. QED
  BY <1>1, <1>2, <1>9, <1>10, <1>11, StreamFilled

\* The first batch has been written.
LEMMA StreamResult ==
  ASSUME OwnerInv, OwnerInv', StreamInv, OnWriteStreamMutationResult
  PROVE  /\ StreamInv'
         /\ pipeline # <<>> /\ queue[user] # <<>>
         /\ Head(pipeline) = queue[user][1] /\ queue'[user] = Tail(queue[user])
<1> DEFINE q == queue[user]
           r == queue'[user']
           k == Room(q) - 1
<1>1. /\ user' = user /\ queue' = [queue EXCEPT ![user] = Without(@, Head(pipeline))]
      /\ FillWritePipeline(state, Tail(pipeline), r, closeCount)
      /\ UNCHANGED <<handshake, token, status>>
      /\ responses # <<>> /\ handshake = TRUE /\ responses' = Tail(responses)
  BY DEF OnWriteStreamMutationResult, StreamInv
<1>2. /\ user \in Credential /\ q \in Seq(Batch) /\ r \in Seq(Batch) /\ Ascending(r)
      /\ Ascending(q)
  BY StreamQueue, SMTT(60) DEF OwnerInv, WorkInv, QueueInv, Ascending
<1>3. pipeline = HeadOf(q) /\ pipeline \in Seq(Batch) /\ Len(pipeline) = Room(q)
  BY <1>2, HeadFacts DEF StreamInv
<1>4. /\ Fits(requests, responses, status, pipeline)
      /\ state = "open"
  BY <1>1 DEF StreamInv
<1>5. pipeline # <<>> /\ Fits(requests, responses', status, Tail(pipeline))
  BY <1>1, <1>3, <1>4, FitsTail
<1>6. q # <<>>
  <2>1. SUFFICES ASSUME q = <<>> PROVE FALSE
    OBVIOUS
  <2>2. Len(q) = 0 /\ Room(q) <= Len(q) /\ Room(q) \in Nat
    BY <1>2, <2>1, RoomFacts
  <2>3. QED
    BY <1>3, <1>5, <2>2, EmptySeq
<1>7. /\ Head(pipeline) = q[1] /\ Tail(pipeline) = SubSeq(Tail(q), 1, k)
      /\ k \in 0..Room(Tail(q))
  BY <1>2, <1>3, <1>6, HeadOfTail
<1>8. r = Tail(q)
  <2>1. r = Without(q, q[1])
    BY <1>1, <1>2, <1>7 DEF OwnerInv, QueueInv
  <2>2. QED
    BY <1>2, <1>6, <2>1, WithoutFirst
<1>9. Tail(pipeline) = SubSeq(r, 1, k) /\ k \in 0..Room(r)
  BY <1>7, <1>8
<1>10. idle = TRUE => FALSE
  BY <1>5 DEF StreamInv
<1>11. /\ state \in Closed \cup {"open"} /\ state \notin Closed
       /\ handshake \in BOOLEAN /\ idle \in BOOLEAN /\ token \in Credential
       /\ status \in {"ok", "transient", "permanent"}
  BY <1>4 DEF StreamInv, Closed
<1>12. StreamInv'
  <2>1. r = queue'[user']
    OBVIOUS
  <2> HIDE DEF q, r, k
  <2>2. /\ FillWritePipeline(state, SubSeq(r, 1, k), r, closeCount)
        /\ Fits(requests, responses', status, SubSeq(r, 1, k))
    BY <1>1, <1>5, <1>9
  <2>3. QED
    BY <1>1, <1>2, <1>9, <1>10, <1>11, <2>1, <2>2, StreamFilled
<1>13. queue'[user] = r
  BY <1>1
<1>14. QED
  BY <1>5, <1>6, <1>7, <1>8, <1>12, <1>13

\* The token is there: the stream, which was not open, opens.
LEMMA StreamResumes ==
  ASSUME OwnerInv, LiveInv, StreamInv, ResumeStartWithCredentials
  PROVE  StreamInv'
<1>1. /\ workQueue # <<>> /\ Head(workQueue).kind = "resume"
      /\ Head(workQueue).closes = closeCount /\ Head(workQueue).token # Failed
      /\ workQueue' = Tail(workQueue)
      /\ state' = "open" /\ token' = Head(workQueue).token
      /\ requests' = <<Handshake>>
      /\ UNCHANGED <<asked, refreshing, mainQueue, queue, user, pipeline, closeCount,
                     handshake, idle, responses, status>>
      /\ IsSequence(workQueue)
  BY DEF ResumeStartWithCredentials, TakeTask, IsLive, authVars, local,
         OwnerInv, WorkInv, IsSequence
<1>2. state = "starting"
  BY <1>1, LiveOpen
<1>3. /\ handshake = FALSE /\ idle = FALSE /\ responses = <<>> /\ status = "ok"
      /\ pipeline = HeadOf(queue[user])
  BY <1>2 DEF StreamInv, Closed
<1>4. token' \in Credential
  BY <1>1, WorkHead DEF OwnerInv, WorkInv
<1>5. Opening(requests', responses', status')
  BY <1>1, <1>3 DEF Opening
<1>6. state' \notin Closed
  BY <1>1 DEF Closed
<1>7. QED
  BY <1>1, <1>3, <1>4, <1>5, <1>6 DEF StreamInv

LEMMA StreamShaken ==
  ASSUME OwnerInv, StreamInv, OnWriteStreamHandshakeComplete
  PROVE  StreamInv'
<1>1. /\ responses # <<>> /\ handshake = FALSE /\ handshake' = TRUE
      /\ requests' = requests \o pipeline
      /\ idle' = (idle /\ pipeline = <<>>) /\ responses' = Tail(responses)
      /\ UNCHANGED <<user, queue, pipeline, state, token, status>>
  BY DEF OnWriteStreamHandshakeComplete, local, StreamInv
<1>2. state = "open" /\ state \notin Closed /\ idle = FALSE
  BY <1>1 DEF StreamInv, Closed
<1>3. Opening(requests, responses, status)
  BY <1>1, <1>2 DEF StreamInv
<1>4. requests = <<>> /\ responses = <<0>> /\ status = "ok"
  BY <1>1, <1>3 DEF Opening
<1>5. /\ pipeline = HeadOf(queue[user]) /\ pipeline \in Seq(Batch)
  BY StreamQueue, HeadFacts DEF StreamInv
<1>6. requests' = pipeline /\ responses' = <<>> /\ idle' = FALSE
  <2>1. <<>> \o pipeline = pipeline
    BY <1>5, ConcatEmptySeq
  <2>2. requests' = pipeline
    BY <1>1, <1>4, <2>1
  <2>3. responses' = <<>>
    BY <1>1, <1>4
  <2>4. idle' = FALSE
    BY <1>1, <1>2
  <2>5. QED
    BY <2>2, <2>3, <2>4
<1>7. Fits(requests', responses', status', pipeline')
  BY <1>1, <1>4, <1>5, <1>6, FitsStart
<1>8. QED
  BY <1>1, <1>2, <1>5, <1>6, <1>7 DEF StreamInv

LEMMA StreamDelay ==
  ASSUME StreamInv, BackoffElapses
  PROVE  StreamInv'
<1>1. /\ state = "backoff" /\ StartIfNeeded("initial", pipeline, closeCount)
      /\ UNCHANGED <<user, queue, pipeline, handshake, idle, token, requests,
                     responses, status>>
  BY DEF BackoffElapses, local
<1>2. state \in Closed /\ state' \in Closed /\ state' # "open"
  BY <1>1, ClosedStates DEF Closed
<1>3. QED
  BY <1>1, <1>2 DEF StreamInv

\* The server reads a request, and answers or refuses it.
LEMMA StreamServed ==
  ASSUME OwnerInv, StreamInv, ServerStep
  PROVE  /\ StreamInv'
         /\ ApplyWrite \/ RefuseWrite =>
              /\ handshake = TRUE /\ status = "ok"
              /\ Len(responses) + 1 \in 1..Len(pipeline)
              /\ Head(requests) = pipeline[Len(responses) + 1]
         /\ AnswerHandshake => handshake = FALSE
<1>1. /\ requests # <<>> /\ status = "ok" /\ requests' = Tail(requests)
      /\ UNCHANGED <<user, queue, pipeline, state, handshake, idle, token>>
  BY DEF ServerStep, AnswerHandshake, ApplyWrite, RefuseWrite, Receive, local
<1>2. state = "open" /\ state \notin Closed
  BY <1>1 DEF StreamInv, Closed
<1>3. pipeline = HeadOf(queue[user]) /\ pipeline \in Seq(Batch)
  BY StreamQueue, HeadFacts DEF StreamInv
<1>4. CASE handshake = FALSE
  <2>1. Opening(requests, responses, status)
    BY <1>2, <1>4 DEF StreamInv
  <2>2. requests = <<Handshake>> /\ responses = <<>> /\ Head(requests) = Handshake
    BY <1>1, <2>1 DEF Opening
  <2>3. AnswerHandshake /\ ~ApplyWrite /\ ~RefuseWrite
    BY <2>2 DEF ServerStep, ApplyWrite, RefuseWrite
  <2>4. responses' = Append(responses, 0) /\ status' = status
    BY <2>3 DEF AnswerHandshake
  <2>5. requests' = <<>> /\ responses' = <<0>>
    BY <1>1, <2>2, <2>4
  <2>6. Opening(requests', responses', status')
    BY <1>1, <2>4, <2>5 DEF Opening
  <2>7. idle = FALSE
    BY <1>4 DEF StreamInv
  <2>8. StreamInv'
    BY <1>1, <1>2, <1>3, <1>4, <2>4, <2>6, <2>7 DEF StreamInv
  <2>9. QED
    BY <1>4, <2>3, <2>8
<1>5. CASE handshake = TRUE
  <2>1. Fits(requests, responses, "ok", pipeline)
    BY <1>1, <1>5 DEF StreamInv
  <2>2. /\ Head(requests) \in Batch /\ Len(responses) + 1 \in 1..Len(pipeline)
        /\ Head(requests) = pipeline[Len(responses) + 1]
        /\ Fits(Tail(requests), Append(responses, Head(requests).id), "ok", pipeline)
        /\ Fits(Tail(requests), responses, "permanent", pipeline)
    BY <1>1, <1>3, <2>1, FitsReceive
  <2>3. Head(requests).id \in Nat \ {0}
    <3>1. /\ queue[user] \in Seq(Batch) /\ Ascending(queue[user])
          /\ Len(pipeline) = Room(queue[user])
          /\ \A i \in 1..Room(queue[user]) : pipeline[i] = queue[user][i]
      BY <1>3, StreamQueue, HeadFacts
    <3>2. \A i \in 1..Room(queue[user]) : i \in 1..Len(queue[user])
      BY <3>1, RoomFacts
    <3>3. QED
      BY <2>2, <3>1, <3>2 DEF Ascending
  <2>4. Head(requests) # Handshake
    BY <2>3 DEF Handshake
  <2>5. ~AnswerHandshake
    BY <2>4 DEF AnswerHandshake
  <2>6. \/ responses' = Append(responses, Head(requests).id) /\ status' = "ok"
        \/ responses' = responses /\ status' = "permanent"
    BY <1>1, <2>5 DEF ServerStep, ApplyWrite, RefuseWrite
  <2>7. Fits(requests', responses', status', pipeline')
    BY <1>1, <2>2, <2>6
  <2>8. StreamInv'
    BY <1>1, <1>2, <1>3, <1>5, <2>6, <2>7 DEF StreamInv
  <2>9. QED
    BY <1>1, <1>5, <2>2, <2>5, <2>8
<1>6. QED
  BY <1>4, <1>5 DEF StreamInv

LEMMA StreamLost ==
  ASSUME OwnerInv, StreamInv, LoseConnection
  PROVE  StreamInv'
<1>1. /\ state = "open" /\ status' = "transient"
      /\ requests' = <<>> /\ responses' = <<>>
      /\ UNCHANGED <<user, queue, pipeline, state, handshake, idle, token>>
      /\ state \notin Closed
  BY DEF LoseConnection, local, Closed
<1>2. pipeline \in Seq(Batch)
  BY StreamQueue, HeadFacts DEF StreamInv
<1>3. Fits(requests', responses', status', pipeline')
  BY <1>1, <1>2, FitsStart
<1>4. Opening(requests', responses', status')
  BY <1>1 DEF Opening
<1>5. QED
  BY <1>1, <1>3, <1>4 DEF StreamInv

LEMMA StreamInit == Init => StreamInv
<1>1. SUFFICES ASSUME Init PROVE StreamInv
  OBVIOUS
<1>2. /\ user \in Credential /\ queue[user] = <<>> /\ pipeline = <<>>
      /\ state = "initial" /\ handshake = FALSE /\ idle = FALSE /\ token = NoUser
      /\ requests = <<>> /\ responses = <<>> /\ status = "ok"
  BY <1>1 DEF Init
<1>3. HeadOf(<<>>) = <<>>
  <2>1. <<>> \in Seq(Batch) /\ Len(<<>>) = 0
    OBVIOUS
  <2>2. Room(<<>>) = 0
    <3>1. Room(<<>>) \in Nat /\ Room(<<>>) <= 0
      BY <2>1, RoomFacts
    <3>2. QED
      BY <3>1
  <2>3. HeadOf(<<>>) \in Seq(Batch) /\ Len(HeadOf(<<>>)) = 0
    BY <2>1, <2>2, HeadFacts
  <2>4. QED
    BY <2>3, EmptySeq
<1>4. QED
  BY <1>2, <1>3 DEF StreamInv, Closed, Credential

WholeInv == OwnerInv /\ LiveInv /\ StreamInv

LEMMA StreamStep == WholeInv /\ OwnerInv' /\ [Next]_vars => StreamInv'
<1>1. SUFFICES ASSUME OwnerInv, LiveInv, StreamInv, OwnerInv', [Next]_vars
               PROVE  StreamInv'
  BY DEF WholeInv
<1>2. CASE (\E m \in AppWrite : WriteDocument(m)) \/ AuthStep \/ MainStep
           \/ IgnoreToken \/ UNCHANGED vars
  <2>1. UNCHANGED <<local, stream>>
    BY <1>2 DEF WriteDocument, AuthStep, MainStep, IgnoreToken, vars
  <2>2. QED
    BY <1>1, <2>1, StreamQuiet
<1>3. CASE HandleCredentialChange \/ ConnectivityChange \/ FailToStart \/ IdleTimeout
           \/ HandleWriteError \/ OnWriteStreamClose \/ RestartApp
  BY <1>1, <1>3, StreamDrops
<1>4. CASE WriteMutations
  BY <1>1, <1>4, StreamWrites
<1>5. CASE ResumeStartWithCredentials
  BY <1>1, <1>5, StreamResumes
<1>6. CASE BackoffElapses
  BY <1>1, <1>6, StreamDelay
<1>7. CASE OnWriteStreamHandshakeComplete
  BY <1>1, <1>7, StreamShaken
<1>8. CASE OnWriteStreamMutationResult
  BY <1>1, <1>8, StreamResult
<1>9. CASE ServerStep
  BY <1>1, <1>9, StreamServed
<1>10. CASE LoseConnection
  BY <1>1, <1>10, StreamLost
<1>11. QED
  BY <1>1, <1>2, <1>3, <1>4, <1>5, <1>6, <1>7, <1>8, <1>9, <1>10 DEF Next, WorkerStep

LEMMA WholeStep == WholeInv /\ [Next]_vars => WholeInv'
<1>1. WholeInv /\ [Next]_vars => OwnerInv' /\ LiveInv'
  BY OwnerStep, LiveStep DEF WholeInv
<1>2. QED
  BY <1>1, StreamStep DEF WholeInv

LEMMA WholeAlways == Spec => []WholeInv
<1>1. Init => WholeInv
  BY OwnerInit, LiveInit, StreamInit DEF WholeInv
<1>2. QED
  BY <1>1, WholeStep, PTL DEF Spec

-----------------------------------------------------------------------------
(* The properties                                                            *)

\* The pipeline is the head of the current queue, as much of it as there is
\* room for: no batch is overtaken, left out or fetched twice, whatever is
\* answered, refused, lost or written in between (remote_store.cc).
THEOREM PipelineIsHeadAlways == Spec => []PipelineIsHead
<1>1. WholeInv => PipelineIsHead
  BY DEF WholeInv, StreamInv, PipelineIsHead, HeadOf, Room
<1>2. QED
  BY <1>1, WholeAlways, PTL

\* A token that comes back for the present stream finds it waiting for one,
\* and a stream on which the idle timer runs has nothing to send and nothing
\* in its queue: what stream.cc and remote_store.cc assert.
THEOREM AssertionsHold == Spec => []StreamAssertions
<1>1. ASSUME WholeInv PROVE ResumeFindsStarting
  <2>1. LiveAt(workQueue, "resume", closeCount) # {} => state = "starting"
    BY <1>1 DEF WholeInv, LiveInv, NoneLive
  <2>2. \A i \in 1..Len(workQueue) :
          workQueue[i].kind = "resume" /\ workQueue[i].closes = closeCount
            => i \in LiveAt(workQueue, "resume", closeCount)
    BY DEF LiveAt
  <2>3. QED
    BY <2>1, <2>2 DEF ResumeFindsStarting, IsLive
<1>2. ASSUME WholeInv PROVE IdleMeansDone
  <2>1. SUFFICES ASSUME idle = TRUE PROVE state = "open" /\ queue[user] = <<>>
    BY <1>1, <1>2 DEF IdleMeansDone, WholeInv, StreamInv
  <2>2. /\ handshake = TRUE /\ pipeline = <<>> /\ pipeline = HeadOf(queue[user])
        /\ state \in Closed \cup {"open"} /\ state \notin Closed
    BY <1>2, <2>1 DEF WholeInv, StreamInv
  <2>3. queue[user] \in Seq(Batch)
    BY <1>2, StreamQueue DEF WholeInv
  <2>4. Room(queue[user]) = 0
    BY <2>2, <2>3, HeadFacts
  <2>5. Len(queue[user]) = 0
    BY <2>3, <2>4, RoomFacts
  <2>6. QED
    BY <2>2, <2>3, <2>5, EmptySeq
<1>3. WholeInv => StreamAssertions
  BY <1>1, <1>2 DEF StreamAssertions
<1>4. QED
  BY <1>3, WholeAlways, PTL

LEMMA PrefixByElements ==
  ASSUME NEW S, NEW s \in Seq(S), NEW t \in Seq(S), Len(s) <= Len(t),
         \A i \in 1..Len(s) : s[i] = t[i]
  PROVE  IsPrefix(s, t)
<1> DEFINE n == Len(s)
           a == SubSeq(s, 1, n)
           b == SubSeq(t, 1, n)
<1>1. n \in Nat /\ 1 \in Nat /\ 1 <= 1 /\ 1 <= n + 1 /\ n <= Len(s) /\ n <= Len(t)
  BY LenProperties
<1>2. a \in Seq(S) /\ Len(a) = n - 1 + 1 /\ \A i \in 1..(n - 1 + 1) : a[i] = s[1 + i - 1]
  BY <1>1, SubSeqFacts
<1>3. b \in Seq(S) /\ Len(b) = n - 1 + 1 /\ \A i \in 1..(n - 1 + 1) : b[i] = t[1 + i - 1]
  BY <1>1, SubSeqFacts
<1>4. \A i \in 1..n : s[i] = t[i]
  OBVIOUS
<1> HIDE DEF a, b, n
<1>5. \A i \in 1..(n - 1 + 1) : i \in 1..n /\ 1 + i - 1 = i
  BY <1>1
<1>6. \A i \in 1..Len(a) : a[i] = b[i]
  BY <1>2, <1>3, <1>4, <1>5
<1>7. a = b
  BY <1>2, <1>3, <1>6, SeqEqual
<1>8. QED
  BY <1>7 DEF IsPrefix, a, b, n

LEMMA ReverseFacts ==
  ASSUME NEW S, NEW s \in Seq(S)
  PROVE  /\ Reverse(s) \in Seq(S) /\ Len(Reverse(s)) = Len(s)
         /\ \A i \in 1..Len(s) : Reverse(s)[i] = s[(Len(s) - i) + 1]
<1>1. Len(s) \in Nat /\ \A i \in 1..Len(s) : (Len(s) - i) + 1 \in 1..Len(s)
  BY LenProperties
<1>2. Reverse(s) = [i \in 1..Len(s) |-> s[(Len(s) - i) + 1]]
  BY DEF Reverse
<1>3. \A i \in 1..Len(s) : s[(Len(s) - i) + 1] \in S
  BY <1>1
<1>4. QED
  BY <1>1, <1>2, <1>3

LEMMA SuffixByElements ==
  ASSUME NEW S, NEW s \in Seq(S), NEW t \in Seq(S), NEW j \in Nat,
         Len(t) = j + Len(s), \A i \in 1..Len(s) : s[i] = t[j + i]
  PROVE  IsSuffix(s, t)
<1>1. Len(s) \in Nat /\ Len(t) \in Nat
  BY LenProperties
<1>2. /\ Reverse(s) \in Seq(S) /\ Len(Reverse(s)) = Len(s)
      /\ \A i \in 1..Len(s) : Reverse(s)[i] = s[(Len(s) - i) + 1]
      /\ Reverse(t) \in Seq(S) /\ Len(Reverse(t)) = Len(t)
      /\ \A i \in 1..Len(t) : Reverse(t)[i] = t[(Len(t) - i) + 1]
  BY ReverseFacts
<1>3. ASSUME NEW i \in 1..Len(s) PROVE Reverse(s)[i] = Reverse(t)[i]
  <2>1. /\ (Len(s) - i) + 1 \in 1..Len(s) /\ i \in 1..Len(t)
        /\ j + ((Len(s) - i) + 1) = (Len(t) - i) + 1
    BY <1>1
  <2>2. s[(Len(s) - i) + 1] = t[j + ((Len(s) - i) + 1)]
    BY <2>1
  <2>3. Reverse(s)[i] = s[(Len(s) - i) + 1] /\ Reverse(t)[i] = t[(Len(t) - i) + 1]
    BY <1>2, <2>1
  <2>4. QED
    BY <2>1, <2>2, <2>3
<1>4. Len(Reverse(s)) <= Len(Reverse(t))
  BY <1>1, <1>2
<1>5. IsPrefix(Reverse(s), Reverse(t))
  BY <1>2, <1>3, <1>4, PrefixByElements
<1>6. QED
  BY <1>5 DEF IsSuffix

\* Each answer is for the batch it is taken for, and everything that is fetched
\* is answered, refused or on its way, in the order of the pipeline
\* (remote_store.cc: "Got result for empty write pipeline").
THEOREM AnswersFit == Spec => []AnswersFitPipeline
<1>1. ASSUME WholeInv PROVE AnswersFitPipeline
  <2> DEFINE sent == [i \in 1..Len(requests) |-> requests[i].id]
             ids == [i \in 1..Len(pipeline) |-> pipeline[i].id]
  <2>1. CASE handshake = FALSE
    <3>1. responses \in {<<>>, <<0>>} /\ status # "permanent"
      <4>1. CASE state \in Closed
        BY <1>1, <4>1 DEF WholeInv, StreamInv
      <4>2. CASE state = "open"
        BY <1>1, <2>1, <4>2 DEF WholeInv, StreamInv, Opening
      <4>3. QED
        BY <1>1, <4>1, <4>2 DEF WholeInv, StreamInv
    <3>2. QED
      BY <2>1, <3>1 DEF AnswersFitPipeline
  <2>2. CASE handshake = TRUE
    <3>1. Fits(requests, responses, status, pipeline)
      BY <1>1, <2>2 DEF WholeInv, StreamInv
    <3>2. pipeline \in Seq(Batch)
      BY <1>1, StreamQueue, HeadFacts DEF WholeInv, StreamInv
    <3>3. /\ responses \in Seq(Nat)
          /\ \A i \in 1..Len(responses) : i \in 1..Len(pipeline)
                                          /\ responses[i] = pipeline[i].id
      BY <3>1 DEF Fits
    <3>4. PICK j \in 0..Len(pipeline) :
            /\ requests = SubSeq(pipeline, j + 1, Len(pipeline))
            /\ Len(responses) + Refused(status) <= j
            /\ status # "transient" => j = Len(responses) + Refused(status)
      BY <3>1 DEF Fits
    <3>5. /\ requests \in Seq(Batch) /\ Len(requests) = Len(pipeline) - j
          /\ \A i \in 1..(Len(pipeline) - j) : requests[i] = pipeline[j + i]
      BY <3>2, <3>4, RestFacts
    <3>6. /\ Len(pipeline) \in Nat /\ Len(responses) \in Nat /\ Len(requests) \in Nat
          /\ \A b \in Batch : b.id \in Nat
      BY <3>2, <3>3, <3>5, LenProperties DEF Batch
    <3>7. /\ ids \in Seq(Nat) /\ Len(ids) = Len(pipeline)
          /\ \A i \in 1..Len(pipeline) : ids[i] = pipeline[i].id
      BY <3>2, <3>6
    <3>8. /\ sent \in Seq(Nat) /\ Len(sent) = Len(requests)
          /\ \A i \in 1..Len(requests) : sent[i] = requests[i].id
      BY <3>5, <3>6
    <3> HIDE DEF sent, ids
    <3>9. Refused(status) \in {0, 1}
      BY DEF Refused
    <3>10. Len(responses) <= Len(pipeline)
      BY <3>4, <3>6, <3>9
    <3>11. IsPrefix(responses, ids)
      <4>1. \A i \in 1..Len(responses) : responses[i] = ids[i]
        BY <3>3, <3>7
      <4>2. Len(responses) <= Len(ids)
        BY <3>7, <3>10
      <4>3. QED
        BY <3>3, <3>7, <4>1, <4>2, PrefixByElements
    <3>12. IsSuffix(sent, ids)
      <4>1. j \in Nat /\ Len(ids) = j + Len(sent)
        BY <3>5, <3>6, <3>7, <3>8
      <4>2. \A i \in 1..Len(sent) : sent[i] = ids[j + i]
        <5>1. TAKE i \in 1..Len(sent)
        <5>2. i \in 1..Len(requests) /\ i \in 1..(Len(pipeline) - j)
              /\ j + i \in 1..Len(pipeline)
          BY <3>5, <3>6, <3>8
        <5>3. QED
          BY <3>5, <3>7, <3>8, <5>2
      <4>3. QED
        BY <3>7, <3>8, <4>1, <4>2, SuffixByElements
    <3>13. status # "transient" =>
             Len(responses) + Refused(status) + Len(sent) = Len(ids)
      BY <3>4, <3>5, <3>6, <3>7, <3>8, <3>9
    <3>14. QED
      BY <2>2, <3>11, <3>12, <3>13 DEF AnswersFitPipeline, Refused, sent, ids
  <2>3. QED
    BY <1>1, <2>1, <2>2 DEF WholeInv, StreamInv
<1>2. QED
  BY <1>1, WholeAlways, PTL

\* Every variable keeps its type.
THEOREM StreamTypes == Spec => []TypeOK
<1>1. ASSUME WholeInv PROVE TypeOK
  <2>1. /\ currentUser \in Credential /\ contentsUser \in Credential
        /\ mainQueue \in Seq([kind : {"changed"}, user : Credential]
             \cup [kind : {"token"}, token : Token, counter : Nat, closes : Nat])
        /\ tokenCounter \in Nat
        /\ asked \subseteq [counter : Nat, closes : Nat]
        /\ refreshing \subseteq [user : User, counter : Nat, closes : Nat]
    BY <1>1 DEF WholeInv, OwnerInv, MainInv, AuthTypes, MainTask, Ask
  <2>2. user \in Credential /\ workQueue \in Seq(Task) /\ closeCount \in Nat
    BY <1>1 DEF WholeInv, OwnerInv, WorkInv
  <2>3. nextBatchId \in Nat /\ queue \in [Credential -> Seq(Batch)]
    BY <1>1 DEF WholeInv, OwnerInv, QueueInv
  <2>4. /\ state \in {"initial", "starting", "open", "error", "backoff"}
        /\ handshake \in BOOLEAN /\ idle \in BOOLEAN /\ token \in Credential
        /\ status \in {"ok", "transient", "permanent"}
    BY <1>1 DEF WholeInv, StreamInv, Closed
  <2>5. pipeline \in Seq(Batch)
    BY <1>1, StreamQueue, HeadFacts DEF WholeInv, StreamInv
  <2>6. requests \in Seq(Batch \cup {Handshake}) /\ responses \in Seq(Nat)
    <3>1. /\ \A x : <<x>> \in Seq({x}) /\ \A T : <<>> \in Seq(T)
          /\ <<0>> \in Seq(Nat)
      OBVIOUS
    <3>2. \A S, T : S \subseteq T => Seq(S) \subseteq Seq(T)
      OBVIOUS
    <3>3. Seq({Handshake}) \subseteq Seq(Batch \cup {Handshake})
          /\ Seq(Batch) \subseteq Seq(Batch \cup {Handshake})
      BY <3>2
    <3>4. CASE state \in Closed
      BY <1>1, <3>1, <3>4 DEF WholeInv, StreamInv
    <3>5. CASE state = "open" /\ handshake = FALSE
      BY <1>1, <3>1, <3>3, <3>5 DEF WholeInv, StreamInv, Opening
    <3>6. CASE handshake = TRUE
      <4>1. Fits(requests, responses, status, pipeline)
        BY <1>1, <3>6 DEF WholeInv, StreamInv
      <4>2. PICK j \in 0..Len(pipeline) : requests = SubSeq(pipeline, j + 1, Len(pipeline))
        BY <4>1 DEF Fits
      <4>3. requests \in Seq(Batch)
        BY <2>5, <4>2, RestFacts
      <4>4. QED
        BY <3>3, <4>1, <4>3 DEF Fits
    <3>7. QED
      BY <1>1, <3>4, <3>5, <3>6 DEF WholeInv, StreamInv
  <2>7. QED
    BY <2>1, <2>2, <2>3, <2>4, <2>5, <2>6 DEF TypeOK
<1>2. QED
  BY <1>1, WholeAlways, PTL

-----------------------------------------------------------------------------
(* Part III: the refinement.                                                 *)

-----------------------------------------------------------------------------
(* The queues, without the numbers and the authors of the batches            *)

LEMMA MutationsFacts ==
  ASSUME NEW q \in Seq(Batch)
  PROVE  /\ Mutations(q) \in Seq(AppWrite) /\ Len(Mutations(q)) = Len(q)
         /\ \A i \in 1..Len(q) : Mutations(q)[i] = q[i].mutation
<1>0. Len(q) \in Nat /\ \A i \in 1..Len(q) : q[i] \in Batch
  BY LenProperties
<1>1. Len(q) \in Nat /\ \A i \in 1..Len(q) : q[i].mutation \in AppWrite
  BY <1>0 DEF Batch
<1>2. Mutations(q) \in [1..Len(q) -> AppWrite]
  BY <1>1 DEF Mutations
<1>3. Mutations(q) \in Seq(AppWrite) /\ Len(Mutations(q)) = Len(q)
  BY <1>1, <1>2
<1>4. QED
  BY <1>3 DEF Mutations

LEMMA MutationsAppend ==
  ASSUME NEW q \in Seq(Batch), NEW b \in Batch
  PROVE  Mutations(Append(q, b)) = Mutations(q) \o <<b.mutation>>
<1> DEFINE s == Mutations(Append(q, b))
           m == Mutations(q)
           t == m \o <<b.mutation>>
           n == Len(q)
<1>1. /\ n \in Nat /\ Append(q, b) \in Seq(Batch) /\ Len(Append(q, b)) = n + 1
      /\ Append(q, b)[n + 1] = b /\ \A i \in 1..n : Append(q, b)[i] = q[i]
  BY AppendProperties, LenProperties
<1>2. /\ s \in Seq(AppWrite) /\ Len(s) = n + 1
      /\ \A i \in 1..(n + 1) : s[i] = Append(q, b)[i].mutation
  BY <1>1, MutationsFacts
<1>3. /\ m \in Seq(AppWrite) /\ Len(m) = n /\ \A i \in 1..n : m[i] = q[i].mutation
  BY MutationsFacts
<1>4. /\ <<b.mutation>> \in Seq(AppWrite) /\ Len(<<b.mutation>>) = 1
      /\ <<b.mutation>>[1] = b.mutation
  BY DEF Batch
<1> HIDE DEF s, m, n
<1>5. /\ t \in Seq(AppWrite) /\ Len(t) = n + 1
      /\ \A i \in 1..(n + 1) : t[i] = IF i <= n THEN m[i] ELSE <<b.mutation>>[i - n]
  BY <1>1, <1>3, <1>4, ConcatProperties
<1> HIDE DEF t
<1>6. ASSUME NEW i \in 1..(n + 1) PROVE s[i] = t[i]
  <2>1. CASE i \in 1..n
    <3>1. i <= n
      BY <1>1, <2>1
    <3>2. QED
      BY <1>1, <1>2, <1>3, <1>5, <2>1, <3>1
  <2>2. CASE i = n + 1
    <3>1. ~(i <= n) /\ i - n = 1
      BY <1>1, <2>2
    <3>2. t[i] = b.mutation
      BY <1>4, <1>5, <3>1
    <3>3. QED
      BY <1>1, <1>2, <2>2, <3>2
  <2>3. QED
    BY <1>1, <2>1, <2>2
<1>7. s = t
  BY <1>2, <1>5, <1>6, SeqEqual
<1>8. QED
  BY <1>7 DEF s, t, m

LEMMA MutationsTail ==
  ASSUME NEW q \in Seq(Batch), q # <<>>
  PROVE  /\ Mutations(Tail(q)) = Tail(Mutations(q))
         /\ Mutations(q) # <<>> /\ Head(Mutations(q)) = q[1].mutation
<1> DEFINE m == Mutations(q)
           s == Mutations(Tail(q))
           n == Len(q)
<1>1. /\ n \in Nat \ {0} /\ Tail(q) \in Seq(Batch) /\ Len(Tail(q)) = n - 1
      /\ \A i \in 1..(n - 1) : Tail(q)[i] = q[i + 1]
  BY HeadTailProperties, LenProperties, EmptySeq
<1>2. /\ m \in Seq(AppWrite) /\ Len(m) = n /\ \A i \in 1..n : m[i] = q[i].mutation
  BY MutationsFacts
<1>3. /\ s \in Seq(AppWrite) /\ Len(s) = n - 1
      /\ \A i \in 1..(n - 1) : s[i] = Tail(q)[i].mutation
  BY <1>1, MutationsFacts
<1> HIDE DEF m, s, n
<1>4. m # <<>>
  BY <1>1, <1>2
<1>5. /\ Tail(m) \in Seq(AppWrite) /\ Len(Tail(m)) = n - 1
      /\ \A i \in 1..(n - 1) : Tail(m)[i] = m[i + 1]
  BY <1>2, <1>4, HeadTailProperties
<1>6. \A i \in 1..(n - 1) : i + 1 \in 1..n
  BY <1>1
<1>7. \A i \in 1..(n - 1) : s[i] = Tail(m)[i]
  BY <1>1, <1>2, <1>3, <1>5, <1>6
<1>8. s = Tail(m)
  BY <1>3, <1>5, <1>7, SeqEqual
<1>9. 1 \in 1..n /\ Head(m) = m[1]
  BY <1>1, <1>2, <1>4
<1>10. QED
  BY <1>2, <1>4, <1>8, <1>9 DEF m, s

-----------------------------------------------------------------------------
(* Room in the queues                                                        *)

\* f numbers the writes that wait for the worker, in their order, behind those
\* in any queue, and the app has made as many.
Numbers(f, work, lens, n) ==
  \A i \in 1..Len(work) : work[i].kind = "write" =>
    /\ f[i] \in Nat /\ f[i] <= n
    /\ \A u \in Credential : lens[u] < f[i]
    /\ \A j \in 1..(i - 1) : work[j].kind = "write" => f[j] < f[i]

Lengths(q) == [u \in Credential |-> Len(q[u])]

LedgerInv ==
  /\ written \in Nat /\ written <= MaxWrites
  /\ \A u \in Credential : Lengths(queue)[u] <= written
  /\ \E f \in [Nat -> Nat] : Numbers(f, workQueue, Lengths(queue), written)

LEMMA LengthsAreNat ==
  ASSUME NEW q, q \in [Credential -> Seq(Batch)]
  PROVE  \A u \in Credential : Lengths(q)[u] = Len(q[u]) /\ Lengths(q)[u] \in Nat
BY LenProperties DEF Lengths

\* Queues that get no longer leave the numbers as they are.
LEMMA NumbersStay ==
  ASSUME NEW f, NEW work, NEW lens, NEW short, NEW n,
         \A u \in Credential :
           lens[u] \in Nat /\ short[u] \in Nat /\ short[u] <= lens[u]
  PROVE  Numbers(f, work, lens, n) => Numbers(f, work, short, n)
<1>1. ASSUME NEW x \in Nat, \A u \in Credential : lens[u] < x
      PROVE  \A u \in Credential : short[u] < x
  BY <1>1
<1>2. QED
  BY <1>1 DEF Numbers

\* A task joins the queue; if it is a write, it gets the next number.
LEMMA NumbersAppend ==
  ASSUME NEW f \in [Nat -> Nat], NEW work, IsSequence(work), NEW lens, NEW n \in Nat,
         \A u \in Credential : lens[u] \in Nat /\ lens[u] <= n,
         NEW e, NEW m \in {n, n + 1}, e.kind = "write" => m = n + 1
  PROVE  Numbers(f, work, lens, n) =>
           \E g \in [Nat -> Nat] : Numbers(g, Append(work, e), lens, m)
<1> DEFINE k == Len(work)
           g == [f EXCEPT ![k + 1] = m]
           w == Append(work, e)
<1>1. /\ k \in Nat /\ Len(w) = k + 1 /\ w[k + 1] = e
      /\ \A i \in 1..k : w[i] = work[i]
  BY AppendFacts
<1> HIDE DEF k, w
<1>2. g \in [Nat -> Nat] /\ g[k + 1] = m /\ \A i \in 1..k : g[i] = f[i]
  BY <1>1
<1> HIDE DEF g
<1>3. /\ \A i \in 1..Len(w) : i \in 1..k \/ i = k + 1
      /\ \A i \in 1..(k + 1) : \A j \in 1..(i - 1) : j \in 1..k
      /\ \A i \in 1..k : i \in 1..(k + 1)
      /\ k + 1 \in 1..(k + 1)
      /\ \A x \in Nat : x <= n => x <= m /\ (m = n + 1 => x < m)
      /\ m \in Nat /\ m <= m
  BY <1>1
<1> DEFINE Numbered(i) ==
      /\ f[i] \in Nat /\ f[i] <= n
      /\ \A u \in Credential : lens[u] < f[i]
      /\ \A j \in 1..(i - 1) : work[j].kind = "write" => f[j] < f[i]
<1>4. ASSUME NEW i \in 1..k, w[i].kind = "write", Numbered(i)
      PROVE  /\ g[i] \in Nat /\ g[i] <= m
             /\ \A u \in Credential : lens[u] < g[i]
             /\ \A j \in 1..(i - 1) : w[j].kind = "write" => g[j] < g[i]
  BY <1>1, <1>2, <1>3, <1>4, Zenon
<1>5. ASSUME w[k + 1].kind = "write",
             \A i \in 1..k : work[i].kind = "write" => Numbered(i)
      PROVE  /\ g[k + 1] \in Nat /\ g[k + 1] <= m
             /\ \A u \in Credential : lens[u] < g[k + 1]
             /\ \A j \in 1..((k + 1) - 1) : w[j].kind = "write" => g[j] < g[k + 1]
  <2>1. m = n + 1 /\ \A u \in Credential : lens[u] < m
    BY <1>1, <1>3, <1>5, Zenon
  <2>2. \A j \in 1..k : w[j].kind = "write" => g[j] < m
    BY <1>1, <1>2, <1>3, <1>5, <2>1, Zenon
  <2>3. QED
    BY <1>2, <1>3, <2>1, <2>2, Zenon
<1>6. Numbers(f, work, lens, n) =>
        \A i \in 1..k : work[i].kind = "write" => Numbered(i)
  BY Zenon DEF Numbers, k
<1>7. Numbers(f, work, lens, n) => Numbers(g, w, lens, m)
  BY <1>1, <1>3, <1>4, <1>5, <1>6, Zenon DEF Numbers
<1>8. QED
  BY <1>2, <1>7 DEF w

LEMMA Shifted ==
  ASSUME NEW n \in Nat, NEW i \in 1..n
  PROVE  /\ i + 1 \in 1..(n + 1) /\ i \in Nat
         /\ 1 \in 1..((i + 1) - 1) /\ 1 \in 1..(n + 1)
         /\ \A j \in 1..(i - 1) : /\ j + 1 \in 1..((i + 1) - 1)
                                 /\ j \in Nat /\ j \in 1..n
OBVIOUS

LEMMA Between ==
  ASSUME NEW a \in Nat, NEW b \in Nat, NEW x \in Nat, b < x
  PROVE  /\ a <= b => a < x
         /\ \A y \in Nat : a = b + 1 /\ x < y => a < y
OBVIOUS

\* A task leaves the queue; if it is a write, a queue may get longer by one.
LEMMA NumbersTail ==
  ASSUME NEW f \in [Nat -> Nat], NEW work, IsSequence(work), work # <<>>,
         NEW lens, NEW after, NEW n \in Nat,
         \A u \in Credential :
           /\ lens[u] \in Nat /\ after[u] \in Nat
           /\ \/ after[u] <= lens[u]
              \/ after[u] = lens[u] + 1 /\ Head(work).kind = "write"
  PROVE  Numbers(f, work, lens, n) =>
           \E g \in [Nat -> Nat] : Numbers(g, Tail(work), after, n)
<1> DEFINE g == [i \in Nat |-> f[i + 1]]
           w == Tail(work)
<1>1. /\ Len(w) \in Nat /\ Len(work) = Len(w) + 1 /\ Head(work) = work[1]
      /\ \A i \in 1..Len(w) : w[i] = work[i + 1]
  BY TailFacts
<1> HIDE DEF w
<1>2. g \in [Nat -> Nat] /\ \A i \in Nat : g[i] = f[i + 1]
  OBVIOUS
<1> HIDE DEF g
<1>3. ASSUME NEW i \in 1..Len(w)
      PROVE  /\ i + 1 \in 1..Len(work) /\ i \in Nat
             /\ 1 \in 1..((i + 1) - 1) /\ 1 \in 1..Len(work)
             /\ \A j \in 1..(i - 1) : /\ j + 1 \in 1..((i + 1) - 1)
                                     /\ j \in Nat /\ j \in 1..Len(w)
  BY <1>1, Shifted, Zenon
<1>4. ASSUME NEW u \in Credential, NEW x \in Nat, lens[u] < x
      PROVE  /\ after[u] <= lens[u] => after[u] < x
             /\ \A y \in Nat : after[u] = lens[u] + 1 /\ x < y => after[u] < y
  BY <1>4, Between, Zenon
<1> DEFINE Numbered(i) ==
      /\ f[i] \in Nat /\ f[i] <= n
      /\ \A u \in Credential : lens[u] < f[i]
      /\ \A j \in 1..(i - 1) : work[j].kind = "write" => f[j] < f[i]
<1>5. ASSUME NEW i \in 1..Len(w), w[i].kind = "write",
             \A j \in 1..Len(work) : work[j].kind = "write" => Numbered(j)
      PROVE  /\ g[i] \in Nat /\ g[i] <= n
             /\ \A u \in Credential : after[u] < g[i]
             /\ \A j \in 1..(i - 1) : w[j].kind = "write" => g[j] < g[i]
  <2>1. Numbered(i + 1) /\ g[i] = f[i + 1]
    BY <1>1, <1>2, <1>3, <1>5, Zenon
  <2>2. ASSUME NEW u \in Credential PROVE after[u] < f[i + 1]
    <3>1. CASE after[u] <= lens[u]
      BY <1>4, <2>1, <3>1, Zenon
    <3>2. CASE after[u] = lens[u] + 1 /\ Head(work).kind = "write"
      <4>1. Numbered(1) /\ f[1] < f[i + 1]
        BY <1>1, <1>3, <1>5, <2>1, <3>2, Zenon
      <4>2. QED
        BY <1>4, <2>1, <3>2, <4>1, Zenon
    <3>3. QED
      BY <3>1, <3>2, Zenon
  <2>3. ASSUME NEW j \in 1..(i - 1), w[j].kind = "write" PROVE g[j] < g[i]
    BY <1>1, <1>2, <1>3, <2>1, <2>3, ZenonT(60)
  <2>4. QED
    BY <2>1, <2>2, <2>3, Zenon
<1>6. Numbers(f, work, lens, n) =>
        \A j \in 1..Len(work) : work[j].kind = "write" => Numbered(j)
  BY Zenon DEF Numbers
<1>7. Numbers(f, work, lens, n) => Numbers(g, w, after, n)
  BY <1>5, <1>6, Zenon DEF Numbers
<1>8. QED
  BY <1>2, <1>7 DEF w

LEMMA WithoutShorter ==
  ASSUME NEW q \in Seq(Batch), NEW b
  PROVE  Len(Without(q, b)) \in Nat /\ Len(Without(q, b)) <= Len(q)
<1>1. Len(q) \in Nat
  BY LenProperties
<1>2. CASE \E k \in 1..Len(q) : q[k].id = b.id
  <2>1. Len(Without(q, b)) = Len(q) - 1 /\ Len(q) # 0
    BY <1>1, <1>2, WithoutFacts
  <2>2. QED
    BY <1>1, <2>1
<1>3. CASE ~\E k \in 1..Len(q) : q[k].id = b.id
  <2>1. Without(q, b) = q
    BY <1>3 DEF Without
  <2>2. QED
    BY <1>1, <2>1
<1>4. QED
  BY <1>2, <1>3

\* No queue is longer than it was.
NoLonger ==
  \A u \in Credential : /\ Lengths(queue)[u] \in Nat /\ Lengths(queue')[u] \in Nat
                        /\ Lengths(queue')[u] <= Lengths(queue)[u]

LEMMA QueuesNoLonger ==
  ASSUME OwnerInv, OwnerInv',
         queue' = queue \/ queue' = [queue EXCEPT ![user] = Without(@, Head(pipeline))]
  PROVE  NoLonger
<1>1. /\ queue \in [Credential -> Seq(Batch)] /\ queue' \in [Credential -> Seq(Batch)]
      /\ user \in Credential
  BY DEF OwnerInv, QueueInv, WorkInv
<1>2. /\ \A u \in Credential : Lengths(queue)[u] = Len(queue[u]) /\ Lengths(queue)[u] \in Nat
      /\ \A u \in Credential :
           Lengths(queue')[u] = Len(queue'[u]) /\ Lengths(queue')[u] \in Nat
  BY <1>1, LengthsAreNat
<1>3. CASE queue' = queue
  BY <1>2, <1>3 DEF NoLonger
<1>4. CASE queue' = [queue EXCEPT ![user] = Without(@, Head(pipeline))]
  <2>1. /\ queue'[user] = Without(queue[user], Head(pipeline))
        /\ \A u \in Credential : u # user => queue'[u] = queue[u]
    BY <1>1, <1>4
  <2>2. Len(queue'[user]) <= Len(queue[user])
    BY <1>1, <2>1, WithoutShorter
  <2>3. \A u \in Credential : Len(queue'[u]) <= Len(queue[u])
    <3>1. TAKE u \in Credential
    <3>2. CASE u = user
      BY <2>2, <3>2
    <3>3. CASE u # user
      BY <1>2, <2>1, <3>3
    <3>4. QED
      BY <3>2, <3>3
  <2>4. QED
    BY <1>2, <2>3 DEF NoLonger
<1>5. QED
  BY <1>3, <1>4

\* The ledger after a step that takes at most a task off the worker's queue.
LEMMA LedgerQuiet ==
  ASSUME OwnerInv, LedgerInv, NoLonger, written' = written,
         \/ workQueue' = workQueue
         \/ workQueue # <<>> /\ workQueue' = Tail(workQueue)
         \/ workQueue' = <<>>
  PROVE  LedgerInv'
<1>1. /\ IsSequence(workQueue)
      /\ written \in Nat /\ written <= MaxWrites
      /\ \A u \in Credential : Lengths(queue)[u] <= written
  BY DEF OwnerInv, WorkInv, LedgerInv, IsSequence
<1>2. \A u \in Credential : Lengths(queue')[u] <= written
  BY <1>1 DEF NoLonger
<1>3. PICK f \in [Nat -> Nat] : Numbers(f, workQueue, Lengths(queue), written)
  BY DEF LedgerInv
<1>4. CASE workQueue' = workQueue
  <2>1. Numbers(f, workQueue, Lengths(queue), written)
          => Numbers(f, workQueue, Lengths(queue'), written)
    BY NumbersStay, Zenon DEF NoLonger
  <2>2. QED
    BY <1>1, <1>2, <1>3, <1>4, <2>1, Zenon DEF LedgerInv
<1>5. CASE workQueue # <<>> /\ workQueue' = Tail(workQueue)
  <2>1. Numbers(f, workQueue, Lengths(queue), written)
          => \E g \in [Nat -> Nat] :
               Numbers(g, Tail(workQueue), Lengths(queue'), written)
    BY <1>1, <1>5, NumbersTail, Zenon DEF NoLonger
  <2>2. QED
    BY <1>1, <1>2, <1>3, <1>5, <2>1, Zenon DEF LedgerInv
<1>6. CASE workQueue' = <<>>
  <2>1. \A i \in 1..Len(<<>>) : FALSE
    OBVIOUS
  <2>2. Numbers(f, <<>>, Lengths(queue'), written)
    BY <2>1, Zenon DEF Numbers
  <2>3. QED
    BY <1>1, <1>2, <1>3, <1>6, <2>2, Zenon DEF LedgerInv
<1>7. QED
  BY <1>4, <1>5, <1>6

\* The ledger after a task has joined the worker's queue.
LEMMA LedgerJoined ==
  ASSUME OwnerInv, LedgerInv, NEW e, workQueue' = Append(workQueue, e),
         queue' = queue, written' \in {written, written + 1}, written' <= MaxWrites,
         e.kind = "write" => written' = written + 1
  PROVE  LedgerInv'
<1>1. /\ IsSequence(workQueue) /\ queue \in [Credential -> Seq(Batch)]
      /\ written \in Nat
      /\ \A u \in Credential : Lengths(queue)[u] <= written
  BY DEF OwnerInv, WorkInv, QueueInv, LedgerInv, IsSequence
<1>2. \A u \in Credential : Lengths(queue)[u] \in Nat /\ Lengths(queue)[u] <= written
  BY <1>1, LengthsAreNat
<1>3. written' \in Nat /\ \A u \in Credential : Lengths(queue)[u] <= written'
  BY <1>1, <1>2
<1>4. PICK f \in [Nat -> Nat] : Numbers(f, workQueue, Lengths(queue), written)
  BY DEF LedgerInv
<1>5. Numbers(f, workQueue, Lengths(queue), written)
        => \E g \in [Nat -> Nat] :
             Numbers(g, Append(workQueue, e), Lengths(queue), written')
  BY <1>1, <1>2, NumbersAppend, ZenonT(60)
<1>6. QED
  BY <1>3, <1>4, <1>5, Zenon DEF LedgerInv

\* There is room for the write that has its turn.
LEMMA RoomForWrite ==
  ASSUME OwnerInv, LedgerInv, workQueue # <<>>, Head(workQueue).kind = "write",
         NEW u \in Credential
  PROVE  Len(queue[u]) + 1 <= written
<1>1. /\ IsSequence(workQueue) /\ queue \in [Credential -> Seq(Batch)]
      /\ written \in Nat
  BY DEF OwnerInv, WorkInv, QueueInv, LedgerInv, IsSequence
<1>2. 1 \in 1..Len(workQueue) /\ workQueue[1] = Head(workQueue)
  BY <1>1, TailFacts
<1>3. PICK f \in [Nat -> Nat] : Numbers(f, workQueue, Lengths(queue), written)
  BY DEF LedgerInv
<1>4. f[1] \in Nat /\ f[1] <= written /\ Lengths(queue)[u] < f[1]
  BY <1>2, <1>3, Zenon DEF Numbers
<1>5. Lengths(queue)[u] = Len(queue[u]) /\ Len(queue[u]) \in Nat
  BY <1>1, LengthsAreNat
<1>6. QED
  BY <1>1, <1>4, <1>5

\* The ledger after the worker has put a write into the queue of its author.
LEMMA LedgerTaken ==
  ASSUME OwnerInv, OwnerInv', LedgerInv, WriteMutations
  PROVE  LedgerInv'
<1> DEFINE b == [id |-> nextBatchId, mutation |-> Head(workQueue).mutation,
                 author |-> Head(workQueue).author]
<1>1. /\ workQueue # <<>> /\ Head(workQueue).kind = "write"
      /\ workQueue' = Tail(workQueue)
      /\ queue' = [queue EXCEPT ![user] = Append(@, b)]
      /\ written' = written
  BY DEF WriteMutations, TakeTask, counters
<1> HIDE DEF b
<1>2. /\ IsSequence(workQueue) /\ user \in Credential
      /\ queue \in [Credential -> Seq(Batch)] /\ queue' \in [Credential -> Seq(Batch)]
      /\ written \in Nat /\ written <= MaxWrites
      /\ \A u \in Credential : Lengths(queue)[u] <= written
  BY DEF OwnerInv, WorkInv, QueueInv, LedgerInv, IsSequence
<1>3. /\ \A u \in Credential : Lengths(queue)[u] = Len(queue[u]) /\ Lengths(queue)[u] \in Nat
      /\ \A u \in Credential :
           Lengths(queue')[u] = Len(queue'[u]) /\ Lengths(queue')[u] \in Nat
  BY <1>2, LengthsAreNat
<1>4. /\ Len(queue'[user]) = Len(queue[user]) + 1
      /\ \A u \in Credential : u # user => queue'[u] = queue[u]
  <2>1. queue'[user] = Append(queue[user], b) /\ IsSequence(queue[user])
    BY <1>1, <1>2 DEF IsSequence
  <2>2. QED
    BY <1>1, <1>2, <2>1, AppendFacts
<1>5. \A u \in Credential : Lengths(queue')[u] <= written
  <2>1. TAKE u \in Credential
  <2>2. CASE u = user
    BY <1>1, <1>3, <1>4, <2>2, RoomForWrite
  <2>3. CASE u # user
    BY <1>2, <1>3, <1>4, <2>3
  <2>4. QED
    BY <2>2, <2>3
<1>6. \A u \in Credential :
        /\ Lengths(queue)[u] \in Nat /\ Lengths(queue')[u] \in Nat
        /\ \/ Lengths(queue')[u] <= Lengths(queue)[u]
           \/ Lengths(queue')[u] = Lengths(queue)[u] + 1 /\ Head(workQueue).kind = "write"
  <2>1. TAKE u \in Credential
  <2>2. CASE u = user
    BY <1>1, <1>3, <1>4, <2>2
  <2>3. CASE u # user
    BY <1>3, <1>4, <2>3
  <2>4. QED
    BY <2>2, <2>3
<1>7. PICK f \in [Nat -> Nat] : Numbers(f, workQueue, Lengths(queue), written)
  BY DEF LedgerInv
<1>8. Numbers(f, workQueue, Lengths(queue), written)
        => \E g \in [Nat -> Nat] : Numbers(g, Tail(workQueue), Lengths(queue'), written)
  BY <1>1, <1>2, <1>6, NumbersTail, Zenon
<1>9. QED
  BY <1>1, <1>2, <1>5, <1>7, <1>8, Zenon DEF LedgerInv

LEMMA LedgerStep == OwnerInv /\ OwnerInv' /\ LedgerInv /\ [Next]_vars => LedgerInv'
<1>1. SUFFICES ASSUME OwnerInv, OwnerInv', LedgerInv, [Next]_vars PROVE LedgerInv'
  OBVIOUS
<1>2. CASE \E m \in AppWrite : WriteDocument(m)
  <2>1. /\ written < MaxWrites /\ written' = written + 1 /\ queue' = queue
        /\ \E e : workQueue' = Append(workQueue, e)
    BY <1>2 DEF WriteDocument, local
  <2>2. written \in Nat /\ MaxWrites \in Nat
    BY <1>1, WriteStreamAssumption DEF LedgerInv
  <2>3. written' <= MaxWrites
    BY <2>1, <2>2
  <2>4. QED
    BY <1>1, <2>1, <2>3, LedgerJoined
<1>3. CASE MainStep
  <2>1. queue' = queue /\ written' = written
    BY <1>3 DEF MainStep, local, counters
  <2>2. \/ workQueue' = workQueue
        \/ \E e : workQueue' = Append(workQueue, e) /\ e.kind # "write"
    BY <1>3 DEF MainStep, NoteChange, TakeAnswer, Changed, Resume
  <2>3. written' <= MaxWrites
    BY <1>1, <2>1 DEF LedgerInv
  <2>4. QED
    BY <1>1, <2>1, <2>2, <2>3, LedgerJoined, LedgerQuiet, QueuesNoLonger
<1>4. CASE WriteMutations
  BY <1>1, <1>4, LedgerTaken
<1>5. CASE HandleCredentialChange \/ IgnoreToken \/ ResumeStartWithCredentials
             \/ FailToStart
  <2>1. /\ workQueue # <<>> /\ workQueue' = Tail(workQueue)
        /\ queue' = queue /\ written' = written
    BY <1>5 DEF HandleCredentialChange, IgnoreToken, ResumeStartWithCredentials,
                FailToStart, TakeTask, local, counters
  <2>2. QED
    BY <1>1, <2>1, LedgerQuiet, QueuesNoLonger
<1>6. CASE RestartApp
  <2>1. workQueue' = <<>> /\ queue' = queue /\ written' = written
    BY <1>6 DEF RestartApp
  <2>2. QED
    BY <1>1, <2>1, LedgerQuiet, QueuesNoLonger
<1>7. CASE OnWriteStreamMutationResult \/ HandleWriteError
  <2>1. /\ workQueue' = workQueue /\ written' = written
        /\ queue' = [queue EXCEPT ![user] = Without(@, Head(pipeline))]
    BY <1>7 DEF OnWriteStreamMutationResult, HandleWriteError, counters
  <2>2. QED
    BY <1>1, <2>1, LedgerQuiet, QueuesNoLonger
<1>8. CASE \/ AuthStep \/ ServerStep \/ BackoffElapses \/ IdleTimeout
           \/ ConnectivityChange \/ OnWriteStreamHandshakeComplete
           \/ OnWriteStreamClose \/ LoseConnection \/ UNCHANGED vars
  <2>1. queue' = queue /\ written' = written
    BY <1>8 DEF AuthStep, ServerStep, AnswerHandshake, ApplyWrite, RefuseWrite, Receive,
                BackoffElapses, IdleTimeout, ConnectivityChange, LoseConnection,
                OnWriteStreamHandshakeComplete, OnWriteStreamClose, vars, local, counters
  <2>2. workQueue' = workQueue
    BY <1>8 DEF AuthStep, UpdateCurrentUser, StartRefresh, AnswerWithToken,
                FinishRefresh, FailRefresh,
                ServerStep, AnswerHandshake, ApplyWrite, RefuseWrite, Receive,
                BackoffElapses, IdleTimeout, ConnectivityChange, LoseConnection,
                OnWriteStreamHandshakeComplete, OnWriteStreamClose, vars, credentialVars
  <2>3. QED
    BY <1>1, <2>1, <2>2, LedgerQuiet, QueuesNoLonger
<1>9. QED
  BY <1>1, <1>2, <1>3, <1>4, <1>5, <1>6, <1>7, <1>8 DEF Next, WorkerStep

LEMMA LedgerInit == Init => LedgerInv
<1>1. SUFFICES ASSUME Init PROVE LedgerInv
  OBVIOUS
<1>2. /\ queue = [u \in Credential |-> <<>>] /\ written = 0 /\ workQueue = <<>>
      /\ written \in Nat /\ written <= MaxWrites
  BY <1>1, WriteStreamAssumption DEF Init
<1>3. \A u \in Credential : Lengths(queue)[u] <= written
  <2>1. \A u \in Credential : Lengths(queue)[u] = 0
    BY <1>2 DEF Lengths
  <2>2. QED
    BY <1>2, <2>1
<1>4. \A i \in 1..Len(workQueue) : FALSE
  BY <1>2
<1>5. [i \in Nat |-> i] \in [Nat -> Nat]
  OBVIOUS
<1>6. Numbers([i \in Nat |-> i], workQueue, Lengths(queue), written)
  BY <1>4, Zenon DEF Numbers
<1>7. QED
  BY <1>2, <1>3, <1>5, <1>6, Zenon DEF LedgerInv

-----------------------------------------------------------------------------
(* Writes that are refused                                                   *)

\* The batch for which the server has ended the stream is the one after those
\* that it has answered, and the server would refuse it still.
RefusedInv ==
  status = "permanent" =>
    /\ state = "open" /\ handshake = TRUE
    /\ Len(responses) + 1 \in 1..Len(queue[user])
    /\ ~Allowed(queue[user][Len(responses) + 1])

LEMMA AllowedStays ==
  ASSUME UNCHANGED <<token, server>>
  PROVE  \A b : Allowed(b)' = Allowed(b)
BY DEF Allowed, Store!PreconditionHolds

\* The stream that is open has answers, ids of batches.
LEMMA OpenStream ==
  ASSUME WholeInv, handshake = TRUE
  PROVE  /\ state = "open" /\ user \in Credential /\ queue[user] \in Seq(Batch)
         /\ Fits(requests, responses, status, pipeline)
         /\ responses \in Seq(Nat) /\ Len(responses) \in Nat
         /\ pipeline = HeadOf(queue[user]) /\ pipeline \in Seq(Batch)
         /\ Len(pipeline) \in Nat /\ Len(queue[user]) \in Nat
         /\ Len(pipeline) <= Len(queue[user])
         /\ \A i \in 1..Len(pipeline) : pipeline[i] = queue[user][i]
<1>1. /\ user \in Credential /\ queue[user] \in Seq(Batch)
  BY StreamQueue DEF WholeInv
<1>2. /\ state = "open" /\ pipeline = HeadOf(queue[user])
      /\ Fits(requests, responses, status, pipeline)
  BY DEF WholeInv, StreamInv
<1>3. /\ pipeline \in Seq(Batch) /\ Len(pipeline) = Room(queue[user])
      /\ \A i \in 1..Room(queue[user]) : pipeline[i] = queue[user][i]
  BY <1>1, <1>2, HeadFacts
<1>4. /\ Room(queue[user]) \in Nat /\ Len(queue[user]) \in Nat
      /\ Room(queue[user]) <= Len(queue[user])
  BY <1>1, RoomFacts
<1>5. responses \in Seq(Nat) /\ Len(responses) \in Nat
  BY <1>2, LenProperties DEF Fits
<1>6. QED
  BY <1>1, <1>2, <1>3, <1>4, <1>5

\* A write that the server refuses.
LEMMA RefusedNow ==
  ASSUME WholeInv, RefuseWrite
  PROVE  RefusedInv'
<1>1. /\ handshake = TRUE /\ status = "ok"
      /\ Len(responses) + 1 \in 1..Len(pipeline)
      /\ Head(requests) = pipeline[Len(responses) + 1]
  BY StreamServed DEF WholeInv, ServerStep
<1>2. /\ ~Allowed(Head(requests))
      /\ UNCHANGED <<server, token, state, handshake, responses, queue, user>>
  BY DEF RefuseWrite, Receive, local
<1>3. /\ state = "open" /\ Len(responses) + 1 \in 1..Len(queue[user])
      /\ Head(requests) = queue[user][Len(responses) + 1]
  BY <1>1, OpenStream
<1>4. ~Allowed(queue[user][Len(responses) + 1])'
  BY <1>2, <1>3, AllowedStays
<1>5. QED
  BY <1>1, <1>2, <1>3, <1>4 DEF RefusedInv

\* A write joins the queue behind it.
LEMMA RefusedAppend ==
  ASSUME WholeInv, RefusedInv, WriteMutations
  PROVE  RefusedInv'
<1> DEFINE b == [id |-> nextBatchId, mutation |-> Head(workQueue).mutation,
                 author |-> Head(workQueue).author]
           q == queue[user]
           n == Len(responses) + 1
<1>1. /\ queue' = [queue EXCEPT ![user] = Append(@, b)]
      /\ UNCHANGED <<server, user, handshake, token, responses, status>>
      /\ \E p, c : StartIfNeeded(state, p, c)
  BY DEF WriteMutations, FillWritePipeline, documents
<1>2. SUFFICES ASSUME status = "permanent"
               PROVE  /\ state' = "open" /\ handshake' = TRUE
                      /\ n' \in 1..Len(q') /\ ~Allowed(q[n])'
  BY <1>1 DEF RefusedInv
<1>3. /\ state = "open" /\ handshake = TRUE /\ n \in 1..Len(q) /\ ~Allowed(q[n])
  BY <1>2 DEF RefusedInv
<1>4. state' = "open"
  BY <1>1, <1>3, ClosedStates
<1>5. IsSequence(q) /\ q' = Append(q, b)
  BY <1>1, StreamQueue DEF WholeInv, OwnerInv, QueueInv, IsSequence
<1> HIDE DEF b
<1>6. Len(q') = Len(q) + 1 /\ Len(q) \in Nat /\ \A i \in 1..Len(q) : q'[i] = q[i]
  BY <1>5, AppendFacts
<1>7. n' = n
  BY <1>1
<1> HIDE DEF q, n
<1>8. n \in 1..Len(q') /\ q'[n] = q[n]
  BY <1>3, <1>6
<1>9. ~Allowed(q[n])'
  BY <1>1, <1>3, <1>7, <1>8, AllowedStays
<1>10. QED
  BY <1>1, <1>3, <1>4, <1>7, <1>8, <1>9

\* An answer before it is read.
LEMMA RefusedTail ==
  ASSUME WholeInv, WholeInv', RefusedInv, OnWriteStreamMutationResult
  PROVE  RefusedInv'
<1> DEFINE q == queue[user]
           n == Len(responses) + 1
<1>1. /\ responses # <<>> /\ handshake = TRUE /\ responses' = Tail(responses)
      /\ UNCHANGED <<server, user, handshake, token, status>>
  BY DEF OnWriteStreamMutationResult, WholeInv, StreamInv
<1>2. q # <<>> /\ q' = Tail(q)
  BY <1>1, StreamResult DEF WholeInv
<1>3. SUFFICES ASSUME status = "permanent"
               PROVE  /\ state' = "open" /\ handshake' = TRUE
                      /\ n' \in 1..Len(q') /\ ~Allowed(q[n])'
  BY <1>1 DEF RefusedInv
<1>4. n \in 1..Len(q) /\ ~Allowed(q[n])
  BY <1>3 DEF RefusedInv
<1>5. state' = "open" /\ handshake' = TRUE
  BY <1>1 DEF WholeInv, StreamInv
<1>6. responses \in Seq(Nat) /\ IsSequence(responses) /\ IsSequence(q)
  BY <1>1, OpenStream DEF IsSequence
<1>7. n \in Nat /\ n' = n - 1 /\ n' \in Nat \ {0}
  BY <1>1, <1>6, TailFacts
<1>8. Len(q) \in Nat /\ Len(q') = Len(q) - 1 /\ \A i \in 1..Len(q') : q'[i] = q[i + 1]
  BY <1>2, <1>6, TailFacts
<1> HIDE DEF q, n
<1>9. n' \in 1..Len(q') /\ n' + 1 = n
  BY <1>4, <1>7, <1>8
<1>10. q'[n'] = q[n]
  BY <1>8, <1>9
<1>11. ~Allowed(q[n])'
  BY <1>1, <1>4, <1>10, AllowedStays
<1>12. QED
  BY <1>5, <1>9, <1>11

LEMMA RefusedStep ==
  WholeInv /\ WholeInv' /\ RefusedInv /\ [Next]_vars => RefusedInv'
<1>1. SUFFICES ASSUME WholeInv, WholeInv', RefusedInv, [Next]_vars PROVE RefusedInv'
  OBVIOUS
<1>2. CASE (\E m \in AppWrite : WriteDocument(m)) \/ AuthStep \/ MainStep
           \/ IgnoreToken \/ UNCHANGED vars
  <2>1. UNCHANGED <<documents, local, stream>>
    BY <1>2 DEF WriteDocument, AuthStep, MainStep, IgnoreToken, vars
  <2>2. UNCHANGED <<server, token, status, state, handshake, responses, queue, user>>
    BY <2>1 DEF documents, local, stream
  <2>3. Allowed(queue[user][Len(responses) + 1])'
          = Allowed(queue[user][Len(responses) + 1])
    BY <2>2, AllowedStays
  <2>4. QED
    BY <1>1, <2>2, <2>3 DEF RefusedInv
<1>3. CASE HandleCredentialChange \/ ConnectivityChange \/ FailToStart \/ IdleTimeout
           \/ HandleWriteError \/ OnWriteStreamClose \/ RestartApp
  <2>1. DropStream
    BY <1>3 DEF HandleCredentialChange, ConnectivityChange, FailToStart, IdleTimeout,
                HandleWriteError, OnWriteStreamClose, RestartApp, RestartNetwork,
                CloseWithError
  <2>2. QED
    BY <2>1 DEF DropStream, RefusedInv
<1>4. CASE WriteMutations
  BY <1>1, <1>4, RefusedAppend
<1>5. CASE OnWriteStreamMutationResult
  BY <1>1, <1>5, RefusedTail
<1>6. CASE RefuseWrite
  BY <1>1, <1>6, RefusedNow
<1>7. CASE ResumeStartWithCredentials \/ BackoffElapses
           \/ OnWriteStreamHandshakeComplete
  <2>1. status' = status
    BY <1>7 DEF ResumeStartWithCredentials, BackoffElapses,
                OnWriteStreamHandshakeComplete
  <2>2. state # "open" \/ handshake = FALSE
    <3>1. CASE ResumeStartWithCredentials
      <4>1. /\ workQueue # <<>> /\ Head(workQueue).kind = "resume"
            /\ Head(workQueue).closes = closeCount /\ workQueue' = Tail(workQueue)
            /\ UNCHANGED <<asked, refreshing, mainQueue, closeCount>>
            /\ IsSequence(workQueue)
        BY <1>1, <3>1 DEF ResumeStartWithCredentials, TakeTask, IsLive, authVars,
                          WholeInv, OwnerInv, WorkInv, IsSequence
      <4>2. state = "starting"
        BY <1>1, <4>1, LiveOpen DEF WholeInv
      <4>3. QED
        BY <4>2
    <3>2. CASE BackoffElapses
      BY <3>2 DEF BackoffElapses
    <3>3. CASE OnWriteStreamHandshakeComplete
      BY <1>1, <3>3 DEF OnWriteStreamHandshakeComplete, WholeInv, StreamInv
    <3>4. QED
      BY <1>7, <3>1, <3>2, <3>3
  <2>3. status # "permanent"
    BY <1>1, <2>2 DEF RefusedInv
  <2>4. QED
    BY <2>1, <2>3 DEF RefusedInv
<1>8. CASE AnswerHandshake \/ ApplyWrite \/ LoseConnection
  <2>1. status' \in {"ok", "transient"}
    BY <1>8 DEF AnswerHandshake, ApplyWrite, Receive, LoseConnection
  <2>2. QED
    BY <2>1 DEF RefusedInv
<1>9. QED
  BY <1>1, <1>2, <1>3, <1>4, <1>5, <1>6, <1>7, <1>8 DEF Next, WorkerStep, ServerStep

-----------------------------------------------------------------------------
(* The variables of module Firestore                                         *)

\* What the server has applied on the open stream, and the client has not read.
LEMMA DeliveredIs ==
  ASSUME WholeInv
  PROVE  /\ handshake = TRUE => Delivered = Len(responses)
         /\ handshake = FALSE => Delivered = 0
         /\ Delivered \in Nat
<1> DEFINE T == {i \in 1..Len(responses) : responses[i] # 0}
<1>1. Delivered = Cardinality(T)
  BY DEF Delivered
<1>2. CASE handshake = TRUE
  <2>1. /\ Len(responses) \in Nat /\ Len(pipeline) \in Nat
        /\ Len(pipeline) <= Len(queue[user]) /\ Len(queue[user]) \in Nat
        /\ \A i \in 1..Len(responses) : i \in 1..Len(pipeline)
                                        /\ responses[i] = pipeline[i].id
        /\ \A i \in 1..Len(pipeline) : pipeline[i] = queue[user][i]
    BY <1>2, OpenStream DEF Fits
  <2>2. \A i \in 1..Len(queue[user]) : queue[user][i].id # 0
    BY StreamQueue DEF WholeInv, Ascending
  <2>3. \A i \in 1..Len(pipeline) : i \in 1..Len(queue[user])
    BY <2>1
  <2>4. \A i \in 1..Len(responses) : responses[i] # 0
    BY <2>1, <2>2, <2>3
  <2>5. T = 1..Len(responses)
    BY <2>4
  <2>6. Cardinality(1..Len(responses)) = Len(responses)
    <3>1. 1 \in Int /\ Len(responses) \in Int
      BY <2>1
    <3>2. Cardinality(1..Len(responses)) =
            IF 1 > Len(responses) THEN 0 ELSE Len(responses) - 1 + 1
      BY <3>1, FS_Interval
    <3>3. QED
      BY <2>1, <3>2
  <2>7. QED
    BY <1>1, <1>2, <2>1, <2>5, <2>6
<1>3. CASE handshake = FALSE
  <2>1. responses \in {<<>>, <<0>>}
    <3>1. CASE state \in Closed
      BY <3>1 DEF WholeInv, StreamInv
    <3>2. CASE state = "open"
      BY <1>3, <3>2 DEF WholeInv, StreamInv, Opening
    <3>3. QED
      BY <3>1, <3>2 DEF WholeInv, StreamInv
  <2>2. \A i \in 1..Len(responses) : responses[i] = 0
    <3>1. CASE responses = <<>>
      BY <3>1
    <3>2. CASE responses = <<0>>
      BY <3>2
    <3>3. QED
      BY <2>1, <3>1, <3>2
  <2>3. T = {}
    BY <2>2
  <2>4. Cardinality({}) = 0
    BY FS_EmptySet
  <2>5. Delivered = 0
    BY <1>1, <2>3, <2>4
  <2>6. QED
    BY <1>3, <2>5
<1>4. QED
  BY <1>2, <1>3 DEF WholeInv, StreamInv

\* One step of Firestore, or none.
StoreStep ==
  \/ Store!Deliver(Here) \/ Store!Ack(Here) \/ Store!Reject(Here)
  \/ Store!BreakStream(Here)
  \/ \E m \in AppWrite : /\ Store!WriteLocally(Here, <<m>>)
                         /\ UNCHANGED <<server, user, Delivered, cache>>
  \/ \E u \in Credential : /\ Store!ChangeCredential(Here, u)
                           /\ UNCHANGED <<server, queue, cache>>
  \/ UNCHANGED StoreVars

LEMMA StoreStutters ==
  ASSUME UNCHANGED <<server, user, queue, cache>>, Delivered' = Delivered
  PROVE  StoreStep
<1>1. UNCHANGED StoreVars
  BY DEF StoreVars, Store!firestoreVars
<1>2. QED
  BY <1>1 DEF StoreStep

LEMMA StoreBreaks ==
  ASSUME UNCHANGED <<server, user, queue, cache>>, Delivered \in Nat, Delivered' = 0
  PROVE  StoreStep
<1>1. CASE Delivered = 0
  BY <1>1, StoreStutters
<1>2. CASE Delivered # 0
  <2>1. Delivered > 0
    BY <1>2
  <2>2. Store!BreakStream(Here)
    BY <2>1 DEF Store!BreakStream
  <2>3. QED
    BY <2>2 DEF StoreStep
<1>3. QED
  BY <1>1, <1>2

LEMMA StoreChanges ==
  ASSUME UNCHANGED <<server, queue, cache>>, Delivered' = 0, user' \in Credential
  PROVE  StoreStep
<1>1. Store!ChangeCredential(Here, user')
  BY DEF Store!ChangeCredential
<1>2. QED
  BY <1>1 DEF StoreStep

\* The queues as Firestore sees them.
Waiting(q) == [u \in Credential |-> Mutations(q[u])]

LEMMA StorePending ==
  ASSUME user \in Credential
  PROVE  Store!Pending(Here) = Mutations(queue[user])
BY DEF Store!Pending

LEMMA WaitingTail ==
  ASSUME NEW q, q \in [Credential -> Seq(Batch)], NEW u \in Credential, q[u] # <<>>,
         NEW r, r \in [Credential -> Seq(Batch)], r[u] = Tail(q[u]),
         \A v \in Credential : v # u => r[v] = q[v]
  PROVE  Waiting(r) = [Waiting(q) EXCEPT ![u] = Tail(@)]
<1>1. Mutations(r[u]) = Tail(Mutations(q[u]))
  BY MutationsTail
<1>2. \A v \in Credential : v # u => Mutations(r[v]) = Mutations(q[v])
  OBVIOUS
<1>3. QED
  BY <1>1, <1>2, Zenon DEF Waiting

LEMMA StoreDelivers ==
  ASSUME user \in Credential, queue[user] \in Seq(Batch),
         NEW k \in 1..Len(queue[user]), Delivered = k - 1, Delivered' = k,
         NEW m, m = queue[user][k].mutation,
         Store!PreconditionHolds(m, server[m.path]),
         server' = [server EXCEPT ![m.path] = Store!Merge(m, @)],
         UNCHANGED <<user, queue, cache>>
  PROVE  StoreStep
<1>1. /\ Store!Pending(Here) = Mutations(queue[user])
      /\ Len(Mutations(queue[user])) = Len(queue[user])
      /\ Mutations(queue[user])[k] = m
  BY StorePending, MutationsFacts
<1>2. Len(queue[user]) \in Nat /\ (k - 1) + 1 = k /\ k - 1 < Len(queue[user])
  BY LenProperties
<1>3. Store!Deliver(Here)
  BY <1>1, <1>2 DEF Store!Deliver
<1>4. QED
  BY <1>3 DEF StoreStep

LEMMA StoreAcknowledges ==
  ASSUME user \in Credential, queue \in [Credential -> Seq(Batch)],
         queue' \in [Credential -> Seq(Batch)], queue[user] # <<>>,
         queue'[user] = Tail(queue[user]),
         \A v \in Credential : v # user => queue'[v] = queue[v],
         Delivered \in Nat, Delivered > 0, Delivered' = Delivered - 1,
         NEW m, m = queue[user][1].mutation,
         cache' = [cache EXCEPT ![m.path] = Store!Apply(m, @)],
         UNCHANGED <<server, user>>
  PROVE  StoreStep
<1>1. /\ Store!Pending(Here) = Mutations(queue[user])
      /\ Head(Mutations(queue[user])) = m
  BY StorePending, MutationsTail
<1>2. Waiting(queue') = [Waiting(queue) EXCEPT ![user] = Tail(@)]
  BY WaitingTail, Zenon
<1>3. Store!Ack(Here)
  <2>1. [d \in {Here} |-> cache'] =
          [[d \in {Here} |-> cache] EXCEPT
             ![Here][m.path] = Store!Apply(m, [d \in {Here} |-> cache][Here][m.path])]
    OBVIOUS
  <2>2. [d \in {Here} |-> Waiting(queue')] =
          [[d \in {Here} |-> Waiting(queue)] EXCEPT
             ![Here][[d \in {Here} |-> user][Here]] = Tail(@)]
    BY <1>2
  <2>3. /\ [d \in {Here} |-> Delivered][Here] > 0
        /\ ~([d \in {Here} |-> 0][Here] > 0)
        /\ [d \in {Here} |-> Delivered'] =
             [[d \in {Here} |-> Delivered] EXCEPT
                ![Here] = [d \in {Here} |-> Delivered][Here] - 1]
        /\ [d \in {Here} |-> 0] =
             [[d \in {Here} |-> 0] EXCEPT
                ![Here] = IF [d \in {Here} |-> 0][Here] > 0
                            THEN [d \in {Here} |-> 0][Here] - 1 ELSE 0]
    <3>1. ~(0 > 0)
      OBVIOUS
    <3>2. /\ [d \in {Here} |-> Delivered][Here] = Delivered
          /\ [d \in {Here} |-> 0][Here] = 0
          /\ [d \in {Here} |-> Delivered'] =
               [[d \in {Here} |-> Delivered] EXCEPT ![Here] = Delivered - 1]
          /\ [d \in {Here} |-> 0] = [[d \in {Here} |-> 0] EXCEPT ![Here] = 0]
      OBVIOUS
    <3>3. QED
      BY <3>1, <3>2, Zenon
  <2>4. QED
    BY <1>1, <2>1, <2>2, <2>3, Zenon DEF Store!Ack, Waiting
<1>4. QED
  BY <1>3 DEF StoreStep

LEMMA StoreRejects ==
  ASSUME user \in Credential, queue \in [Credential -> Seq(Batch)],
         queue' \in [Credential -> Seq(Batch)], queue[user] # <<>>,
         queue'[user] = Tail(queue[user]),
         \A v \in Credential : v # user => queue'[v] = queue[v],
         Delivered = 0, Delivered' = 0,
         NEW m, m = queue[user][1].mutation,
         user = NoUser \/ ~Store!PreconditionHolds(m, server[m.path]),
         UNCHANGED <<server, user, cache>>
  PROVE  StoreStep
<1>1. /\ Store!Pending(Here) = Mutations(queue[user])
      /\ Mutations(queue[user]) # <<>>
      /\ Head(Mutations(queue[user])) = m
  BY StorePending, MutationsTail
<1>2. Waiting(queue') = [Waiting(queue) EXCEPT ![user] = Tail(@)]
  BY WaitingTail, Zenon
<1>3. Store!Reject(Here)
  BY <1>1, <1>2 DEF Store!Reject, Waiting
<1>4. QED
  BY <1>3 DEF StoreStep

LEMMA StoreWrites ==
  ASSUME user \in Credential, queue \in [Credential -> Seq(Batch)],
         queue' \in [Credential -> Seq(Batch)], NEW b \in Batch,
         queue'[user] = Append(queue[user], b),
         \A v \in Credential : v # user => queue'[v] = queue[v],
         Len(queue[user]) + 1 <= MaxWrites,
         UNCHANGED <<server, user, cache>>, Delivered' = Delivered
  PROVE  StoreStep
<1>1. /\ Store!Pending(Here) = Mutations(queue[user])
      /\ Len(Mutations(queue[user])) = Len(queue[user])
      /\ Len(<<b.mutation>>) = 1 /\ b.mutation \in AppWrite
  BY StorePending, MutationsFacts DEF Batch
<1>2. Waiting(queue') = [Waiting(queue) EXCEPT ![user] = @ \o <<b.mutation>>]
  <2>1. Mutations(queue'[user]) = Mutations(queue[user]) \o <<b.mutation>>
    <3>1. queue[user] \in Seq(Batch)
      OBVIOUS
    <3>2. Mutations(Append(queue[user], b)) = Mutations(queue[user]) \o <<b.mutation>>
      BY <3>1, MutationsAppend
    <3>3. QED
      BY <3>2
  <2>2. \A v \in Credential : v # user => Mutations(queue'[v]) = Mutations(queue[v])
    OBVIOUS
  <2>3. QED
    BY <2>1, <2>2, Zenon DEF Waiting
<1>3. Store!WriteLocally(Here, <<b.mutation>>)
  BY <1>1, <1>2 DEF Store!WriteLocally, Waiting
<1>4. QED
  BY <1>1, <1>3 DEF StoreStep

-----------------------------------------------------------------------------
(* The steps                                                                 *)

DeliveredInv ==
  /\ handshake = TRUE => Delivered = Len(responses)
  /\ handshake = FALSE => Delivered = 0
  /\ Delivered \in Nat

LEMMA DeliveredStep == WholeInv /\ WholeInv' => DeliveredInv /\ DeliveredInv'
<1>1. WholeInv => DeliveredInv
  BY DeliveredIs DEF DeliveredInv
<1>2. WholeInv' => DeliveredInv'
  BY <1>1, PTL
<1>3. QED
  BY <1>1, <1>2

\* Steps that the documents and the queues have no part in.
LEMMA StepsUnseen ==
  ASSUME WholeInv, WholeInv', DeliveredInv, DeliveredInv',
         \/ \E m \in AppWrite : WriteDocument(m)
         \/ AuthStep \/ MainStep \/ IgnoreToken
         \/ ResumeStartWithCredentials \/ BackoffElapses
         \/ AnswerHandshake \/ RefuseWrite
         \/ OnWriteStreamHandshakeComplete
         \/ UNCHANGED vars
  PROVE  StoreStep
<1>1. UNCHANGED <<server, user, queue, cache>>
  BY DEF WriteDocument, AuthStep, MainStep, IgnoreToken, ResumeStartWithCredentials,
         BackoffElapses, AnswerHandshake, RefuseWrite, Receive,
         OnWriteStreamHandshakeComplete, vars, documents, local
<1>2. CASE \/ \E m \in AppWrite : WriteDocument(m)
           \/ AuthStep \/ MainStep \/ IgnoreToken
           \/ ResumeStartWithCredentials \/ BackoffElapses
           \/ RefuseWrite \/ UNCHANGED vars
  <2>1. responses' = responses
    BY <1>2 DEF WriteDocument, AuthStep, MainStep, IgnoreToken,
                ResumeStartWithCredentials, BackoffElapses, RefuseWrite, vars, stream
  <2>2. Delivered' = Delivered
    BY <2>1 DEF Delivered
  <2>3. QED
    BY <1>1, <2>2, StoreStutters
<1>3. CASE AnswerHandshake
  <2>1. handshake = FALSE /\ handshake' = handshake
    BY <1>3, StreamServed DEF WholeInv, ServerStep, AnswerHandshake, Receive
  <2>2. Delivered = 0 /\ Delivered' = 0
    BY <2>1 DEF DeliveredInv
  <2>3. QED
    BY <1>1, <2>2, StoreStutters
<1>4. CASE OnWriteStreamHandshakeComplete
  <2>1. /\ responses # <<>> /\ handshake = FALSE /\ handshake' = TRUE
        /\ responses' = Tail(responses)
    BY <1>4 DEF OnWriteStreamHandshakeComplete, WholeInv, StreamInv
  <2>2. state = "open"
    BY <2>1 DEF WholeInv, StreamInv
  <2>3. responses = <<0>>
    BY <2>1, <2>2 DEF WholeInv, StreamInv, Opening
  <2>4. Len(responses') = 0
    BY <2>1, <2>3
  <2>5. Delivered = 0 /\ Delivered' = 0
    BY <2>1, <2>4 DEF DeliveredInv
  <2>6. QED
    BY <1>1, <2>5, StoreStutters
<1>5. QED
  BY <1>2, <1>3, <1>4

\* Steps that end a stream.
LEMMA StepsThatBreak ==
  ASSUME DeliveredInv, DeliveredInv', WholeInv',
         \/ FailToStart \/ IdleTimeout \/ ConnectivityChange
         \/ OnWriteStreamClose \/ LoseConnection
  PROVE  StoreStep
<1>1. UNCHANGED <<server, user, queue, cache>>
  BY DEF FailToStart, IdleTimeout, ConnectivityChange, OnWriteStreamClose,
         LoseConnection, documents, local
<1>2. responses' = <<>>
  BY DEF FailToStart, IdleTimeout, ConnectivityChange, OnWriteStreamClose,
         LoseConnection, CloseWithError, RestartNetwork, DropStream
<1>3. Len(responses') = 0 /\ handshake' \in BOOLEAN
  BY <1>2 DEF WholeInv, StreamInv
<1>4. Delivered \in Nat /\ Delivered' = 0
  BY <1>3 DEF DeliveredInv
<1>5. QED
  BY <1>1, <1>4, StoreBreaks

LEMMA StepsOfUsers ==
  ASSUME DeliveredInv', WholeInv', HandleCredentialChange \/ RestartApp
  PROVE  StoreStep
<1>1. UNCHANGED <<server, queue, cache>>
  BY DEF HandleCredentialChange, RestartApp, documents
<1>2. handshake' = FALSE
  BY DEF HandleCredentialChange, RestartApp, RestartNetwork, DropStream
<1>3. Delivered' = 0 /\ user' \in Credential
  BY <1>2 DEF DeliveredInv, WholeInv, OwnerInv, WorkInv
<1>4. QED
  BY <1>1, <1>3, StoreChanges

LEMMA StepOfServer ==
  ASSUME WholeInv, DeliveredInv, DeliveredInv', ApplyWrite
  PROVE  StoreStep
<1> DEFINE k == Len(responses) + 1
           m == Head(requests).mutation
<1>1. /\ handshake = TRUE /\ k \in 1..Len(pipeline) /\ Head(requests) = pipeline[k]
  BY StreamServed DEF WholeInv, ServerStep
<1>2. /\ user \in Credential /\ queue[user] \in Seq(Batch)
      /\ responses \in Seq(Nat) /\ Len(responses) \in Nat
      /\ k \in 1..Len(queue[user]) /\ Head(requests) = queue[user][k]
  BY <1>1, OpenStream
<1>3. /\ Store!PreconditionHolds(m, server[m.path])
      /\ server' = [server EXCEPT ![m.path] = Store!Merge(m, @)]
      /\ responses' = Append(responses, Head(requests).id)
      /\ UNCHANGED <<handshake, user, queue, cache>>
  BY DEF ApplyWrite, Receive, Allowed, local
<1>4. Len(responses') = k
  <2>1. IsSequence(responses)
    BY <1>2 DEF IsSequence
  <2>2. QED
    BY <1>3, <2>1, AppendFacts
<1>5. Delivered = Len(responses) /\ Delivered' = k
  BY <1>1, <1>3, <1>4 DEF DeliveredInv
<1>6. Delivered = k - 1 /\ m = queue[user][k].mutation
  BY <1>2, <1>5
<1> HIDE DEF k, m
<1>7. QED
  BY <1>2, <1>3, <1>5, <1>6, StoreDelivers

LEMMA StepOfAnswer ==
  ASSUME WholeInv, WholeInv', DeliveredInv, DeliveredInv', OnWriteStreamMutationResult
  PROVE  StoreStep
<1> DEFINE m == Head(pipeline).mutation
<1>1. /\ responses # <<>> /\ handshake = TRUE /\ responses' = Tail(responses)
      /\ queue' = [queue EXCEPT ![user] = Without(@, Head(pipeline))]
      /\ cache' = [cache EXCEPT ![m.path] = Store!Apply(m, @)]
      /\ UNCHANGED <<server, user, handshake>>
  BY DEF OnWriteStreamMutationResult, WholeInv, StreamInv
<1>2. /\ queue[user] # <<>> /\ Head(pipeline) = queue[user][1]
      /\ queue'[user] = Tail(queue[user])
  BY StreamResult DEF WholeInv
<1>3. /\ user \in Credential /\ queue \in [Credential -> Seq(Batch)]
      /\ queue' \in [Credential -> Seq(Batch)]
  BY DEF WholeInv, OwnerInv, WorkInv, QueueInv
<1>4. \A v \in Credential : v # user => queue'[v] = queue[v]
  BY <1>1, <1>3
<1>5. Delivered \in Nat /\ Delivered > 0 /\ Delivered' = Delivered - 1
  <2>1. IsSequence(responses)
    BY <1>1, OpenStream DEF IsSequence
  <2>2. Len(responses) \in Nat \ {0} /\ Len(responses') = Len(responses) - 1
    BY <1>1, <2>1, TailFacts
  <2>3. Delivered = Len(responses) /\ Delivered' = Len(responses')
    BY <1>1 DEF DeliveredInv
  <2>4. QED
    BY <2>2, <2>3
<1>6. m = queue[user][1].mutation
  BY <1>2
<1> HIDE DEF m
<1>7. QED
  BY <1>1, <1>2, <1>3, <1>4, <1>5, <1>6, StoreAcknowledges

LEMMA StepOfRefusal ==
  ASSUME WholeInv, WholeInv', RefusedInv, DeliveredInv, DeliveredInv', HandleWriteError
  PROVE  StoreStep
<1> DEFINE q == queue[user]
<1>1. /\ status = "permanent" /\ responses = <<>> /\ handshake = TRUE
      /\ queue' = [queue EXCEPT ![user] = Without(@, Head(pipeline))]
      /\ handshake' = FALSE
      /\ UNCHANGED <<server, user, cache>>
  BY DEF HandleWriteError, IsPermanentWriteError, CloseWithError, DropStream,
         documents, WholeInv, StreamInv
<1>2. Len(responses) = 0 /\ Len(responses) + 1 = 1
  BY <1>1
<1>3. /\ state = "open" /\ 1 \in 1..Len(q) /\ ~Allowed(q[1])
  BY <1>1, <1>2 DEF RefusedInv
<1>4. /\ user \in Credential /\ queue \in [Credential -> Seq(Batch)]
      /\ queue' \in [Credential -> Seq(Batch)] /\ q \in Seq(Batch) /\ Ascending(q)
  BY StreamQueue DEF WholeInv, OwnerInv, WorkInv, QueueInv
<1>5. q # <<>> /\ pipeline = HeadOf(q)
  BY <1>3 DEF WholeInv, StreamInv
<1>6. Head(pipeline) = q[1]
  BY <1>4, <1>5, HeadOfTail
<1>7. queue'[user] = Tail(q)
  BY <1>1, <1>4, <1>5, <1>6, WithoutFirst
<1>8. \A v \in Credential : v # user => queue'[v] = queue[v]
  BY <1>1, <1>4
<1>9. Delivered = 0 /\ Delivered' = 0
  BY <1>1, <1>2 DEF DeliveredInv
<1>10. user = NoUser
       \/ ~Store!PreconditionHolds(q[1].mutation, server[q[1].mutation.path])
  BY <1>3 DEF Allowed, WholeInv, OwnerInv, TokenOfQueuesOwner
<1>11. QED
  BY <1>1, <1>4, <1>5, <1>7, <1>8, <1>9, <1>10, StoreRejects

LEMMA StepOfWrite ==
  ASSUME WholeInv, WholeInv', LedgerInv, WriteMutations
  PROVE  StoreStep
<1> DEFINE b == [id |-> nextBatchId, mutation |-> Head(workQueue).mutation,
                 author |-> Head(workQueue).author]
<1>1. /\ workQueue # <<>> /\ Head(workQueue).kind = "write"
      /\ queue' = [queue EXCEPT ![user] = Append(@, b)]
      /\ responses' = responses /\ UNCHANGED <<server, user, cache>>
  BY DEF WriteMutations, TakeTask, documents
<1>2. /\ user \in Credential /\ queue \in [Credential -> Seq(Batch)]
      /\ queue' \in [Credential -> Seq(Batch)]
  BY DEF WholeInv, OwnerInv, WorkInv, QueueInv
<1>3. b \in Batch
  BY <1>1, WorkHead, KindsOfTask DEF WholeInv, OwnerInv, QueueInv, Batch
<1> HIDE DEF b
<1>4. /\ queue'[user] = Append(queue[user], b)
      /\ \A v \in Credential : v # user => queue'[v] = queue[v]
  BY <1>1, <1>2
<1>5. Len(queue[user]) + 1 <= MaxWrites
  <2>1. Len(queue[user]) + 1 <= written
    BY <1>1, <1>2, RoomForWrite DEF WholeInv
  <2>2. written \in Nat /\ written <= MaxWrites /\ MaxWrites \in Nat
        /\ Len(queue[user]) \in Nat
    BY <1>2, WriteStreamAssumption, LenProperties DEF LedgerInv
  <2>3. QED
    BY <2>1, <2>2
<1>6. Delivered' = Delivered
  BY <1>1 DEF Delivered
<1>7. QED
  BY <1>1, <1>2, <1>3, <1>4, <1>5, <1>6, StoreWrites

RefinementInv == WholeInv /\ LedgerInv /\ RefusedInv

LEMMA RefinementStep == RefinementInv /\ [Next]_vars => RefinementInv'
<1>1. WholeInv /\ [Next]_vars => WholeInv'
  BY WholeStep
<1>2. QED
  BY <1>1, LedgerStep, RefusedStep DEF RefinementInv, WholeInv

LEMMA EveryStep == RefinementInv /\ RefinementInv' /\ [Next]_vars => StoreStep
<1>1. SUFFICES ASSUME WholeInv, WholeInv', LedgerInv, RefusedInv, [Next]_vars
               PROVE  StoreStep
  BY DEF RefinementInv
<1>2. DeliveredInv /\ DeliveredInv'
  BY <1>1, DeliveredStep
<1>3. CASE \/ \E m \in AppWrite : WriteDocument(m)
           \/ AuthStep \/ MainStep \/ IgnoreToken
           \/ ResumeStartWithCredentials \/ BackoffElapses
           \/ AnswerHandshake \/ RefuseWrite
           \/ OnWriteStreamHandshakeComplete
           \/ UNCHANGED vars
  BY <1>1, <1>2, <1>3, StepsUnseen
<1>4. CASE \/ FailToStart \/ IdleTimeout \/ ConnectivityChange
           \/ OnWriteStreamClose \/ LoseConnection
  BY <1>1, <1>2, <1>4, StepsThatBreak
<1>5. CASE HandleCredentialChange \/ RestartApp
  BY <1>1, <1>2, <1>5, StepsOfUsers
<1>6. CASE ApplyWrite
  BY <1>1, <1>2, <1>6, StepOfServer
<1>7. CASE OnWriteStreamMutationResult
  BY <1>1, <1>2, <1>7, StepOfAnswer
<1>8. CASE HandleWriteError
  BY <1>1, <1>2, <1>8, StepOfRefusal
<1>9. CASE WriteMutations
  BY <1>1, <1>9, StepOfWrite
<1>10. QED
  BY <1>1, <1>3, <1>4, <1>5, <1>6, <1>7, <1>8, <1>9 DEF Next, WorkerStep, ServerStep

\* The write stream is the client that module Firestore describes: whatever the
\* order of tasks, answers, errors, lost connections, changes of user and
\* restarts, the documents and the queues change only as that module lets them
\* (remote_store.cc, sync_engine.cc, local_store.cc).
THEOREM StreamImplementsStore == Spec => ImplementsStore
<1>1. Init => RefinementInv
  <2>1. Init => WholeInv
    BY OwnerInit, LiveInit, StreamInit DEF WholeInv
  <2>2. Init => RefusedInv
    BY DEF Init, RefusedInv
  <2>3. QED
    BY <2>1, <2>2, LedgerInit DEF RefinementInv
<1>2. RefinementInv /\ RefinementInv' /\ [Next]_vars =>
        [\/ Store!Deliver(Here) \/ Store!Ack(Here) \/ Store!Reject(Here)
         \/ Store!BreakStream(Here)
         \/ \E m \in AppWrite : /\ Store!WriteLocally(Here, <<m>>)
                                /\ UNCHANGED <<server, user, Delivered, cache>>
         \/ \E u \in Credential : /\ Store!ChangeCredential(Here, u)
                                  /\ UNCHANGED <<server, queue, cache>>]_StoreVars
  BY EveryStep DEF StoreStep
<1>3. QED
  BY <1>1, <1>2, RefinementStep, PTL DEF Spec, ImplementsStore
=============================================================================
