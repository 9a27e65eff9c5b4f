---------------------------- MODULE ListeningProofs ----------------------------
(* Proofs about Listening, for every number of documents, listeners, writes,  *)
(* snapshots and mishaps: the online state tracker's assertions hold, no      *)
(* listener is left without an event, the page ends with the view, and no     *)
(* document of the view goes back to an earlier version.                      *)
EXTENDS Listening, InductionLemmas, SequenceTheorems, FiniteSetTheorems

-----------------------------------------------------------------------------
(* The online state                                                          *)

\* What the tracker's assertions rest on: a message of the watch stream finds
\* it started, a view has a stream, and a stream of which nothing is known yet
\* has the timer running.
TrackerInv ==
  /\ started \in BOOLEAN /\ listening \in BOOLEAN /\ timer \in BOOLEAN
  /\ subscribed \in BOOLEAN /\ failures \in Nat
  /\ online \in {"Unknown", "Online", "Offline"}
  /\ subscribed => started
  /\ watch # <<>> => started
  /\ listening => started
  /\ started /\ online = "Unknown" => timer
  /\ TrackerAssertions

LEMMA TrackerInit == Init => TrackerInv
<1> SUFFICES ASSUME Init PROVE TrackerInv
  OBVIOUS
<1>1. /\ started = FALSE /\ listening = FALSE /\ timer = FALSE /\ subscribed = FALSE
      /\ failures = 0 /\ watch = <<>> /\ online = "Unknown"
  BY DEF Init
<1>2. /\ failures \in Nat /\ online \in {"Unknown", "Online", "Offline"}
      /\ online # "Online"
  BY <1>1
<1>3. QED
  BY <1>1, <1>2, Zenon DEF TrackerInv, TrackerAssertions

LEMMA EmitKeepsListening ==
  ASSUME NEW changed, NEW cur, NEW on, EmitNewSnapshots(changed, cur, on)
  PROVE  listening' = listening
BY DEF EmitNewSnapshots, viewVars

LEMMA BroadcastKeepsListening ==
  ASSUME NEW on, SetAndBroadcast(on)
  PROVE  listening' = listening /\ online' = on
BY DEF SetAndBroadcast, viewVars

LEMMA TrackerStep == TrackerInv /\ [Next]_vars => TrackerInv'
<1> SUFFICES ASSUME TrackerInv, [Next]_vars PROVE TrackerInv'
  OBVIOUS
<1> USE DEF TrackerInv, TrackerAssertions, watchVars, onlineVars
<1>1. CASE FetchData
  BY <1>1 DEF FetchData
<1>2. CASE FetchDataAgain
  BY <1>2 DEF FetchDataAgain
<1>3. CASE ShowEvent
  BY <1>3 DEF ShowEvent
<1>4. CASE HandleAnswer
  <2>1. listening' = listening
    BY <1>4, EmitKeepsListening DEF HandleAnswer
  <2>2. QED
    BY <1>4, <2>1 DEF HandleAnswer
<1>5. CASE OnListened
  BY <1>5 DEF OnListened, BecomeOnline, viewVars
<1>6. CASE OnWatchSnapshot
  <2>1. listening' = listening
    BY <1>6, EmitKeepsListening DEF OnWatchSnapshot
  <2>2. QED
    BY <1>6, <2>1 DEF OnWatchSnapshot, BecomeOnline
<1>7. CASE OnListenRefused
  BY <1>7 DEF OnListenRefused, BecomeOnline
<1>8. CASE OnlineStateTimeout
  <2>1. /\ listening' = listening /\ online' = "Offline" /\ timer' = FALSE
        /\ UNCHANGED <<started, subscribed, watch, failures>> /\ started
    BY <1>8, BroadcastKeepsListening DEF OnlineStateTimeout
  <2>2. online' # "Unknown" /\ online' # "Online"
    BY <2>1
  <2>3. QED
    BY <2>1, <2>2, Zenon
<1>9. ASSUME NEW m \in Mutation, WriteLocally(m) PROVE TrackerInv'
  <2>1. listening' = listening
    BY <1>9, EmitKeepsListening DEF WriteLocally
  <2>2. QED
    BY <1>9, <2>1 DEF WriteLocally
<1>10. ASSUME NEW m \in Mutation, OtherWrites(m) PROVE TrackerInv'
  BY <1>10 DEF OtherWrites, viewVars
<1>11. CASE AnswerWrite
  BY <1>11 DEF AnswerWrite, viewVars
<1>12. CASE AcceptListen
  BY <1>12 DEF AcceptListen, viewVars
<1>13. CASE RefuseListen
  BY <1>13 DEF RefuseListen, viewVars
<1>14. CASE SendSnapshot
  BY <1>14 DEF SendSnapshot, viewVars
<1>15. CASE LoseAnswers
  BY <1>15 DEF LoseAnswers, viewVars
<1>16. CASE LoseWatchStream
  <2>1. listening' = listening
    BY <1>16, BroadcastKeepsListening
       DEF LoseWatchStream, HandleWatchStreamFailure
  <2>2. watch' = <<>> /\ subscribed' = FALSE /\ started' = listening
    BY <1>16 DEF LoseWatchStream, ForgetStream
  <2>3. CASE listening /\ online = "Online"
    <3>1. online' = "Unknown" /\ timer' = TRUE /\ failures' = failures /\ failures = 0
      BY <1>16, <2>3, BroadcastKeepsListening
         DEF LoseWatchStream, HandleWatchStreamFailure
    <3>2. online' # "Online"
      BY <3>1
    <3>3. QED
      BY <2>1, <2>2, <2>3, <3>1, <3>2, Zenon
  <2>4. CASE listening /\ online # "Online"
    <3>1. online' = "Offline" /\ timer' = FALSE /\ failures' = failures + 1
      BY <1>16, <2>4, BroadcastKeepsListening
         DEF LoseWatchStream, HandleWatchStreamFailure
    <3>2. online' # "Online" /\ online' # "Unknown" /\ failures' \in Nat
      BY <3>1
    <3>3. QED
      BY <2>1, <2>2, <2>4, <3>1, <3>2, Zenon
  <2>5. CASE ~listening
    <3>1. online' = "Unknown" /\ timer' = FALSE /\ failures' = 0
      BY <1>16, <2>5, BroadcastKeepsListening DEF LoseWatchStream
    <3>2. online' # "Online" /\ failures' \in Nat
      BY <3>1
    <3>3. QED
      BY <2>1, <2>2, <2>5, <3>1, <3>2, Zenon
  <2>6. QED
    BY <2>3, <2>4, <2>5
<1>17. CASE RestartNetwork
  <2>1. listening' = listening /\ online' = "Unknown"
    BY <1>17, BroadcastKeepsListening DEF RestartNetwork
  <2>2. QED
    BY <1>17, <2>1 DEF RestartNetwork, ForgetStream
<1>18. CASE UNCHANGED vars
  BY <1>18 DEF vars, viewVars
<1>19. QED
  BY <1>1, <1>2, <1>3, <1>4, <1>5, <1>6, <1>7, <1>8, <1>9, <1>10, <1>11, <1>12,
     <1>13, <1>14, <1>15, <1>16, <1>17, <1>18 DEF Next, DeviceStep

\* The assertions of OnlineStateTracker hold whatever the server, the network
\* and the page do.
THEOREM TrackerSound == Spec => []TrackerAssertions
<1>1. TrackerInv => TrackerAssertions
  BY DEF TrackerInv
<1>2. QED
  BY <1>1, TrackerInit, TrackerStep, PTL DEF Spec

-----------------------------------------------------------------------------
(* The listeners                                                             *)

IsSequence(q) == \E S : q \in Seq(S)

\* Events follow those that wait already.
LEMMA AppendCopies ==
  ASSUME NEW q, IsSequence(q), NEW e, NEW n \in Nat
  PROVE  LET r == q \o [i \in 1..n |-> e]
         IN /\ IsSequence(r)
            /\ n = 0 => r = q
            /\ n > 0 => r # <<>> /\ Last(r) = e
<1>1. PICK S : q \in Seq(S)
  BY DEF IsSequence
<1> DEFINE T == S \cup {e}
           es == [i \in 1..n |-> e]
           r == q \o es
<1>2. q \in Seq(T) /\ es \in Seq(T) /\ Len(es) = n
  BY <1>1
<1>3. /\ r \in Seq(T) /\ Len(r) = Len(q) + n
      /\ \A i \in 1..Len(r) : r[i] = IF i <= Len(q) THEN q[i] ELSE es[i - Len(q)]
  BY <1>2, ConcatProperties
<1>4. n = 0 => r = q
  <2>1. SUFFICES ASSUME n = 0 PROVE r = q
    OBVIOUS
  <2>2. Len(r) = Len(q) /\ \A i \in 1..Len(q) : r[i] = q[i]
    BY <1>2, <1>3, <2>1
  <2>3. QED
    BY <1>2, <1>3, <2>2, SeqEqual
<1>5. n > 0 => r # <<>> /\ Last(r) = e
  <2>1. SUFFICES ASSUME n > 0 PROVE r # <<>> /\ Last(r) = e
    OBVIOUS
  <2>2. Len(q) \in Nat /\ Len(r) \in 1..Len(r) /\ ~(Len(r) <= Len(q))
        /\ Len(r) - Len(q) \in 1..n
    BY <1>2, <1>3, <2>1
  <2>3. r[Len(r)] = e
    BY <1>3, <2>2
  <2>4. QED
    BY <1>3, <2>1, <2>2, <2>3 DEF Last
<1>6. IsSequence(r)
  BY <1>3 DEF IsSequence
<1>7. QED
  BY <1>4, <1>5, <1>6

\* What the listeners hear of a snapshot.
LEMMA RaiseEffect ==
  ASSUME raised \in Seq(BOOLEAN), IsSequence(mainQueue),
         NEW docs, NEW cur \in BOOLEAN, NEW on, NEW changed \in BOOLEAN,
         Raise(docs, cur, on, changed)
  PROVE  LET first == ShouldRaiseInitialEvent(docs, cur, on)
             Hears(i) == IF raised[i] THEN changed ELSE first
         IN /\ raised' \in Seq(BOOLEAN) /\ Len(raised') = Len(raised)
            /\ \A i \in 1..Len(raised) : raised'[i] = (raised[i] \/ first)
            /\ IsSequence(mainQueue')
            /\ (\A i \in 1..Len(raised) : ~Hears(i)) => mainQueue' = mainQueue
            /\ (\E i \in 1..Len(raised) : Hears(i)) =>
                 mainQueue' # <<>> /\ Last(mainQueue') = Contents(docs)
<1> DEFINE first == ShouldRaiseInitialEvent(docs, cur, on)
           Hears(i) == IF raised[i] THEN changed ELSE first
           hears == {i \in 1..Len(raised) : Hears(i)}
           n == Cardinality(hears)
<1>1. Len(raised) \in Nat /\ first \in BOOLEAN
  BY DEF ShouldRaiseInitialEvent
<1>2. /\ raised' = [i \in 1..Len(raised) |-> raised[i] \/ first]
      /\ mainQueue' = mainQueue \o [i \in 1..n |-> Contents(docs)]
  BY DEF Raise
<1>3. /\ raised' \in Seq(BOOLEAN) /\ Len(raised') = Len(raised)
      /\ \A i \in 1..Len(raised) : raised'[i] = (raised[i] \/ first)
  <2>1. \A i \in 1..Len(raised) : (raised[i] \/ first) \in BOOLEAN
    OBVIOUS
  <2> HIDE DEF first
  <2>2. QED
    BY <1>1, <1>2, <2>1
<1>4. IsFiniteSet(hears)
  <2>1. IsFiniteSet(1..Len(raised)) /\ hears \in SUBSET (1..Len(raised))
    BY <1>1, FS_Interval
  <2> HIDE DEF hears
  <2>2. QED
    BY <2>1, FS_Subset
<1>5. n \in Nat /\ (hears = {} <=> n = 0)
  BY <1>4, FS_CardinalityType, FS_EmptySet
<1> HIDE DEF n, hears
<1>6. /\ IsSequence(mainQueue')
      /\ n = 0 => mainQueue' = mainQueue
      /\ n > 0 => mainQueue' # <<>> /\ Last(mainQueue') = Contents(docs)
  <2> DEFINE r == mainQueue \o [i \in 1..n |-> Contents(docs)]
  <2>1. /\ IsSequence(r)
        /\ n = 0 => r = mainQueue
        /\ n > 0 => r # <<>> /\ Last(r) = Contents(docs)
    BY <1>5, AppendCopies, Zenon
  <2>2. mainQueue' = r
    BY <1>2
  <2> HIDE DEF r
  <2>3. QED
    BY <2>1, <2>2
<1>7. /\ (\A i \in 1..Len(raised) : ~Hears(i)) => hears = {}
      /\ (\E i \in 1..Len(raised) : Hears(i)) => hears # {}
  BY DEF hears
<1>8. QED
  BY <1>3, <1>5, <1>6, <1>7

\* Nobody who has heard nothing has something to hear.
NothingIsHeldBack ==
  listening =>
    \A i \in 1..Len(raised) : ~raised[i] =>
      IsEmpty(shown) /\ ~current /\ online # "Offline"

\* Who may still have to wait is helped by the server or by the timer, so that
\* this is all that a step has to preserve.
LEMMA NobodyForgotten == TrackerInv /\ NothingIsHeldBack => NobodyIsForgotten
BY DEF TrackerInv, NothingIsHeldBack, NobodyIsForgotten

ListenersInv ==
  /\ TrackerInv
  /\ current \in BOOLEAN
  /\ raised \in Seq(BOOLEAN)
  /\ IsSequence(mainQueue)
  /\ PageCatchesUp
  /\ NothingIsHeldBack

\* A snapshot that is raised leaves the page's last event at the view, whether
\* it was there before or the view has changed.
LEMMA RaiseCatchesUp ==
  ASSUME raised \in Seq(BOOLEAN), IsSequence(mainQueue), PageCatchesUp, listening,
         NEW docs, NEW cur \in BOOLEAN, NEW on, NEW changed \in BOOLEAN,
         changed = (Contents(docs) # Contents(shown)),
         shown' = docs, UNCHANGED <<listening, page>>,
         Raise(docs, cur, on, changed)
  PROVE  /\ PageCatchesUp'
         /\ raised' \in Seq(BOOLEAN) /\ IsSequence(mainQueue')
         /\ Len(raised') = Len(raised)
         /\ \A i \in 1..Len(raised) :
              raised'[i] = (raised[i] \/ ShouldRaiseInitialEvent(docs, cur, on))
<1> DEFINE first == ShouldRaiseInitialEvent(docs, cur, on)
           Hears(i) == IF raised[i] THEN changed ELSE first
<1>1. /\ raised' \in Seq(BOOLEAN) /\ Len(raised') = Len(raised)
      /\ \A i \in 1..Len(raised) : raised'[i] = (raised[i] \/ first)
      /\ IsSequence(mainQueue')
      /\ (\A i \in 1..Len(raised) : ~Hears(i)) => mainQueue' = mainQueue
      /\ (\E i \in 1..Len(raised) : Hears(i)) =>
           mainQueue' # <<>> /\ Last(mainQueue') = Contents(docs)
  BY RaiseEffect
<1>2. PageCatchesUp'
  <2>1. SUFFICES ASSUME NEW i \in 1..Len(raised), raised'[i]
                 PROVE  Contents(docs) =
                          IF mainQueue' = <<>> THEN page' ELSE Last(mainQueue')
    BY <1>1 DEF PageCatchesUp, Contents
  <2>2. CASE \E j \in 1..Len(raised) : Hears(j)
    BY <1>1, <2>2
  <2>3. CASE \A j \in 1..Len(raised) : ~Hears(j)
    <3>1. raised[i] /\ ~changed /\ mainQueue' = mainQueue
      BY <1>1, <2>1, <2>3
    <3>2. QED
      BY <3>1 DEF PageCatchesUp
  <2>4. QED
    BY <2>2, <2>3
<1>3. QED
  BY <1>1, <1>2

\* A step that leaves listeners and events alone.
LEMMA ViewUnchanged ==
  ASSUME ListenersInv, UNCHANGED viewVars, page' = page
  PROVE  /\ current' \in BOOLEAN /\ raised' \in Seq(BOOLEAN)
         /\ IsSequence(mainQueue') /\ PageCatchesUp'
         /\ online' # "Offline" \/ online' = online => NothingIsHeldBack'
BY DEF ListenersInv, PageCatchesUp, NothingIsHeldBack, Contents, IsEmpty, viewVars

LEMMA EmitStep ==
  ASSUME ListenersInv, NEW changed, NEW cur \in BOOLEAN, NEW on,
         EmitNewSnapshots(changed, cur, on), online' = on, page' = page,
         on # "Offline" \/ on = online
  PROVE  /\ current' \in BOOLEAN /\ raised' \in Seq(BOOLEAN)
         /\ IsSequence(mainQueue') /\ PageCatchesUp' /\ NothingIsHeldBack'
<1>1. CASE ~listening
  BY <1>1, ViewUnchanged DEF EmitNewSnapshots
<1>2. CASE listening
  <2>1. PICK new : /\ shown' = new /\ current' = cur /\ listening' = listening
                   /\ Raise(new, cur, on, Contents(new) # Contents(shown))
    BY <1>2 DEF EmitNewSnapshots
  <2> DEFINE differs == Contents(new) # Contents(shown)
  <2>2. differs \in BOOLEAN /\ differs = (Contents(new) # Contents(shown))
    OBVIOUS
  <2>3. Raise(new, cur, on, differs)
    BY <2>1
  <2> HIDE DEF differs
  <2>4. /\ PageCatchesUp'
        /\ raised' \in Seq(BOOLEAN) /\ IsSequence(mainQueue')
        /\ Len(raised') = Len(raised)
        /\ \A i \in 1..Len(raised) :
             raised'[i] = (raised[i] \/ ShouldRaiseInitialEvent(new, cur, on))
    BY <1>2, <2>1, <2>2, <2>3, RaiseCatchesUp DEF ListenersInv
  <2>5. NothingIsHeldBack'
    BY <2>1, <2>4 DEF NothingIsHeldBack, ShouldRaiseInitialEvent, IsEmpty
  <2>6. QED
    BY <2>1, <2>4, <2>5
<1>3. QED
  BY <1>1, <1>2

LEMMA BroadcastStep ==
  ASSUME ListenersInv, NEW on, SetAndBroadcast(on), page' = page
  PROVE  /\ current' \in BOOLEAN /\ raised' \in Seq(BOOLEAN)
         /\ IsSequence(mainQueue') /\ PageCatchesUp' /\ NothingIsHeldBack'
<1>1. CASE ~listening \/ on = online
  <2>1. UNCHANGED viewVars /\ online' = on
    BY <1>1 DEF SetAndBroadcast
  <2>2. ~listening => NothingIsHeldBack'
    BY <2>1 DEF NothingIsHeldBack, viewVars
  <2>3. QED
    BY <1>1, <2>1, <2>2, ViewUnchanged
<1>2. CASE listening /\ on # online
  <2>1. /\ online' = on /\ shown' = shown /\ listening' = listening
        /\ current' = (current /\ on # "Offline")
        /\ Raise(shown, current', on, FALSE)
    BY <1>2 DEF SetAndBroadcast
  <2>2. current' \in BOOLEAN
    BY <2>1
  <2>3. FALSE = (Contents(shown) # Contents(shown)) /\ FALSE \in BOOLEAN
    OBVIOUS
  <2>4. /\ PageCatchesUp'
        /\ raised' \in Seq(BOOLEAN) /\ IsSequence(mainQueue')
        /\ Len(raised') = Len(raised)
        /\ \A i \in 1..Len(raised) : raised'[i] =
             (raised[i] \/ ShouldRaiseInitialEvent(shown, current', on))
    BY <1>2, <2>1, <2>2, <2>3, RaiseCatchesUp DEF ListenersInv
  <2>5. NothingIsHeldBack'
    BY <2>1, <2>4 DEF NothingIsHeldBack, ShouldRaiseInitialEvent, IsEmpty
  <2>6. QED
    BY <2>2, <2>4, <2>5
<1>3. QED
  BY <1>1, <1>2

LEMMA ListenersInit == Init => ListenersInv
<1> SUFFICES ASSUME Init PROVE ListenersInv
  OBVIOUS
<1>1. raised \in Seq(BOOLEAN) /\ mainQueue \in Seq({})
  BY DEF Init
<1>2. QED
  BY <1>1, TrackerInit
     DEF Init, ListenersInv, IsSequence, PageCatchesUp, NothingIsHeldBack

\* The page appears: what it is told at once is the view.
LEMMA AppendEvent ==
  ASSUME NEW q, IsSequence(q), NEW e
  PROVE  IsSequence(Append(q, e)) /\ Append(q, e) # <<>> /\ Last(Append(q, e)) = e
<1>1. PICK S : q \in Seq(S)
  BY DEF IsSequence
<1>2. q \in Seq(S \cup {e}) /\ e \in S \cup {e}
  BY <1>1
<1>3. /\ Append(q, e) \in Seq(S \cup {e}) /\ Append(q, e) # <<>>
      /\ Len(Append(q, e)) = Len(q) + 1 /\ Append(q, e)[Len(q) + 1] = e
  BY <1>2, AppendProperties
<1>4. Last(Append(q, e)) = e
  BY <1>3 DEF Last
<1>5. QED
  BY <1>3, <1>4 DEF IsSequence

LEMMA FetchDataStep ==
  ASSUME ListenersInv, FetchData
  PROVE  /\ current' \in BOOLEAN /\ raised' \in Seq(BOOLEAN)
         /\ IsSequence(mainQueue') /\ PageCatchesUp' /\ NothingIsHeldBack'
<1> DEFINE first == ShouldRaiseInitialEvent(shown', FALSE, online)
<1>1. /\ raised' = <<first>> /\ current' = FALSE /\ page' = page /\ online' = online
      /\ mainQueue' = IF raised'[1] THEN Append(mainQueue, Contents(shown'))
                      ELSE mainQueue
  BY DEF FetchData, onlineVars
<1>2. first \in BOOLEAN
  BY DEF ShouldRaiseInitialEvent
<1>3. ~first => IsEmpty(shown') /\ online # "Offline"
  BY DEF ShouldRaiseInitialEvent
<1> HIDE DEF first
<1>4. raised' \in Seq(BOOLEAN) /\ Len(raised') = 1 /\ raised'[1] = first
  BY <1>1, <1>2
<1>5. /\ IsSequence(mainQueue')
      /\ first => mainQueue' # <<>> /\ Last(mainQueue') = Contents(shown')
  BY <1>1, <1>4, AppendEvent DEF ListenersInv
<1>6. PageCatchesUp'
  BY <1>4, <1>5 DEF PageCatchesUp, Contents
<1>7. NothingIsHeldBack'
  BY <1>1, <1>3, <1>4 DEF NothingIsHeldBack, IsEmpty
<1>8. QED
  BY <1>1, <1>4, <1>5, <1>6, <1>7

LEMMA FetchDataAgainStep ==
  ASSUME ListenersInv, FetchDataAgain
  PROVE  /\ current' \in BOOLEAN /\ raised' \in Seq(BOOLEAN)
         /\ IsSequence(mainQueue') /\ PageCatchesUp' /\ NothingIsHeldBack'
<1> DEFINE first == ShouldRaiseInitialEvent(shown, current, online)
<1>1. /\ raised' = Append(raised, first) /\ listening
      /\ UNCHANGED <<listening, shown, current, page, online>>
      /\ mainQueue' = IF first THEN Append(mainQueue, Contents(shown)) ELSE mainQueue
  BY DEF FetchDataAgain, AddListener, onlineVars
<1>2. first \in BOOLEAN /\ (~first => IsEmpty(shown) /\ ~current /\ online # "Offline")
  BY DEF ShouldRaiseInitialEvent, ListenersInv
<1> HIDE DEF first
<1>3. /\ raised \in Seq(BOOLEAN) /\ raised' \in Seq(BOOLEAN)
      /\ Len(raised') = Len(raised) + 1 /\ raised'[Len(raised')] = first
      /\ \A i \in 1..Len(raised) : raised'[i] = raised[i]
  BY <1>1, <1>2, AppendProperties DEF ListenersInv
<1>4. \A i \in 1..Len(raised') : i \in 1..Len(raised) \/ i = Len(raised')
  BY <1>3
<1>5. /\ IsSequence(mainQueue')
      /\ first => mainQueue' # <<>> /\ Last(mainQueue') = Contents(shown)
  BY <1>1, AppendEvent DEF ListenersInv
<1>6. PageCatchesUp'
  <2>1. CASE first
    BY <1>1, <1>5, <2>1 DEF PageCatchesUp, Contents
  <2>2. CASE ~first
    BY <1>1, <1>3, <1>4, <2>2 DEF ListenersInv, PageCatchesUp, Contents
  <2>3. QED
    BY <2>1, <2>2
<1>7. NothingIsHeldBack'
  BY <1>1, <1>2, <1>3, <1>4 DEF ListenersInv, NothingIsHeldBack, IsEmpty
<1>8. QED
  BY <1>1, <1>3, <1>5, <1>6, <1>7 DEF ListenersInv

LEMMA ShowEventStep ==
  ASSUME ListenersInv, ShowEvent
  PROVE  /\ current' \in BOOLEAN /\ raised' \in Seq(BOOLEAN)
         /\ IsSequence(mainQueue') /\ PageCatchesUp' /\ NothingIsHeldBack'
<1>1. /\ mainQueue # <<>> /\ page' = Head(mainQueue) /\ mainQueue' = Tail(mainQueue)
      /\ UNCHANGED <<listening, shown, current, raised, online>>
  BY DEF ShowEvent, onlineVars
<1>2. PICK S : mainQueue \in Seq(S)
  BY DEF ListenersInv, IsSequence
<1>3. Tail(mainQueue) \in Seq(S) /\ Len(mainQueue) \in Nat \ {0}
      /\ Len(Tail(mainQueue)) = Len(mainQueue) - 1
      /\ \A i \in 1..Len(Tail(mainQueue)) : Tail(mainQueue)[i] = mainQueue[i + 1]
  BY <1>1, <1>2, HeadTailProperties
<1>4. Last(mainQueue) = IF Tail(mainQueue) = <<>> THEN Head(mainQueue)
                        ELSE Last(Tail(mainQueue))
  <2>1. CASE Len(mainQueue) = 1
    <3>1. Tail(mainQueue) = <<>> /\ Head(mainQueue) = mainQueue[1]
      BY <1>1, <1>2, <1>3, <2>1
    <3>2. QED
      BY <2>1, <3>1 DEF Last
  <2>2. CASE Len(mainQueue) > 1
    <3> DEFINE n == Len(mainQueue)
               m == Len(Tail(mainQueue))
    <3>1. Tail(mainQueue) # <<>> /\ m \in 1..m
      <4>1. n \in Nat /\ m = n - 1 /\ n > 1
        BY <1>3, <2>2
      <4> HIDE DEF n, m
      <4>2. m \in 1..m /\ m # 0
        BY <4>1
      <4>3. QED
        BY <1>3, <4>2, EmptySeq, Zenon DEF m
    <3>2. Tail(mainQueue)[Len(Tail(mainQueue))] = mainQueue[Len(mainQueue)]
      BY <1>3, <3>1
    <3>3. QED
      BY <3>1, <3>2 DEF Last
  <2>3. QED
    BY <1>3, <2>1, <2>2
<1>5. PageCatchesUp'
  BY <1>1, <1>4 DEF ListenersInv, PageCatchesUp, Contents
<1>6. QED
  BY <1>1, <1>3, <1>5 DEF ListenersInv, NothingIsHeldBack, IsEmpty, IsSequence

LEMMA ListenersStep == ListenersInv /\ [Next]_vars => ListenersInv'
<1> SUFFICES ASSUME ListenersInv, [Next]_vars
             PROVE  /\ current' \in BOOLEAN /\ raised' \in Seq(BOOLEAN)
                    /\ IsSequence(mainQueue') /\ PageCatchesUp' /\ NothingIsHeldBack'
  BY TrackerStep DEF ListenersInv, IsSequence
<1> USE DEF onlineVars
<1>1. CASE FetchData
  BY <1>1, FetchDataStep
<1>2. CASE FetchDataAgain
  BY <1>2, FetchDataAgainStep
<1>3. CASE ShowEvent
  BY <1>3, ShowEventStep
<1>4. CASE HandleAnswer
  <2>1. /\ \E changed : EmitNewSnapshots(changed, current, online)
        /\ online' = online /\ page' = page
    BY <1>4 DEF HandleAnswer
  <2>2. QED
    BY <2>1, EmitStep DEF ListenersInv
<1>5. CASE OnListened
  <2>1. UNCHANGED viewVars /\ page' = page /\ online' # "Offline"
    BY <1>5 DEF OnListened, BecomeOnline
  <2>2. QED
    BY <2>1, ViewUnchanged
<1>6. CASE OnWatchSnapshot
  <2>1. /\ \E changed : EmitNewSnapshots(changed, TRUE, "Online")
        /\ online' = "Online" /\ page' = page
    BY <1>6 DEF OnWatchSnapshot, BecomeOnline
  <2>2. QED
    BY <2>1, EmitStep
<1>7. CASE OnListenRefused
  <2>1. listening' = FALSE /\ raised' = <<>> /\ current' = FALSE
        /\ mainQueue' = mainQueue
    BY <1>7 DEF OnListenRefused
  <2>2. raised' \in Seq(BOOLEAN) /\ current' \in BOOLEAN
    <3>1. raised' \in Seq(BOOLEAN)
      BY <2>1, EmptySeq, Zenon
    <3>2. QED
      BY <2>1, <3>1, Zenon
  <2>3. IsSequence(mainQueue')
    BY <2>1 DEF ListenersInv
  <2>4. PageCatchesUp' /\ NothingIsHeldBack'
    BY <2>1 DEF PageCatchesUp, NothingIsHeldBack
  <2>5. QED
    BY <2>2, <2>3, <2>4
<1>8. CASE OnlineStateTimeout
  BY <1>8, BroadcastStep DEF OnlineStateTimeout
<1>9. ASSUME NEW m \in Mutation, WriteLocally(m)
      PROVE  /\ current' \in BOOLEAN /\ raised' \in Seq(BOOLEAN)
             /\ IsSequence(mainQueue') /\ PageCatchesUp' /\ NothingIsHeldBack'
  <2>1. /\ EmitNewSnapshots({m.path}, current, online)
        /\ online' = online /\ page' = page
    BY <1>9 DEF WriteLocally
  <2>2. QED
    BY <2>1, EmitStep DEF ListenersInv
<1>10. ASSUME NEW m \in Mutation, OtherWrites(m)
       PROVE  /\ current' \in BOOLEAN /\ raised' \in Seq(BOOLEAN)
              /\ IsSequence(mainQueue') /\ PageCatchesUp' /\ NothingIsHeldBack'
  BY <1>10, ViewUnchanged DEF OtherWrites
<1>11. CASE AnswerWrite
  BY <1>11, ViewUnchanged DEF AnswerWrite
<1>12. CASE AcceptListen
  BY <1>12, ViewUnchanged DEF AcceptListen
<1>13. CASE RefuseListen
  BY <1>13, ViewUnchanged DEF RefuseListen
<1>14. CASE SendSnapshot
  BY <1>14, ViewUnchanged DEF SendSnapshot
<1>15. CASE LoseAnswers
  BY <1>15, ViewUnchanged DEF LoseAnswers
<1>16. CASE LoseWatchStream
  <2>1. page' = page /\ \E on : SetAndBroadcast(on)
    BY <1>16 DEF LoseWatchStream, HandleWatchStreamFailure
  <2>2. QED
    BY <2>1, BroadcastStep
<1>17. CASE RestartNetwork
  BY <1>17, BroadcastStep DEF RestartNetwork
<1>18. CASE UNCHANGED vars
  BY <1>18, ViewUnchanged DEF vars
<1>19. QED
  BY <1>1, <1>2, <1>3, <1>4, <1>5, <1>6, <1>7, <1>8, <1>9, <1>10, <1>11, <1>12,
     <1>13, <1>14, <1>15, <1>16, <1>17, <1>18, ViewUnchanged DEF Next, DeviceStep

\* However many listeners a page has added, and whatever of snapshots, writes
\* and changes of the online state they hear of, the last event on its way to
\* the page is the view.
THEOREM PageCatches == Spec => []PageCatchesUp
<1>1. ListenersInv => PageCatchesUp
  BY DEF ListenersInv
<1>2. QED
  BY <1>1, ListenersInit, ListenersStep, PTL DEF Spec

\* A listener without an event is one that the server's answer or the timer of
\* the online state will give one.
THEOREM NobodyWaitsForNothing == Spec => []NobodyIsForgotten
<1>1. ListenersInv => NobodyIsForgotten
  BY NobodyForgotten DEF ListenersInv
<1>2. QED
  BY <1>1, ListenersInit, ListenersStep, PTL DEF Spec

-----------------------------------------------------------------------------
(* The local view of a document                                              *)

\* What the mutations of the queue can make of what is cached of a document:
\* it is not lost, and keeps its version; one that was not known has none.
LocalOf(cached) ==
  {e \in Entry :
     IF cached.doc = NoDoc THEN e.doc # NoDoc => e.version = 0
     ELSE e.doc # NoDoc /\ e.version = cached.version}

LEMMA EntryFields ==
  ASSUME NEW e \in Entry
  PROVE  /\ e.doc \in Doc \cup {NoDoc} /\ e.version \in Nat
         /\ e.state \in {"synced", "committed", "local"}
BY DEF Entry

LEMMA MutationFields ==
  ASSUME NEW m \in Mutation
  PROVE  m.op \in {"set", "join"} /\ m.path \in Path /\ m.items \in SUBSET Item
<1>1. m \in [op : {"set", "join"}, path : Path, items : SUBSET Item]
  BY ListeningAssumption
<1> QED
  BY <1>1

LEMMA ApplyType ==
  ASSUME NEW m \in Mutation, NEW doc \in Doc \cup {NoDoc}
  PROVE  /\ Apply(m, doc) \in Doc \cup {NoDoc}
         /\ doc # NoDoc \/ m.op # "join" => Apply(m, doc) # NoDoc
<1>1. NoDoc \notin Doc
  BY ListeningAssumption
<1>2. CASE m.op = "set"
  <2>1. Apply(m, doc) = [items |-> m.items]
    BY <1>2 DEF Apply
  <2>2. Apply(m, doc) \in Doc
    BY <2>1, MutationFields DEF Doc
  <2> QED
    BY <1>1, <2>2
<1>3. CASE m.op = "join"
  <2>1. Apply(m, doc) = IF doc = NoDoc THEN NoDoc
                        ELSE [items |-> doc.items \cup m.items]
    BY <1>3 DEF Apply
  <2>2. doc # NoDoc => doc.items \in SUBSET Item
    BY DEF Doc
  <2>3. doc # NoDoc => Apply(m, doc) \in Doc
    BY <2>1, <2>2, MutationFields DEF Doc
  <2> QED
    BY <1>1, <1>3, <2>1, <2>3
<1> QED
  BY <1>2, <1>3, MutationFields

LEMMA OverlayStays ==
  ASSUME NEW cached, NEW e \in LocalOf(cached), NEW m \in Mutation
  PROVE  Overlay(e, m) \in LocalOf(cached)
<1> DEFINE doc == Apply(m, e.doc)
           v == IF e.doc = NoDoc THEN 0 ELSE e.version
<1>1. /\ e \in Entry
      /\ cached.doc = NoDoc => (e.doc # NoDoc => e.version = 0)
      /\ cached.doc # NoDoc => e.doc # NoDoc /\ e.version = cached.version
  BY DEF LocalOf
<1>2. doc \in Doc \cup {NoDoc} /\ v \in Nat
  BY <1>1, EntryFields, ApplyType
<1>3. CASE doc = NoDoc
  BY <1>3 DEF Overlay
<1>4. CASE doc # NoDoc
  <2> HIDE DEF doc, v
  <2> DEFINE r == [doc |-> doc, state |-> "local", version |-> v]
  <2>1. Overlay(e, m) = r
    BY <1>4 DEF Overlay, doc, v
  <2>2. r \in Entry
    BY <1>2 DEF Entry
  <2>3. r.doc = doc /\ r.version = v
    OBVIOUS
  <2>4. IF cached.doc = NoDoc THEN r.doc # NoDoc => r.version = 0
        ELSE r.doc # NoDoc /\ r.version = cached.version
    BY <1>1, <1>4, <2>3 DEF v
  <2> QED
    BY <2>1, <2>2, <2>4 DEF LocalOf
<1> QED
  BY <1>3, <1>4

LEMMA LocalViewStays ==
  ASSUME NEW c \in [Path -> Entry], NEW q \in Seq(Mutation), NEW p \in Path
  PROVE  LocalView(c, q, p) \in LocalOf(c[p])
<1> DEFINE N == Len(q)
           S == LocalOf(c[p])
           I == SUBSET (1..N)
           OverlayOfPath(e, m) == IF m.path = p THEN Overlay(e, m) ELSE e
           h == [n \in 1..N |-> [e \in S |-> OverlayOfPath(e, q[n])]]
           Folds(it) == it = [s \in I |-> IF s = {} THEN c[p]
                                ELSE OverlayOfPath(it[s \ {Max(s)}], q[Max(s)])]
           f == CHOOSE it : Folds(it)
<1>1. N \in Nat /\ \A n \in 1..N : q[n] \in Mutation
  OBVIOUS
<1>2. c[p] \in S
  BY DEF LocalOf
<1>3. ASSUME NEW n \in 1..N, NEW e \in S
      PROVE  OverlayOfPath(e, q[n]) \in S
  BY <1>1, OverlayStays
<1>4. h \in [1..N -> [S -> S]]
  <2> HIDE DEF OverlayOfPath, S, N
  <2> QED
    BY <1>3
<1>5. PICK it \in [I -> S] :
        \A s \in I : it[s] = IF s = {} THEN c[p] ELSE h[Max(s)][it[s \ {Max(s)}]]
  <2> HIDE DEF h, N, S
  <2>1. \E it : IsFold(it, N, S, c[p], h)
    BY <1>1, <1>2, <1>4, FoldExists
  <2> QED
    BY <2>1 DEF IsFold
<1>6. Folds(it)
  <2>1. ASSUME NEW s \in I
        PROVE  it[s] = IF s = {} THEN c[p]
                       ELSE OverlayOfPath(it[s \ {Max(s)}], q[Max(s)])
    <3>1. CASE s = {}
      BY <1>5, <3>1
    <3>2. CASE s # {}
      <4>1. Max(s) \in 1..N
        BY <1>1, <3>2, GreatestIndex
      <4>2. s \ {Max(s)} \in I
        OBVIOUS
      <4>3. it[s \ {Max(s)}] \in S
        BY <1>5, <4>2
      <4>4. h[Max(s)][it[s \ {Max(s)}]]
              = OverlayOfPath(it[s \ {Max(s)}], q[Max(s)])
        <5> HIDE DEF OverlayOfPath, S
        <5> QED
          BY <4>1, <4>3
      <4> QED
        BY <1>5, <3>2, <4>4
    <3> QED
      BY <3>1, <3>2
  <2>2. it = [s \in I |-> it[s]]
    BY <1>5
  <2> HIDE DEF I, OverlayOfPath
  <2> QED
    BY <2>1, <2>2
<1>7. Folds(f)
  <2> HIDE DEF Folds
  <2> QED
    BY <1>6
<1>8. LocalView(c, q, p) = f[1..N]
  <2>1. DOMAIN q = 1..N
    OBVIOUS
  <2> QED
    BY <2>1 DEF LocalView, FoldLeft, MapThenFoldSet
<1>9. ASSUME NEW s \in I
      PROVE  /\ s = {} => f[s] = c[p]
             /\ s # {} /\ f[s \ {Max(s)}] \in S =>
                  f[s] = h[Max(s)][f[s \ {Max(s)}]]
  <2>1. s # {} => Max(s) \in 1..N
    BY <1>1, GreatestIndex
  <2>2. f[s] = IF s = {} THEN c[p]
               ELSE OverlayOfPath(f[s \ {Max(s)}], q[Max(s)])
    <3> HIDE DEF f, OverlayOfPath
    <3> QED
      BY <1>7
  <2> HIDE DEF f, S, OverlayOfPath
  <2> QED
    BY <2>1, <2>2
<1>10. PICK w : IsRun(w, N, S, c[p], h) /\ w[N] = f[1..N]
  <2> HIDE DEF f, h, N, S
  <2>1. FoldsBy(f, N, S, c[p], h)
    BY <1>9 DEF FoldsBy
  <2>2. \E w : IsRun(w, N, S, c[p], h) /\ w[N] = f[1..N]
    BY <1>1, <1>2, <1>4, <2>1, FoldRuns
  <2> QED
    BY <2>2
<1>11. w \in [0..N -> S] /\ N \in 0..N
  BY <1>1, <1>10 DEF IsRun
<1> QED
  BY <1>8, <1>10, <1>11

-----------------------------------------------------------------------------
(* Types and versions.  The invariant comes in parts, for the server, the    *)
(* writes, the cache, the watch stream, the view and the online state.       *)

\* What the server has not got was never changed.
ServerInv ==
  /\ server \in AllContents /\ version \in [Path -> 0..MaxCommits]
  /\ commits \in 1..MaxCommits
  /\ \A p \in Path : version[p] <= commits
  /\ \A p \in Path : server[p] = NoDoc => version[p] = 0

\* An answer is not later than the document that it is about.
AnswersInv ==
  /\ queue \in Seq(Mutation) /\ answers \in Seq(0..MaxCommits)
  /\ Len(answers) <= Len(queue)
  /\ \A i \in 1..Len(answers) : answers[i] <= version[queue[i].path]

CacheInv ==
  cache \in [Path -> Entry] /\ \A p \in Path : cache[p].version <= version[p]

\* A snapshot is not later than the server, and has no version of what is not
\* there.
WatchedInv(w) ==
  \/ w.kind = "added" \/ w.kind = "refused"
  \/ /\ w.docs \in AllContents /\ w.versions \in [Path -> Nat]
     /\ \A p \in Path : /\ w.versions[p] <= version[p]
                        /\ w.docs[p] = NoDoc => w.versions[p] = 0

StreamInv ==
  /\ IsSequence(watch)
  /\ \A i \in 1..Len(watch) : WatchedInv(watch[i])
  /\ sent \in 0..MaxCommits + 1

\* What is shown of a document is a write of this device alone, or no later
\* than what is cached of it.
ShownOf(e, c) ==
  e.doc # NoDoc => e.version = 0 \/ (c.doc # NoDoc /\ e.version <= c.version)

ViewInv ==
  /\ shown \in [Path -> Entry] /\ listening \in BOOLEAN /\ current \in BOOLEAN
  /\ raised \in Seq(BOOLEAN) /\ mainQueue \in Seq(AllContents)
  /\ \A p \in Path : ShownOf(shown[p], cache[p])

OnlineInv ==
  /\ {started, subscribed, timer} \subseteq BOOLEAN
  /\ online \in {"Unknown", "Online", "Offline"}
  /\ mishaps \in 0..MaxMishaps /\ failures \in 0..mishaps

VersionsInv ==
  /\ ServerInv /\ AnswersInv /\ CacheInv /\ StreamInv /\ ViewInv /\ OnlineInv
  /\ page \in AllContents

LEMMA VersionsType == VersionsInv => TypeOK
<1> SUFFICES ASSUME VersionsInv PROVE TypeOK
  OBVIOUS
<1>1. failures \in 0..MaxMishaps
  <2>1. MaxMishaps \in Nat
    BY ListeningAssumption
  <2> QED
    BY <2>1 DEF VersionsInv, OnlineInv
<1>2. \A p \in Path : cache[p].version <= version[p] /\ version[p] <= commits
  BY DEF VersionsInv, ServerInv, CacheInv
<1>3. {started, subscribed, timer, listening, current} \subseteq BOOLEAN
  BY DEF VersionsInv, OnlineInv, ViewInv
<1> QED
  BY <1>1, <1>2, <1>3
     DEF TypeOK, VersionsInv, ServerInv, AnswersInv, CacheInv, StreamInv, ViewInv,
         OnlineInv

LEMMA UnknownEntry == Unknown \in Entry /\ Unknown.doc = NoDoc /\ Unknown.version = 0
BY DEF Unknown, Entry

LEMMA VersionsInit == Init => VersionsInv
<1> SUFFICES ASSUME Init PROVE VersionsInv
  OBVIOUS
<1> USE DEF Init
<1>0. MaxCommits \in Nat /\ MaxCommits > 0 /\ MaxMishaps \in Nat
  BY ListeningAssumption
<1>1. ServerInv
  <2>1. \A p \in Path : version[p] = IF server[p] = NoDoc THEN 0 ELSE 1
    OBVIOUS
  <2> QED
    BY <1>0, <2>1 DEF ServerInv, AllContents
<1>2. AnswersInv
  BY DEF AnswersInv
<1>3. CacheInv
  <2>1. \A p \in Path : cache[p] = Unknown
    OBVIOUS
  <2>2. \A p \in Path : version[p] \in 0..MaxCommits
    BY <1>1 DEF ServerInv
  <2> QED
    BY <1>0, <2>1, <2>2, UnknownEntry DEF CacheInv
<1>4. StreamInv
  <2>1. watch \in Seq({})
    OBVIOUS
  <2> QED
    BY <1>0, <2>1 DEF StreamInv, IsSequence
<1>5. ViewInv
  <2>1. shown \in [Path -> Entry] /\ \A p \in Path : shown[p] = Unknown
    BY UnknownEntry
  <2>2. \A p \in Path : ShownOf(shown[p], cache[p])
    BY <2>1, UnknownEntry DEF ShownOf
  <2>3. raised \in Seq(BOOLEAN) /\ mainQueue \in Seq(AllContents)
    BY EmptySeq
  <2>4. listening \in BOOLEAN /\ current \in BOOLEAN
    BY Zenon
  <2> QED
    BY <2>1, <2>2, <2>3, <2>4, Zenon DEF ViewInv
<1>6. OnlineInv
  <2>1. started \in BOOLEAN /\ subscribed \in BOOLEAN /\ timer \in BOOLEAN
    BY Zenon
  <2>2. online \in {"Unknown", "Online", "Offline"}
    OBVIOUS
  <2>3. mishaps \in 0..MaxMishaps /\ failures \in 0..mishaps
    BY <1>0
  <2> QED
    BY <2>1, <2>2, <2>3, Zenon DEF OnlineInv
<1> QED
  BY <1>1, <1>2, <1>3, <1>4, <1>5, <1>6 DEF VersionsInv, AllContents

-----------------------------------------------------------------------------
(* The server *)

VersionsGrow == \A p \in Path : version[p] <= version'[p]

\* A change that is not refused makes the document, or keeps it, with the
\* version that follows all others.
LEMMA CommitStep ==
  ASSUME ServerInv, NEW m \in Mutation, Commit(m), ~IsRefused(m), commits < MaxCommits
  PROVE  /\ ServerInv' /\ VersionsGrow
         /\ version'[m.path] = commits + 1 /\ commits + 1 \in 0..MaxCommits
<1>1. /\ m.path \in Path /\ MaxCommits \in Nat /\ commits \in Nat
      /\ m.op \in {"set", "join"}
  BY MutationFields, ListeningAssumption DEF ServerInv
<1>2. /\ server \in [Path -> Doc \cup {NoDoc}] /\ version \in [Path -> 0..MaxCommits]
      /\ \A p \in Path : version[p] \in Nat /\ version[p] <= commits
  BY DEF ServerInv, AllContents
<1>3. /\ Apply(m, server[m.path]) \in Doc \cup {NoDoc}
      /\ Apply(m, server[m.path]) # NoDoc
  BY <1>1, <1>2, ApplyType DEF IsRefused
<1>4. /\ server' \in [Path -> Doc \cup {NoDoc}]
      /\ \A p \in Path : server'[p] = IF p = m.path THEN Apply(m, server[m.path])
                                      ELSE server[p]
  BY <1>1, <1>2, <1>3 DEF Commit
<1>5. commits' = commits + 1 /\ commits + 1 \in 1..MaxCommits /\ commits + 1 \in 0..MaxCommits
  BY <1>1 DEF Commit
<1>6. /\ version' \in [Path -> 0..MaxCommits]
      /\ \A p \in Path : version'[p] = IF p = m.path THEN commits + 1 ELSE version[p]
  BY <1>1, <1>2, <1>5 DEF Commit
<1>7. VersionsGrow
  BY <1>1, <1>2, <1>6 DEF VersionsGrow
<1>8. \A p \in Path : version'[p] <= commits'
  BY <1>1, <1>2, <1>5, <1>6
<1>9. \A p \in Path : server'[p] = NoDoc => version'[p] = 0
  BY <1>3, <1>4, <1>6 DEF ServerInv
<1> QED
  BY <1>1, <1>4, <1>5, <1>6, <1>7, <1>8, <1>9 DEF ServerInv, AllContents

\* Whatever the device knows stays true when the server goes on.
LEMMA ServerGoesOn ==
  ASSUME VersionsInv, VersionsGrow, version' \in [Path -> 0..MaxCommits]
  PROVE  /\ queue' = queue /\ answers' = answers => AnswersInv'
         /\ cache' = cache => CacheInv'
         /\ watch' = watch /\ sent' = sent => StreamInv'
<1>0. /\ \A p \in Path : version[p] \in Nat /\ version'[p] \in Nat
      /\ \A p \in Path : version[p] <= version'[p]
  BY ListeningAssumption DEF VersionsInv, ServerInv, VersionsGrow
<1>1. ASSUME queue' = queue, answers' = answers PROVE AnswersInv'
  <2>1. ASSUME NEW i \in 1..Len(answers) PROVE answers[i] <= version'[queue[i].path]
    <3>1. /\ answers[i] \in Nat /\ queue[i] \in Mutation
          /\ answers[i] <= version[queue[i].path]
      BY ListeningAssumption DEF VersionsInv, AnswersInv
    <3>2. queue[i].path \in Path
      BY <3>1, MutationFields
    <3> QED
      BY <1>0, <3>1, <3>2
  <2> QED
    BY <1>1, <2>1 DEF VersionsInv, AnswersInv
<1>2. ASSUME cache' = cache PROVE CacheInv'
  <2>1. \A p \in Path : cache[p].version \in Nat /\ cache[p].version <= version[p]
    BY EntryFields DEF VersionsInv, CacheInv
  <2>2. \A p \in Path : cache[p].version <= version'[p]
    BY <1>0, <2>1
  <2> QED
    BY <1>2, <2>2 DEF VersionsInv, CacheInv
<1>3. ASSUME watch' = watch, sent' = sent PROVE StreamInv'
  <2>1. ASSUME NEW w, WatchedInv(w) PROVE WatchedInv(w)'
    <3>1. CASE w.kind = "added" \/ w.kind = "refused"
      BY <3>1 DEF WatchedInv
    <3>2. CASE ~(w.kind = "added" \/ w.kind = "refused")
      <4>1. /\ w.docs \in AllContents /\ w.versions \in [Path -> Nat]
            /\ \A p \in Path : /\ w.versions[p] <= version[p]
                               /\ w.docs[p] = NoDoc => w.versions[p] = 0
        BY <2>1, <3>2 DEF WatchedInv
      <4>2. \A p \in Path : w.versions[p] <= version'[p]
        BY <1>0, <4>1
      <4> QED
        BY <4>1, <4>2 DEF WatchedInv
    <3> QED
      BY <3>1, <3>2
  <2> QED
    BY <1>3, <2>1 DEF VersionsInv, StreamInv
<1> QED
  BY <1>1, <1>2, <1>3

-----------------------------------------------------------------------------
(* The view *)

LEMMA ContentsType ==
  ASSUME NEW docs \in [Path -> Entry]
  PROVE  Contents(docs) \in AllContents
<1>1. \A p \in Path : docs[p].doc \in Doc \cup {NoDoc}
  BY EntryFields
<1> QED
  BY <1>1 DEF Contents, AllContents

LEMMA RaiseTypes ==
  ASSUME raised \in Seq(BOOLEAN), mainQueue \in Seq(AllContents),
         NEW docs \in [Path -> Entry], NEW cur \in BOOLEAN, NEW on,
         NEW changed \in BOOLEAN, Raise(docs, cur, on, changed)
  PROVE  raised' \in Seq(BOOLEAN) /\ mainQueue' \in Seq(AllContents)
<1> DEFINE first == ShouldRaiseInitialEvent(docs, cur, on)
           hears == {i \in 1..Len(raised) : IF raised[i] THEN changed ELSE first}
           n == Cardinality(hears)
<1>1. raised' \in Seq(BOOLEAN)
  <2>1. IsSequence(mainQueue)
    BY DEF IsSequence
  <2> QED
    BY <2>1, RaiseEffect
<1>2. n \in Nat
  <2>1. IsFiniteSet(1..Len(raised)) /\ hears \in SUBSET (1..Len(raised))
    BY FS_Interval
  <2> HIDE DEF hears
  <2>2. IsFiniteSet(hears)
    BY <2>1, FS_Subset
  <2> QED
    BY <2>2, FS_CardinalityType
<1>3. mainQueue' = mainQueue \o [i \in 1..n |-> Contents(docs)]
  BY DEF Raise
<1> HIDE DEF n
<1>4. Contents(docs) \in AllContents
  BY ContentsType
<1> DEFINE c == Contents(docs)
           events == [i \in 1..n |-> c]
<1>5. events \in Seq(AllContents)
  <2> HIDE DEF c
  <2>1. c \in AllContents
    BY <1>4 DEF c
  <2> QED
    BY <1>2, <2>1
<1>6. mainQueue \o events \in Seq(AllContents)
  <2> HIDE DEF events
  <2> QED
    BY <1>5
<1> QED
  BY <1>1, <1>3, <1>6

\* What is cached of a document is not lost, and not replaced by what is older.
CacheGrows ==
  \A p \in Path : cache[p].doc # NoDoc =>
    cache'[p].doc # NoDoc /\ cache[p].version <= cache'[p].version

ViewNeverOlder ==
  \A p \in Path : shown[p].doc # NoDoc /\ shown'[p].doc # NoDoc
                    => shown'[p].version >= shown[p].version

LEMMA ShownStays ==
  ASSUME VersionsInv, CacheGrows, cache' \in [Path -> Entry], NEW p \in Path
  PROVE  ShownOf(shown[p], cache'[p])
<1>1. shown[p] \in Entry /\ cache[p] \in Entry /\ cache'[p] \in Entry
  BY DEF VersionsInv, ViewInv, CacheInv
<1>2. shown[p].version \in Nat /\ cache[p].version \in Nat /\ cache'[p].version \in Nat
  BY <1>1, EntryFields
<1>3. ShownOf(shown[p], cache[p])
  BY DEF VersionsInv, ViewInv
<1> QED
  BY <1>2, <1>3 DEF ShownOf, CacheGrows

LEMMA ViewKept ==
  ASSUME VersionsInv, UNCHANGED viewVars, CacheGrows, cache' \in [Path -> Entry]
  PROVE  ViewInv' /\ ViewNeverOlder
<1>1. \A p \in Path : shown[p].version \in Nat
  BY EntryFields DEF VersionsInv, ViewInv
<1>2. \A p \in Path : ShownOf(shown'[p], cache'[p])
  BY ShownStays DEF viewVars
<1> QED
  BY <1>1, <1>2 DEF VersionsInv, ViewInv, ViewNeverOlder, viewVars

\* The local document that replaces one of the view is not older.
LEMMA LocalIsNews ==
  ASSUME VersionsInv, CacheGrows, cache' \in [Path -> Entry], queue' \in Seq(Mutation),
         NEW p \in Path, NEW e, e = LocalView(cache', queue', p)
  PROVE  /\ e \in Entry /\ ShownOf(e, cache'[p])
         /\ shown[p].doc # NoDoc /\ e.doc # NoDoc => e.version >= shown[p].version
<1>1. e \in LocalOf(cache'[p])
  <2> DEFINE c == cache'
             q == queue'
  <2>1. c \in [Path -> Entry] /\ q \in Seq(Mutation) /\ e = LocalView(c, q, p)
    OBVIOUS
  <2> HIDE DEF c, q
  <2>2. e \in LocalOf(c[p])
    BY <2>1, LocalViewStays
  <2> QED
    BY <2>2 DEF c
<1>2. /\ e \in Entry
      /\ cache'[p].doc = NoDoc => (e.doc # NoDoc => e.version = 0)
      /\ cache'[p].doc # NoDoc => e.doc # NoDoc /\ e.version = cache'[p].version
  BY <1>1 DEF LocalOf
<1>3. shown[p].version \in Nat /\ cache'[p].version \in Nat /\ e.version \in Nat
  BY <1>2, EntryFields DEF VersionsInv, ViewInv
<1>4. ShownOf(e, cache'[p])
  BY <1>2, <1>3 DEF ShownOf
<1>5. ShownOf(shown[p], cache'[p])
  BY ShownStays
<1> QED
  BY <1>2, <1>3, <1>4, <1>5 DEF ShownOf

LEMMA EmitView ==
  ASSUME VersionsInv, CacheGrows, cache' \in [Path -> Entry], queue' \in Seq(Mutation),
         NEW changed, NEW cur \in BOOLEAN, NEW on, EmitNewSnapshots(changed, cur, on)
  PROVE  ViewInv' /\ ViewNeverOlder
<1>1. CASE ~listening
  BY <1>1, ViewKept DEF EmitNewSnapshots
<1>2. CASE listening
  <2> DEFINE new == [p \in Path |->
        LET entry == LocalView(cache', queue', p)
        IN IF p \in changed /\ Changes(shown[p], entry) THEN entry ELSE shown[p]]
  <2>1. /\ shown' = new /\ current' = cur /\ listening' = listening
        /\ Raise(new, cur, on, Contents(new) # Contents(shown))
    BY <1>2 DEF EmitNewSnapshots
  <2>2. ASSUME NEW p \in Path
        PROVE  /\ new[p] \in Entry /\ ShownOf(new[p], cache'[p])
               /\ shown[p].doc # NoDoc /\ new[p].doc # NoDoc
                    => new[p].version >= shown[p].version
    <3>1. shown[p] \in Entry /\ shown[p].version \in Nat
      BY EntryFields DEF VersionsInv, ViewInv
    <3>2. PICK e : e = LocalView(cache', queue', p)
      OBVIOUS
    <3>3. new[p] = e \/ new[p] = shown[p]
      BY <3>2
    <3> HIDE DEF new
    <3> QED
      BY <3>1, <3>2, <3>3, LocalIsNews, ShownStays
  <2>3. new \in [Path -> Entry]
    <3>1. \A p \in Path : new[p] \in Entry
      BY <2>2
    <3> QED
      BY <3>1
  <2> DEFINE differs == Contents(new) # Contents(shown)
  <2>4. differs \in BOOLEAN
    OBVIOUS
  <2>5. Raise(new, cur, on, differs)
    BY <2>1
  <2> HIDE DEF new, differs
  <2>6. raised' \in Seq(BOOLEAN) /\ mainQueue' \in Seq(AllContents)
    BY <2>3, <2>4, <2>5, RaiseTypes DEF VersionsInv, ViewInv
  <2> QED
    BY <1>2, <2>1, <2>2, <2>3, <2>6 DEF ViewInv, ViewNeverOlder
<1> QED
  BY <1>1, <1>2

LEMMA BroadcastView ==
  ASSUME VersionsInv, cache' = cache, NEW on, SetAndBroadcast(on)
  PROVE  ViewInv' /\ ViewNeverOlder
<1>0. CacheGrows /\ cache' \in [Path -> Entry]
  <2>1. \A p \in Path : cache[p].version \in Nat
    BY EntryFields DEF VersionsInv, CacheInv
  <2> QED
    BY <2>1 DEF CacheGrows, VersionsInv, CacheInv
<1>1. CASE ~listening \/ on = online
  BY <1>0, <1>1, ViewKept DEF SetAndBroadcast
<1>2. CASE listening /\ on # online
  <2>1. /\ shown' = shown /\ listening' = listening
        /\ current' = (current /\ on # "Offline")
        /\ Raise(shown, current', on, FALSE)
    BY <1>2 DEF SetAndBroadcast
  <2>2. current' \in BOOLEAN /\ FALSE \in BOOLEAN
    BY <2>1
  <2>3. raised' \in Seq(BOOLEAN) /\ mainQueue' \in Seq(AllContents)
    BY <2>1, <2>2, RaiseTypes DEF VersionsInv, ViewInv
  <2>4. \A p \in Path : shown[p].version \in Nat
    BY EntryFields DEF VersionsInv, ViewInv
  <2> QED
    BY <1>2, <2>1, <2>2, <2>3, <2>4 DEF VersionsInv, ViewInv, ViewNeverOlder
<1> QED
  BY <1>1, <1>2

LEMMA FetchDataView ==
  ASSUME VersionsInv, FetchData
  PROVE  ViewInv'
<1>1. /\ listening' = TRUE /\ current' = FALSE /\ cache' = cache
      /\ shown' = [p \in Path |-> LocalView(cache, queue, p)]
      /\ raised' = <<ShouldRaiseInitialEvent(shown', FALSE, online)>>
      /\ mainQueue' = IF raised'[1] THEN Append(mainQueue, Contents(shown'))
                      ELSE mainQueue
  BY DEF FetchData
<1>2. ASSUME NEW p \in Path
      PROVE  LocalView(cache, queue, p) \in Entry
             /\ ShownOf(LocalView(cache, queue, p), cache[p])
  <2>1. PICK e : e = LocalView(cache, queue, p)
    OBVIOUS
  <2>2. e \in LocalOf(cache[p])
    BY <2>1, LocalViewStays DEF VersionsInv, CacheInv, AnswersInv
  <2>3. cache[p].version \in Nat
    BY EntryFields DEF VersionsInv, CacheInv
  <2> QED
    BY <2>1, <2>2, <2>3 DEF LocalOf, ShownOf
<1>3. shown' \in [Path -> Entry] /\ \A p \in Path : ShownOf(shown'[p], cache'[p])
  BY <1>1, <1>2
<1>4. Contents(shown') \in AllContents
  BY <1>3, ContentsType
<1>5. mainQueue' \in Seq(AllContents)
  BY <1>1, <1>4, AppendProperties DEF VersionsInv, ViewInv
<1>6. raised' \in Seq(BOOLEAN)
  <2> DEFINE first == ShouldRaiseInitialEvent(shown', FALSE, online)
  <2>1. first \in BOOLEAN /\ raised' = <<first>>
    BY <1>1 DEF ShouldRaiseInitialEvent
  <2> HIDE DEF first
  <2> QED
    BY <2>1
<1> QED
  BY <1>1, <1>3, <1>5, <1>6 DEF ViewInv

LEMMA FetchDataAgainView ==
  ASSUME VersionsInv, FetchDataAgain
  PROVE  ViewInv' /\ ViewNeverOlder
<1>1. /\ UNCHANGED <<listening, shown, current, cache>>
      /\ raised' = Append(raised, ShouldRaiseInitialEvent(shown, current, online))
      /\ mainQueue' = IF ShouldRaiseInitialEvent(shown, current, online)
                        THEN Append(mainQueue, Contents(shown)) ELSE mainQueue
  BY DEF FetchDataAgain, AddListener
<1>2. ShouldRaiseInitialEvent(shown, current, online) \in BOOLEAN
  BY DEF ShouldRaiseInitialEvent, VersionsInv, ViewInv
<1>3. Contents(shown) \in AllContents
  BY ContentsType DEF VersionsInv, ViewInv
<1>4. raised' \in Seq(BOOLEAN) /\ mainQueue' \in Seq(AllContents)
  BY <1>1, <1>2, <1>3, AppendProperties DEF VersionsInv, ViewInv
<1>5. \A p \in Path : shown[p].version \in Nat
  BY EntryFields DEF VersionsInv, ViewInv
<1> QED
  BY <1>1, <1>4, <1>5 DEF VersionsInv, ViewInv, ViewNeverOlder

-----------------------------------------------------------------------------
(* The steps *)

LEMMA CacheKept ==
  ASSUME VersionsInv, cache' = cache, version' = version
  PROVE  CacheInv' /\ CacheGrows /\ cache' \in [Path -> Entry]
<1>1. \A p \in Path : cache[p].version \in Nat
  BY EntryFields DEF VersionsInv, CacheInv
<1> QED
  BY <1>1 DEF CacheGrows, VersionsInv, CacheInv

\* The answer that is handled is the first, and those that follow stay with
\* their mutations.
LEMMA AnswerHandled ==
  ASSUME VersionsInv, answers # <<>>, queue' = Tail(queue), answers' = Tail(answers),
         version' = version
  PROVE  /\ AnswersInv' /\ Head(queue) \in Mutation
         /\ Head(answers) \in Nat /\ Head(answers) <= version[Head(queue).path]
<1>1. /\ queue \in Seq(Mutation) /\ answers \in Seq(0..MaxCommits)
      /\ Len(answers) <= Len(queue)
      /\ \A i \in 1..Len(answers) : answers[i] <= version[queue[i].path]
  BY DEF VersionsInv, AnswersInv
<1>2. queue # <<>> /\ Len(queue) \in Nat /\ Len(answers) \in Nat \ {0}
  BY <1>1
<1>3. /\ Head(queue) = queue[1] /\ Tail(queue) \in Seq(Mutation)
      /\ Len(Tail(queue)) = Len(queue) - 1
      /\ \A i \in 1..Len(Tail(queue)) : Tail(queue)[i] = queue[i + 1]
  BY <1>1, <1>2, HeadTailProperties
<1>4. /\ Head(answers) = answers[1] /\ Tail(answers) \in Seq(0..MaxCommits)
      /\ Len(Tail(answers)) = Len(answers) - 1
      /\ \A i \in 1..Len(Tail(answers)) : Tail(answers)[i] = answers[i + 1]
  BY <1>1, HeadTailProperties
<1>5. 1 \in 1..Len(answers) /\ 1 \in 1..Len(queue)
  BY <1>1, <1>2
<1>6. Head(queue) \in Mutation /\ Head(answers) \in 0..MaxCommits
      /\ Head(answers) <= version[Head(queue).path]
  <2> DEFINE V == 0..MaxCommits
  <2>1. queue[1] \in Mutation /\ answers[1] \in V
    <3>1. answers \in Seq(V)
      BY <1>1
    <3> HIDE DEF V
    <3>2. answers[1] \in V
      BY <1>5, <3>1
    <3>3. queue[1] \in Mutation
      BY <1>1, <1>5
    <3> QED
      BY <3>2, <3>3
  <2>2. answers[1] <= version[queue[1].path]
    BY <1>1, <1>5
  <2> QED
    BY <1>3, <1>4, <2>1, <2>2
<1>7. Len(Tail(answers)) <= Len(Tail(queue))
  BY <1>1, <1>2, <1>3, <1>4
<1>8. ASSUME NEW i \in 1..Len(Tail(answers))
      PROVE  Tail(answers)[i] <= version[Tail(queue)[i].path]
  <2>1. i \in 1..Len(Tail(queue)) /\ i + 1 \in 1..Len(answers)
    BY <1>1, <1>2, <1>3, <1>4
  <2> QED
    BY <1>1, <1>3, <1>4, <2>1
<1>9. AnswersInv'
  BY <1>3, <1>4, <1>7, <1>8 DEF AnswersInv
<1> QED
  BY <1>6, <1>9, ListeningAssumption

LEMMA CommittedCache ==
  ASSUME VersionsInv, NEW m \in Mutation, NEW v \in Nat, v <= version[m.path],
         version' = version,
         cache' = IF v = 0 THEN cache
                  ELSE [cache EXCEPT ![m.path] = Committed(@, m, v)]
  PROVE  CacheInv' /\ CacheGrows /\ cache' \in [Path -> Entry]
<1>1. CASE v = 0
  BY <1>1, CacheKept
<1>2. CASE v # 0
  <2> DEFINE old == cache[m.path]
             e == Committed(old, m, v)
  <2>1. m.path \in Path
    BY MutationFields
  <2>2. old \in Entry /\ old.version <= version[m.path] /\ version[m.path] \in Nat
    BY <2>1, ListeningAssumption DEF VersionsInv, CacheInv, ServerInv
  <2>3. old.doc \in Doc \cup {NoDoc} /\ old.version \in Nat
    BY <2>2, EntryFields
  <2>4. /\ e \in Entry /\ e.version <= version[m.path] /\ e.version \in Nat
        /\ old.doc # NoDoc => e.doc # NoDoc /\ old.version <= e.version
    <3>1. CASE old.version >= v
      <4>1. e = old
        BY <3>1 DEF Committed
      <4> HIDE DEF old, e
      <4> QED
        BY <2>2, <2>3, <4>1
    <3>2. CASE ~(old.version >= v)
      <4> DEFINE doc == Apply(m, old.doc)
      <4>1. e = [doc |-> doc, version |-> v, state |-> "committed"]
        BY <3>2 DEF Committed
      <4>2. doc \in Doc \cup {NoDoc} /\ (old.doc # NoDoc => doc # NoDoc)
        <5> HIDE DEF old
        <5> QED
          BY <2>3, ApplyType
      <4> HIDE DEF old, e, doc
      <4>3. e \in Entry /\ e.version = v /\ e.doc = doc
        BY <4>1, <4>2 DEF Entry
      <4> QED
        BY <2>3, <3>2, <4>2, <4>3
    <3> QED
      BY <3>1, <3>2
  <2>5. cache \in [Path -> Entry] /\ (\A p \in Path : cache[p].version <= version[p])
        /\ \A p \in Path : cache[p].version \in Nat
    BY EntryFields DEF VersionsInv, CacheInv
  <2>6. cache' = [cache EXCEPT ![m.path] = e]
    BY <1>2
  <2>7. \A p \in Path : cache'[p] = IF p = m.path THEN e ELSE cache[p]
    BY <2>5, <2>6
  <2> HIDE DEF e
  <2>8. cache' \in [Path -> Entry]
    BY <2>1, <2>4, <2>5, <2>6
  <2>9. CacheInv'
    BY <2>4, <2>5, <2>7, <2>8 DEF CacheInv
  <2>10. CacheGrows
    BY <2>4, <2>5, <2>7 DEF CacheGrows
  <2> QED
    BY <2>8, <2>9, <2>10
<1> QED
  BY <1>1, <1>2

\* A watched document is not missing, and not older than the one it replaces.
LEMMA WatchedCache ==
  ASSUME VersionsInv, NEW s, WatchedInv(s), s.kind = "snapshot", version' = version,
         cache' = [p \in Path |->
             IF p \in {pp \in Path : IsNews(cache[pp], s.versions[pp])}
               THEN [doc |-> s.docs[p], version |-> s.versions[p], state |-> "synced"]
               ELSE cache[p]]
  PROVE  CacheInv' /\ CacheGrows /\ cache' \in [Path -> Entry]
<1>0. /\ s.docs \in [Path -> Doc \cup {NoDoc}] /\ s.versions \in [Path -> Nat]
      /\ \A p \in Path : /\ s.versions[p] <= version[p]
                         /\ s.docs[p] = NoDoc => s.versions[p] = 0
  BY DEF WatchedInv, AllContents
<1>1. ASSUME NEW p \in Path
      PROVE  /\ cache'[p] \in Entry /\ cache'[p].version <= version[p]
             /\ cache[p].doc # NoDoc =>
                  cache'[p].doc # NoDoc /\ cache[p].version <= cache'[p].version
  <2>1. cache[p] \in Entry /\ cache[p].version \in Nat /\ cache[p].version <= version[p]
    BY EntryFields DEF VersionsInv, CacheInv
  <2>2. CASE IsNews(cache[p], s.versions[p])
    <3> DEFINE e == [doc |-> s.docs[p], version |-> s.versions[p], state |-> "synced"]
    <3>1. cache'[p] = e
      BY <2>2
    <3>2. e \in Entry /\ e.doc = s.docs[p] /\ e.version = s.versions[p]
      BY <1>0 DEF Entry
    <3> HIDE DEF e
    <3>3. s.versions[p] \in Nat /\ s.versions[p] > 0 /\ cache[p].version <= s.versions[p]
      BY <1>0, <2>1, <2>2 DEF IsNews
    <3> QED
      BY <1>0, <3>1, <3>2, <3>3
  <2>3. CASE ~IsNews(cache[p], s.versions[p])
    <3>1. cache'[p] = cache[p]
      BY <2>3
    <3> QED
      BY <2>1, <3>1
  <2> QED
    BY <2>2, <2>3
<1>2. cache' \in [Path -> Entry]
  <2> DEFINE c == cache'
  <2>1. c = [p \in Path |-> c[p]] /\ \A p \in Path : c[p] \in Entry
    BY <1>1
  <2> HIDE DEF c
  <2>2. c \in [Path -> Entry]
    BY <2>1
  <2> QED
    BY <2>2 DEF c
<1> QED
  BY <1>1, <1>2 DEF CacheInv, CacheGrows

\* Messages leave the stream at its head, and come at its end.
LEMMA WatchTail ==
  ASSUME VersionsInv, watch # <<>>, watch' = Tail(watch), version' = version, sent' = sent
  PROVE  StreamInv' /\ WatchedInv(Head(watch))
<1>1. PICK S : watch \in Seq(S)
  BY DEF VersionsInv, StreamInv, IsSequence
<1>2. /\ Head(watch) = watch[1] /\ Tail(watch) \in Seq(S) /\ Len(watch) \in Nat \ {0}
      /\ Len(Tail(watch)) = Len(watch) - 1
      /\ \A i \in 1..Len(Tail(watch)) : Tail(watch)[i] = watch[i + 1]
  BY <1>1, HeadTailProperties
<1>3. \A i \in 1..Len(Tail(watch)) : i + 1 \in 1..Len(watch)
  BY <1>2
<1>4. \A i \in 1..Len(watch) : WatchedInv(watch[i])
  BY DEF VersionsInv, StreamInv
<1>5. 1 \in 1..Len(watch)
  BY <1>2
<1>6. WatchedInv(Head(watch))
  BY <1>2, <1>4, <1>5
<1>7. \A i \in 1..Len(Tail(watch)) : WatchedInv(Tail(watch)[i])
  BY <1>2, <1>3, <1>4
<1>8. PICK w : w = Tail(watch)
  OBVIOUS
<1>9. \A i \in 1..Len(w) : WatchedInv(w[i])'
  BY <1>7, <1>8 DEF WatchedInv
<1> QED
  BY <1>2, <1>6, <1>8, <1>9 DEF StreamInv, IsSequence, VersionsInv

LEMMA WatchAppend ==
  ASSUME VersionsInv, NEW w, WatchedInv(w), watch' = Append(watch, w),
         version' = version, sent' \in 0..MaxCommits + 1
  PROVE  StreamInv'
<1>1. PICK S : watch \in Seq(S)
  BY DEF VersionsInv, StreamInv, IsSequence
<1>2. watch \in Seq(S \cup {w}) /\ w \in S \cup {w}
  BY <1>1
<1>3. /\ watch' \in Seq(S \cup {w}) /\ Len(watch) \in Nat /\ Len(watch') = Len(watch) + 1
      /\ watch'[Len(watch) + 1] = w
      /\ \A i \in 1..Len(watch) : watch'[i] = watch[i]
  BY <1>2, AppendProperties
<1>4. \A i \in 1..Len(watch') : i \in 1..Len(watch) \/ i = Len(watch) + 1
  BY <1>3
<1>5. \A i \in 1..Len(watch') : WatchedInv(watch'[i])
  BY <1>3, <1>4 DEF VersionsInv, StreamInv
<1>6. PICK all : all = watch'
  OBVIOUS
<1>7. \A i \in 1..Len(all) : WatchedInv(all[i])'
  BY <1>5, <1>6 DEF WatchedInv
<1> QED
  BY <1>3, <1>6, <1>7 DEF StreamInv, IsSequence

LEMMA StreamForgotten ==
  ASSUME VersionsInv, watch' = <<>>, sent' = 0
  PROVE  StreamInv'
<1>1. watch' \in Seq({}) /\ Len(watch') = 0
  BY EmptySeq
<1>2. sent' \in 0..MaxCommits + 1
  BY ListeningAssumption
<1> QED
  BY <1>1, <1>2 DEF StreamInv, IsSequence

LEMMA AnswersForgotten ==
  ASSUME VersionsInv, queue' = queue, answers' = <<>>
  PROVE  AnswersInv'
<1>1. answers' \in Seq(0..MaxCommits) /\ Len(answers') = 0 /\ Len(queue') \in Nat
  BY EmptySeq DEF VersionsInv, AnswersInv
<1> QED
  BY <1>1 DEF AnswersInv, VersionsInv

\* A step of the server alone.
LEMMA CommitOnly ==
  ASSUME VersionsInv, NEW m \in Mutation, Commit(m), ~IsRefused(m),
         commits < MaxCommits, UNCHANGED <<cache, watchVars, viewVars>>
  PROVE  /\ ServerInv' /\ CacheInv' /\ StreamInv' /\ ViewInv' /\ ViewNeverOlder
         /\ VersionsGrow /\ version' \in [Path -> 0..MaxCommits]
         /\ version'[m.path] = commits + 1 /\ commits + 1 \in 0..MaxCommits
<1>1. /\ ServerInv' /\ VersionsGrow /\ version'[m.path] = commits + 1
      /\ commits + 1 \in 0..MaxCommits
  BY CommitStep DEF VersionsInv
<1>2. version' \in [Path -> 0..MaxCommits]
  BY <1>1 DEF ServerInv
<1>3. CacheInv' /\ StreamInv'
  BY <1>1, <1>2, ServerGoesOn DEF watchVars
<1>4. CacheGrows /\ cache' \in [Path -> Entry]
  <2>1. \A p \in Path : cache[p].version \in Nat
    BY EntryFields DEF VersionsInv, CacheInv
  <2> QED
    BY <2>1 DEF CacheGrows, VersionsInv, CacheInv
<1>5. ViewInv' /\ ViewNeverOlder
  BY <1>4, ViewKept
<1> QED
  BY <1>1, <1>2, <1>3, <1>5

LEMMA AnswerWriteStep ==
  ASSUME VersionsInv, AnswerWrite
  PROVE  VersionsInv' /\ ViewNeverOlder
<1> DEFINE m == queue[Len(answers) + 1]
<1>1. /\ Len(answers) < Len(queue)
      /\ UNCHANGED <<queue, cache, watchVars, onlineVars, viewVars, page, mishaps>>
  BY DEF AnswerWrite
<1>2. /\ queue \in Seq(Mutation) /\ answers \in Seq(0..MaxCommits)
      /\ Len(answers) \in Nat /\ Len(queue) \in Nat
      /\ \A i \in 1..Len(answers) : answers[i] <= version[queue[i].path]
  BY DEF VersionsInv, AnswersInv
<1>3. m \in Mutation
  <2> DEFINE n == Len(answers) + 1
  <2>1. n \in 1..Len(queue)
    BY <1>1, <1>2
  <2> HIDE DEF n
  <2>2. queue[n] \in Mutation
    BY <1>2, <2>1
  <2> QED
    BY <2>2 DEF n
<1>4. OnlineInv' /\ page' \in AllContents
  BY <1>1 DEF VersionsInv, OnlineInv, watchVars, onlineVars
<1>5. CASE IsRefused(m)
  <2>1. answers' = Append(answers, 0) /\ UNCHANGED serverVars
    BY <1>5 DEF AnswerWrite
  <2>2. ServerInv' /\ CacheInv' /\ StreamInv'
    <3>1. VersionsGrow /\ version' \in [Path -> 0..MaxCommits]
      <4>1. \A p \in Path : version[p] \in Nat
        BY ListeningAssumption DEF VersionsInv, ServerInv
      <4> QED
        BY <2>1, <4>1 DEF VersionsGrow, VersionsInv, ServerInv, serverVars
    <3> QED
      BY <1>1, <2>1, <3>1, ServerGoesOn DEF VersionsInv, ServerInv, serverVars, watchVars
  <2>3. ViewInv' /\ ViewNeverOlder
    BY <1>1, <2>1, CacheKept, ViewKept DEF serverVars
  <2>4. AnswersInv'
    <3>1. 0 \in 0..MaxCommits
      BY ListeningAssumption
    <3>2. /\ answers' \in Seq(0..MaxCommits) /\ Len(answers') = Len(answers) + 1
          /\ answers'[Len(answers) + 1] = 0
          /\ \A i \in 1..Len(answers) : answers'[i] = answers[i]
      BY <1>2, <2>1, <3>1, AppendProperties
    <3>3. 0 <= version[m.path]
      BY <1>3, MutationFields, ListeningAssumption DEF VersionsInv, ServerInv
    <3>4. ASSUME NEW i \in 1..Len(answers')
          PROVE  answers'[i] <= version[queue[i].path]
      <4>1. i \in 1..Len(answers) \/ i = Len(answers) + 1
        BY <1>2, <3>2
      <4> QED
        BY <1>2, <3>2, <3>3, <4>1
    <3>5. version' = version /\ queue' = queue
      BY <1>1, <2>1 DEF serverVars
    <3>6. Len(answers') <= Len(queue')
      BY <1>1, <1>2, <3>2, <3>5
    <3> QED
      BY <1>2, <3>2, <3>4, <3>5, <3>6 DEF AnswersInv
  <2> QED
    BY <1>4, <2>2, <2>3, <2>4 DEF VersionsInv
<1>6. CASE ~IsRefused(m)
  <2>1. commits < MaxCommits /\ Commit(m) /\ answers' = Append(answers, commits + 1)
    BY <1>6 DEF AnswerWrite
  <2> HIDE DEF m
  <2>2. /\ ServerInv' /\ CacheInv' /\ StreamInv' /\ ViewInv' /\ ViewNeverOlder
        /\ VersionsGrow /\ version' \in [Path -> 0..MaxCommits]
        /\ version'[m.path] = commits + 1 /\ commits + 1 \in 0..MaxCommits
    BY <1>1, <1>3, <1>6, <2>1, CommitOnly
  <2>3. AnswersInv'
    <3>2. /\ answers' \in Seq(0..MaxCommits) /\ Len(answers') = Len(answers) + 1
          /\ answers'[Len(answers) + 1] = commits + 1
          /\ \A i \in 1..Len(answers) : answers'[i] = answers[i]
      BY <1>2, <2>1, <2>2, AppendProperties
    <3>3. commits + 1 <= version'[m.path]
      BY <2>2, ListeningAssumption
    <3>4. ASSUME NEW i \in 1..Len(answers)
          PROVE  answers'[i] <= version'[queue[i].path]
      <4>1. queue[i] \in Mutation /\ answers[i] \in Nat
        BY <1>1, <1>2, ListeningAssumption
      <4> DEFINE p == queue[i].path
      <4>2. p \in Path
        BY <4>1, MutationFields
      <4>3. answers[i] <= version[p] /\ version[p] <= version'[p]
        BY <1>2, <2>2, <4>2 DEF VersionsGrow
      <4>4. version[p] \in Nat /\ version'[p] \in Nat
        BY <2>2, <4>2, ListeningAssumption DEF VersionsInv, ServerInv
      <4>5. answers'[i] = answers[i]
        BY <3>2
      <4> HIDE DEF p
      <4>6. answers'[i] <= version'[p]
        BY <4>1, <4>3, <4>4, <4>5
      <4> QED
        BY <4>6 DEF p
    <3>5. ASSUME NEW i \in 1..Len(answers')
          PROVE  answers'[i] <= version'[queue[i].path]
      <4>1. i \in 1..Len(answers) \/ i = Len(answers) + 1
        BY <1>2, <3>2
      <4> QED
        BY <3>2, <3>3, <3>4, <4>1 DEF m
    <3>6. Len(answers') <= Len(queue') /\ queue' = queue
      BY <1>1, <1>2, <3>2
    <3> QED
      BY <1>2, <3>2, <3>5, <3>6 DEF AnswersInv
  <2> QED
    BY <1>4, <2>2, <2>3 DEF VersionsInv
<1> QED
  BY <1>5, <1>6

LEMMA VersionsStep ==
  VersionsInv /\ [Next]_vars => VersionsInv' /\ (listening /\ listening' => ViewNeverOlder)
<1> SUFFICES ASSUME VersionsInv, [Next]_vars
             PROVE  VersionsInv' /\ (listening /\ listening' => ViewNeverOlder)
  OBVIOUS
<1> USE DEF onlineVars, writeVars, serverVars, watchVars
(* What a step does not touch, stays. *)
<1>a. UNCHANGED serverVars => ServerInv'
  BY DEF VersionsInv, ServerInv
<1>b. UNCHANGED serverVars => VersionsGrow /\ version' \in [Path -> 0..MaxCommits]
  <2>1. \A p \in Path : version[p] \in Nat
    BY ListeningAssumption DEF VersionsInv, ServerInv
  <2> QED
    BY <2>1 DEF VersionsGrow, VersionsInv, ServerInv
<1>c. UNCHANGED <<serverVars, writeVars>> => AnswersInv'
  BY <1>b, ServerGoesOn
<1>d. UNCHANGED <<serverVars, cache>> =>
        CacheInv' /\ CacheGrows /\ cache' \in [Path -> Entry]
  BY CacheKept
<1>e. UNCHANGED <<serverVars, watch, sent>> => StreamInv'
  BY <1>b, ServerGoesOn
<1>f. UNCHANGED <<serverVars, cache, viewVars>> => ViewInv' /\ ViewNeverOlder
  BY <1>d, ViewKept
<1>g. /\ UNCHANGED <<started, subscribed, onlineVars, mishaps>> => OnlineInv'
      /\ started \in BOOLEAN /\ subscribed \in BOOLEAN /\ timer \in BOOLEAN
      /\ listening \in BOOLEAN
      /\ mishaps \in 0..MaxMishaps /\ failures \in 0..mishaps
      /\ online \in {"Unknown", "Online", "Offline"} /\ MaxMishaps \in Nat
  BY ListeningAssumption DEF VersionsInv, OnlineInv, ViewInv
<1>h. page \in AllContents
  BY DEF VersionsInv
<1>i. ASSUME /\ started' \in BOOLEAN /\ subscribed' \in BOOLEAN /\ timer' \in BOOLEAN
             /\ mishaps' \in 0..MaxMishaps /\ failures' \in 0..mishaps'
             /\ online' \in {"Unknown", "Online", "Offline"}
      PROVE  OnlineInv'
  BY <1>i, Zenon DEF OnlineInv
<1>j. Mishap => mishaps' \in 0..MaxMishaps /\ mishaps' = mishaps + 1
  BY <1>g DEF Mishap
<1>k. BecomeOnline => /\ online' \in {"Unknown", "Online", "Offline"}
                      /\ timer' \in BOOLEAN /\ failures' \in 0..mishaps
  <2> SUFFICES ASSUME BecomeOnline
               PROVE  /\ online' \in {"Unknown", "Online", "Offline"}
                      /\ timer' \in BOOLEAN /\ failures' \in 0..mishaps
    OBVIOUS
  <2>1. online' = "Online" /\ timer' = FALSE /\ failures' = 0
    BY DEF BecomeOnline
  <2>2. 0 \in 0..mishaps
    BY <1>g
  <2>3. timer' \in BOOLEAN
    BY <2>1, Zenon
  <2> QED
    BY <2>1, <2>2, <2>3
<1> DEFINE Goal == VersionsInv' /\ (listening /\ listening' => ViewNeverOlder)
<1>1. CASE FetchData
  <2>1. ~listening /\ UNCHANGED <<serverVars, writeVars, cache, watch, subscribed,
                                   sent, online, failures, page, mishaps>>
        /\ started' = TRUE /\ timer' = (timer \/ (~started /\ failures = 0))
    BY <1>1 DEF FetchData
  <2>2. OnlineInv'
    BY <1>g, <1>i, <2>1
  <2> QED
    BY <1>1, <1>a, <1>c, <1>d, <1>e, <1>h, <2>1, <2>2, FetchDataView DEF VersionsInv
<1>2. CASE FetchDataAgain
  BY <1>2, <1>a, <1>c, <1>d, <1>e, <1>g, <1>h, FetchDataAgainView
     DEF VersionsInv, FetchDataAgain
<1>3. CASE ShowEvent
  <2>1. /\ mainQueue # <<>> /\ page' = Head(mainQueue) /\ mainQueue' = Tail(mainQueue)
        /\ UNCHANGED <<serverVars, writeVars, cache, watchVars, onlineVars, listening,
                       shown, current, raised, mishaps>>
    BY <1>3 DEF ShowEvent
  <2>2. mainQueue' \in Seq(AllContents) /\ page' \in AllContents
    BY <2>1, HeadTailProperties DEF VersionsInv, ViewInv
  <2>3. \A p \in Path : shown[p].version \in Nat
    BY EntryFields DEF VersionsInv, ViewInv
  <2>4. ViewInv' /\ ViewNeverOlder
    BY <2>1, <2>2, <2>3 DEF VersionsInv, ViewInv, ViewNeverOlder
  <2> QED
    BY <1>a, <1>c, <1>d, <1>e, <1>g, <2>1, <2>2, <2>4 DEF VersionsInv
<1>4. CASE HandleAnswer
  <2> DEFINE m == Head(queue)
             v == Head(answers)
  <2>1. /\ answers # <<>> /\ queue' = Tail(queue) /\ answers' = Tail(answers)
        /\ cache' = IF v = 0 THEN cache
                    ELSE [cache EXCEPT ![m.path] = Committed(@, m, v)]
        /\ UNCHANGED <<serverVars, watchVars, onlineVars, page, mishaps>>
        /\ \E changed : EmitNewSnapshots(changed, current, online)
    BY <1>4 DEF HandleAnswer
  <2>2. /\ AnswersInv' /\ m \in Mutation /\ v \in Nat /\ v <= version[m.path]
    BY <2>1, AnswerHandled
  <2> HIDE DEF m, v
  <2>3. CacheInv' /\ CacheGrows /\ cache' \in [Path -> Entry]
    BY <2>1, <2>2, CommittedCache
  <2>4. queue' \in Seq(Mutation) /\ current \in BOOLEAN
    BY <2>2 DEF AnswersInv, VersionsInv, ViewInv
  <2>5. ViewInv' /\ ViewNeverOlder
    BY <2>1, <2>3, <2>4, EmitView
  <2> QED
    BY <1>a, <1>e, <1>g, <1>h, <2>1, <2>2, <2>3, <2>5 DEF VersionsInv
<1>5. CASE OnListened
  <2>1. /\ watch # <<>> /\ watch' = Tail(watch) /\ BecomeOnline
        /\ UNCHANGED <<serverVars, writeVars, cache, started, subscribed, sent,
                       viewVars, page, mishaps>>
    BY <1>5 DEF OnListened
  <2>2. StreamInv'
    BY <2>1, WatchTail
  <2>3. OnlineInv'
    BY <1>g, <1>i, <1>k, <2>1
  <2> QED
    BY <1>a, <1>c, <1>d, <1>f, <1>h, <2>1, <2>2, <2>3 DEF VersionsInv
<1>6. CASE OnWatchSnapshot
  <2>1. /\ watch # <<>> /\ Head(watch).kind = "snapshot" /\ watch' = Tail(watch)
        /\ BecomeOnline /\ queue' = queue
        /\ UNCHANGED <<serverVars, answers, started, subscribed, sent, page, mishaps>>
        /\ \E changed : EmitNewSnapshots(changed, TRUE, "Online")
    BY <1>6 DEF OnWatchSnapshot
  <2>2. StreamInv' /\ WatchedInv(Head(watch))
    BY <2>1, WatchTail
  <2>3. CacheInv' /\ CacheGrows /\ cache' \in [Path -> Entry]
    <3>1. PICK s : s = Head(watch)
      OBVIOUS
    <3>2. cache' = [p \in Path |->
             IF p \in {pp \in Path : IsNews(cache[pp], s.versions[pp])}
               THEN [doc |-> s.docs[p], version |-> s.versions[p], state |-> "synced"]
               ELSE cache[p]]
      BY <1>6, <3>1 DEF OnWatchSnapshot
    <3> QED
      BY <2>1, <2>2, <3>1, <3>2, WatchedCache
  <2>4. ViewInv' /\ ViewNeverOlder
    <3>1. queue' \in Seq(Mutation) /\ TRUE \in BOOLEAN
      BY <2>1 DEF VersionsInv, AnswersInv
    <3> QED
      BY <2>1, <2>3, <3>1, EmitView
  <2>5. OnlineInv'
    BY <1>g, <1>i, <1>k, <2>1
  <2> QED
    BY <1>a, <1>c, <1>h, <2>1, <2>2, <2>3, <2>4, <2>5 DEF VersionsInv
<1>7. CASE OnListenRefused
  <2>1. /\ watch # <<>> /\ watch' = Tail(watch) /\ BecomeOnline
        /\ listening' = FALSE /\ raised' = <<>> /\ current' = FALSE
        /\ shown' = [p \in Path |-> Unknown]
        /\ UNCHANGED <<serverVars, writeVars, cache, started, subscribed, sent,
                       mainQueue, page, mishaps>>
    BY <1>7 DEF OnListenRefused
  <2>2. StreamInv'
    BY <2>1, WatchTail
  <2>3. OnlineInv'
    BY <1>g, <1>i, <1>k, <2>1
  <2>4. ViewInv'
    <3>1. shown' \in [Path -> Entry] /\ \A p \in Path : ShownOf(shown'[p], cache'[p])
      BY <2>1, UnknownEntry DEF ShownOf
    <3>2. raised' \in Seq(BOOLEAN)
      BY <2>1, EmptySeq
    <3>3. listening' \in BOOLEAN /\ current' \in BOOLEAN
      BY <2>1, Zenon
    <3> QED
      BY <2>1, <3>1, <3>2, <3>3 DEF VersionsInv, ViewInv
  <2> QED
    BY <1>a, <1>c, <1>d, <1>h, <2>1, <2>2, <2>3, <2>4 DEF VersionsInv
<1>8. CASE OnlineStateTimeout
  <2>1. /\ timer' = FALSE /\ SetAndBroadcast("Offline")
        /\ UNCHANGED <<serverVars, writeVars, cache, watchVars, failures, page, mishaps>>
    BY <1>8 DEF OnlineStateTimeout
  <2>2. OnlineInv'
    BY <1>g, <1>i, <2>1, BroadcastKeepsListening
  <2> QED
    BY <1>a, <1>c, <1>d, <1>e, <1>h, <2>1, <2>2, BroadcastView DEF VersionsInv
<1>9. ASSUME NEW m \in Mutation, WriteLocally(m) PROVE Goal
  <2>1. /\ queue' = Append(queue, m) /\ cache' = cache
        /\ \E changed : EmitNewSnapshots(changed, current, online)
        /\ UNCHANGED <<serverVars, answers, watchVars, onlineVars, page, mishaps>>
    BY <1>9 DEF WriteLocally
  <2>2. /\ queue \in Seq(Mutation) /\ answers \in Seq(0..MaxCommits)
        /\ Len(answers) <= Len(queue)
        /\ \A i \in 1..Len(answers) : answers[i] <= version[queue[i].path]
    BY DEF VersionsInv, AnswersInv
  <2>3. /\ queue' \in Seq(Mutation) /\ Len(queue') = Len(queue) + 1
        /\ \A i \in 1..Len(queue) : queue'[i] = queue[i]
        /\ Len(queue) \in Nat /\ Len(answers) \in Nat
    BY <2>1, <2>2, AppendProperties
  <2>4. AnswersInv'
    <3>1. \A i \in 1..Len(answers) : i \in 1..Len(queue)
      BY <2>2, <2>3
    <3>2. Len(answers) <= Len(queue')
      BY <2>2, <2>3
    <3>3. version' = version /\ answers' = answers
      BY <2>1
    <3> QED
      BY <2>2, <2>3, <3>1, <3>2, <3>3 DEF AnswersInv
  <2>5. CacheInv' /\ CacheGrows /\ cache' \in [Path -> Entry]
    BY <1>d, <2>1
  <2>6. current \in BOOLEAN
    BY DEF VersionsInv, ViewInv
  <2>7. ViewInv' /\ ViewNeverOlder
    BY <2>1, <2>3, <2>5, <2>6, EmitView
  <2> QED
    BY <1>a, <1>e, <1>g, <1>h, <2>1, <2>4, <2>5, <2>7 DEF VersionsInv
<1>10. ASSUME NEW m \in Mutation, OtherWrites(m) PROVE Goal
  <2>1. /\ commits + Len(queue) - Len(answers) < MaxCommits /\ ~IsRefused(m) /\ Commit(m)
        /\ UNCHANGED <<writeVars, cache, watchVars, onlineVars, viewVars, page, mishaps>>
    BY <1>10 DEF OtherWrites
  <2>2. commits < MaxCommits
    <3>1. /\ Len(queue) \in Nat /\ Len(answers) \in Nat /\ commits \in Nat
          /\ MaxCommits \in Nat /\ Len(answers) <= Len(queue)
      BY ListeningAssumption DEF VersionsInv, ServerInv, AnswersInv
    <3> QED
      BY <2>1, <3>1
  <2>3. /\ ServerInv' /\ CacheInv' /\ StreamInv' /\ ViewInv' /\ ViewNeverOlder
        /\ VersionsGrow /\ version' \in [Path -> 0..MaxCommits]
    BY <2>1, <2>2, CommitOnly
  <2>4. AnswersInv'
    BY <2>1, <2>3, ServerGoesOn
  <2> QED
    BY <1>g, <1>h, <2>1, <2>3, <2>4 DEF VersionsInv
<1>11. CASE AnswerWrite
  BY <1>11, AnswerWriteStep
<1>12. CASE AcceptListen
  <2>1. /\ subscribed' = TRUE /\ watch' = Append(watch, Listened)
        /\ UNCHANGED <<serverVars, writeVars, cache, started, sent, onlineVars,
                       viewVars, page, mishaps>>
    BY <1>12 DEF AcceptListen
  <2>2. WatchedInv(Listened)
    BY DEF WatchedInv, Listened
  <2>3. StreamInv'
    BY <2>1, <2>2, WatchAppend DEF VersionsInv, StreamInv
  <2>4. OnlineInv'
    BY <1>g, <1>i, <2>1
  <2> QED
    BY <1>a, <1>c, <1>d, <1>f, <1>h, <2>1, <2>3, <2>4 DEF VersionsInv
<1>13. CASE RefuseListen
  <2>1. /\ Mishap /\ watch' = Append(watch, Refused)
        /\ UNCHANGED <<serverVars, writeVars, cache, started, subscribed, sent,
                       onlineVars, viewVars, page>>
    BY <1>13 DEF RefuseListen
  <2>2. WatchedInv(Refused)
    BY DEF WatchedInv, Refused
  <2>3. StreamInv'
    BY <2>1, <2>2, WatchAppend DEF VersionsInv, StreamInv
  <2>4. OnlineInv'
    BY <1>g, <1>i, <1>j, <2>1
  <2> QED
    BY <1>a, <1>c, <1>d, <1>f, <1>h, <2>1, <2>3, <2>4 DEF VersionsInv
<1>14. CASE SendSnapshot
  <2>1. /\ sent' = commits + 1 /\ watch' = Append(watch, Snapshot)
        /\ UNCHANGED <<serverVars, writeVars, cache, started, subscribed, onlineVars,
                       viewVars, page, mishaps>>
    BY <1>14 DEF SendSnapshot
  <2>2. WatchedInv(Snapshot)
    <3>1. /\ server \in AllContents /\ version \in [Path -> Nat]
          /\ \A p \in Path : version[p] \in Nat
          /\ \A p \in Path : server[p] = NoDoc => version[p] = 0
      BY ListeningAssumption DEF VersionsInv, ServerInv
    <3>2. Snapshot.docs = server /\ Snapshot.versions = version
      BY DEF Snapshot
    <3> QED
      BY <3>1, <3>2 DEF WatchedInv
  <2>3. sent' \in 0..MaxCommits + 1
    BY <2>1, ListeningAssumption DEF VersionsInv, ServerInv
  <2>4. StreamInv'
    BY <2>1, <2>2, <2>3, WatchAppend
  <2> QED
    BY <1>a, <1>c, <1>d, <1>f, <1>g, <1>h, <2>1, <2>4 DEF VersionsInv
<1>15. CASE LoseAnswers
  <2>1. /\ Mishap /\ answers' = <<>>
        /\ UNCHANGED <<serverVars, queue, cache, watchVars, onlineVars, viewVars, page>>
    BY <1>15 DEF LoseAnswers
  <2>2. OnlineInv'
    BY <1>g, <1>i, <1>j, <2>1
  <2> QED
    BY <1>a, <1>d, <1>e, <1>f, <1>h, <2>1, <2>2, AnswersForgotten DEF VersionsInv
<1>16. CASE LoseWatchStream
  <2>1. /\ Mishap /\ ForgetStream
        /\ UNCHANGED <<serverVars, writeVars, cache, page>>
        /\ timer' \in BOOLEAN /\ failures' \in {0, failures, failures + 1}
        /\ \E on \in {"Unknown", "Online", "Offline"} : SetAndBroadcast(on)
    <3>1. CASE listening
      BY <1>16, <1>g, <3>1 DEF LoseWatchStream, HandleWatchStreamFailure
    <3>2. CASE ~listening
      BY <1>16, <1>g, <3>2 DEF LoseWatchStream
    <3> QED
      BY <3>1, <3>2
  <2>2. StreamInv' /\ started' \in BOOLEAN /\ subscribed' \in BOOLEAN
    BY <1>g, <2>1, StreamForgotten DEF ForgetStream
  <2>3. failures' \in 0..mishaps'
    BY <1>g, <1>j, <2>1
  <2>4. OnlineInv'
    BY <1>i, <1>j, <2>1, <2>2, <2>3, BroadcastKeepsListening
  <2> QED
    BY <1>a, <1>c, <1>d, <1>h, <2>1, <2>2, <2>4, BroadcastView DEF VersionsInv
<1>17. CASE RestartNetwork
  <2>1. /\ Mishap /\ ForgetStream /\ answers' = <<>>
        /\ timer' = listening /\ failures' = 0 /\ SetAndBroadcast("Unknown")
        /\ UNCHANGED <<serverVars, queue, cache, page>>
    BY <1>17 DEF RestartNetwork
  <2>2. StreamInv' /\ started' \in BOOLEAN /\ subscribed' \in BOOLEAN
    BY <1>g, <2>1, StreamForgotten DEF ForgetStream
  <2>3. failures' \in 0..mishaps'
    BY <1>g, <1>j, <2>1
  <2>4. OnlineInv'
    BY <1>g, <1>i, <1>j, <2>1, <2>2, <2>3, BroadcastKeepsListening
  <2> QED
    BY <1>a, <1>d, <1>h, <2>1, <2>2, <2>4, BroadcastView, AnswersForgotten
       DEF VersionsInv
<1>18. CASE UNCHANGED vars
  BY <1>18, <1>a, <1>c, <1>d, <1>e, <1>f, <1>g, <1>h DEF VersionsInv, vars
<1> HIDE DEF Goal
<1>19. Goal
  BY <1>1, <1>2, <1>3, <1>4, <1>5, <1>6, <1>7, <1>8, <1>9, <1>10, <1>11, <1>12,
     <1>13, <1>14, <1>15, <1>16, <1>17, <1>18 DEF Next, DeviceStep, Goal
<1> QED
  BY <1>19 DEF Goal

\* The types, and that nothing is known before the server has it: not by an
\* answer, nor by a snapshot, nor in the cache.
THEOREM TypesAndVersions == Spec => []TypeOK
<1> QED
  BY VersionsInit, VersionsStep, VersionsType, PTL DEF Spec

\* A document of the view never goes back to an earlier version, in whatever
\* order answers and snapshots come, and however often the streams break.
THEOREM NothingGoesBack == Spec => NeverOlder
<1>1. VersionsInv /\ [Next]_vars =>
        [listening /\ listening' =>
           \A p \in Path : shown[p].doc # NoDoc /\ shown'[p].doc # NoDoc
                             => shown'[p].version >= shown[p].version]_vars
  BY VersionsStep DEF ViewNeverOlder
<1> QED
  BY <1>1, VersionsInit, VersionsStep, PTL DEF Spec, NeverOlder
=============================================================================
