------------------------------ MODULE Listening ------------------------------
(***************************************************************************)
(* What a page shows of a collection: the local store of the Firestore     *)
(* client, the view it keeps of one query, the listeners that the page     *)
(* adds each time it appears, and the watch stream that brings the         *)
(* server's documents.                                                     *)
(*                                                                         *)
(* The server's changes reach the device on two ways that do not wait for  *)
(* each other: the answers to its own writes, and the snapshots of the     *)
(* watch stream, which may have been taken before or after.  Versions      *)
(* decide which of the two is the later one.                               *)
(*                                                                         *)
(* Snapshots are applied on the worker thread, and the page hears of them  *)
(* on the main thread, later and in order.                                 *)
(***************************************************************************)
EXTENDS Naturals, Sequences, SequencesExt

CONSTANTS
  Path,          \* documents of the collection
  Item,          \* what an array of a document can hold
  NoDoc,         \* a document that does not exist, or is not known
  Mutation,      \* what the app writes: whole documents, or members of an array
  MaxListeners, MaxCommits, MaxInFlight, MaxMishaps   \* bounds; MaxCommits is
                 \* on the changes made, on their way, and to be sent again

Doc == [items : SUBSET Item]

ASSUME ListeningAssumption ==
  /\ NoDoc \notin Doc
  /\ Mutation \subseteq [op : {"set", "join"}, path : Path, items : SUBSET Item]
  /\ {MaxListeners, MaxCommits, MaxInFlight, MaxMishaps} \subseteq Nat
  /\ MaxCommits > 0

VARIABLES
  server,     \* server[p]: the document
  version,    \* version[p]: of its latest change; 0 before the first
  commits,    \* the server's latest version
  queue,      \* mutations of this device that are not answered
  answers,    \* answers on their way: a version, or 0 for a refusal
  cache,      \* cache[p]: the remote document cache
  watch,      \* messages of the watch stream on their way
  started,    \* a watch stream is started
  subscribed, \* the server has the query of this stream
  sent,       \* one more than the version of its last snapshot on it; 0 for none
  online,     \* "Unknown", "Online" or "Offline"
  timer,      \* the timer that ends "Unknown" runs
  failures,   \* watch_stream_failures_
  listening,  \* there is a view of the query
  shown,      \* shown[p]: the documents of the view
  current,    \* the view is as the server had it at one time
  raised,     \* raised[i]: the i-th listener has raised its first event
  mainQueue,  \* events that wait for the main thread
  page,       \* what the page shows
  mishaps

serverVars == <<server, version, commits>>
writeVars == <<queue, answers>>
watchVars == <<watch, started, subscribed, sent>>
onlineVars == <<online, timer, failures>>
viewVars == <<listening, shown, current, raised, mainQueue>>
vars == <<serverVars, writeVars, cache, watchVars, onlineVars, viewVars, page, mishaps>>

-----------------------------------------------------------------------------
(* The local store: what the device knows of a document, with the mutations  *)
(* that are not answered on top. *)

Entry == [doc : Doc \cup {NoDoc}, version : Nat,
          state : {"synced", "committed", "local"}]
Unknown == [doc |-> NoDoc, version |-> 0, state |-> "synced"]

Apply(m, doc) ==
  CASE m.op = "set" -> [items |-> m.items]
    [] m.op = "join" -> IF doc = NoDoc THEN NoDoc
                        ELSE [items |-> doc.items \cup m.items]

\* A mutation of a document that is not there, and only updates one, has no
\* effect; any other makes the document one with local mutations.
Overlay(entry, m) ==
  IF Apply(m, entry.doc) = NoDoc THEN entry
  ELSE [doc |-> Apply(m, entry.doc), state |-> "local",
        version |-> IF entry.doc = NoDoc THEN 0 ELSE entry.version]

LocalView(c, q, p) ==
  LET OverlayOfPath(entry, m) == IF m.path = p THEN Overlay(entry, m) ELSE entry
  IN FoldLeft(OverlayOfPath, c[p], q)

\* Mistake: the answer counts, whatever has been watched meanwhile.
CommittedAnyway(entry, m, v) ==
  [doc |-> Apply(m, entry.doc), version |-> v, state |-> "committed"]

\* Mistake: the answer is taken for the version after it.
CommittedEarly(entry, m, v) ==
  [doc |-> Apply(m, entry.doc), version |-> v + 1, state |-> "committed"]

\* The effect of an answered mutation, unless a later version is known.
Committed(entry, m, v) ==
  IF entry.version >= v THEN entry
  ELSE [doc |-> Apply(m, entry.doc), version |-> v, state |-> "committed"]

\* Mistake: whatever is watched is taken.
IsNewsAnyway(entry, v) == v > 0

\* A watched document is taken if it is later, or if what is cached of the
\* same version was worked out here.
IsNews(entry, v) ==
  v > entry.version \/ (v = entry.version /\ v > 0 /\ entry.state = "committed")

-----------------------------------------------------------------------------
(* The view and its listeners. *)

Contents(docs) == [p \in Path |-> docs[p].doc]
IsEmpty(docs) == \A p \in Path : docs[p].doc = NoDoc

\* A document whose last mutation was answered stays as it is until the watch
\* stream brings it.
Changes(old, new) ==
  IF old.doc = NoDoc \/ new.doc = NoDoc
    THEN old.doc # new.doc
    ELSE /\ ~(old.state = "local" /\ new.state = "committed")
         /\ old.doc # new.doc \/ (old.state = "local") # (new.state = "local")

ShouldRaiseInitialEvent(docs, cur, on) == cur \/ ~IsEmpty(docs) \/ on = "Offline"

\* Mistake: a listener hears of the first snapshot only.
RaiseOnce(docs, cur, on, changed) ==
  LET first == ShouldRaiseInitialEvent(docs, cur, on)
      hears == {i \in 1..Len(raised) : ~raised[i] /\ first}
  IN /\ raised' = [i \in 1..Len(raised) |-> raised[i] \/ first]
     /\ mainQueue' = mainQueue \o [i \in 1..Cardinality(hears) |-> Contents(docs)]

\* The listeners hear of a snapshot: the first event of each is raised as soon
\* as there is something to say, later ones when a document has changed.
Raise(docs, cur, on, changed) ==
  LET first == ShouldRaiseInitialEvent(docs, cur, on)
      hears == {i \in 1..Len(raised) : IF raised[i] THEN changed ELSE first}
  IN /\ raised' = [i \in 1..Len(raised) |-> raised[i] \/ first]
     /\ mainQueue' = mainQueue \o [i \in 1..Cardinality(hears) |-> Contents(docs)]

\* The view is brought up to the local documents of the paths in "changed".
EmitNewSnapshots(changed, cur, on) ==
  LET new == [p \in Path |->
        LET entry == LocalView(cache', queue', p)
        IN IF p \in changed /\ Changes(shown[p], entry) THEN entry ELSE shown[p]]
  IN IF ~listening THEN UNCHANGED viewVars
     ELSE /\ shown' = new
          /\ current' = cur
          /\ Raise(new, cur, on, Contents(new) # Contents(shown))
          /\ UNCHANGED listening

\* Mistake: who waits for the server is not told that it cannot be reached.
SetSilently(on) == online' = on /\ UNCHANGED viewVars

\* A change of the online state: going offline the view loses its currency,
\* and listeners that wait for the server wait no longer.
SetAndBroadcast(on) ==
  /\ online' = on
  /\ IF ~listening \/ on = online THEN UNCHANGED viewVars
     ELSE /\ current' = (current /\ on # "Offline")
          /\ Raise(shown, current', on, FALSE)
          /\ UNCHANGED <<listening, shown>>

-----------------------------------------------------------------------------
(* The page. *)

\* Mistake: a new listener does not hear what its query's last snapshot was.
AddLateListener == raised' = Append(raised, FALSE) /\ UNCHANGED mainQueue

\* A listener on a query that has a view starts with its latest snapshot.
AddListener ==
  LET first == ShouldRaiseInitialEvent(shown, current, online)
  IN /\ raised' = Append(raised, first)
     /\ mainQueue' = IF first THEN Append(mainQueue, Contents(shown)) ELSE mainQueue

\* The page appears again.
FetchDataAgain ==
  /\ listening
  /\ Len(raised) < MaxListeners
  /\ AddListener
  /\ UNCHANGED <<serverVars, writeVars, cache, watchVars, onlineVars, listening,
                 shown, current, page, mishaps>>

\* The first listener: the view is made from what is on the device, and the
\* watch stream is started for it.
FetchData ==
  /\ ~listening
  /\ listening' = TRUE /\ current' = FALSE
  /\ shown' = [p \in Path |-> LocalView(cache, queue, p)]
  /\ raised' = <<ShouldRaiseInitialEvent(shown', FALSE, online)>>
  /\ mainQueue' = IF raised'[1] THEN Append(mainQueue, Contents(shown')) ELSE mainQueue
  /\ started' = TRUE
  /\ timer' = (timer \/ (~started /\ failures = 0))
  /\ UNCHANGED <<serverVars, writeVars, cache, watch, subscribed, sent, online,
                 failures, page, mishaps>>

\* The closure of a listener runs on the main thread.
ShowEvent ==
  /\ mainQueue # <<>>
  /\ page' = Head(mainQueue)
  /\ mainQueue' = Tail(mainQueue)
  /\ UNCHANGED <<serverVars, writeVars, cache, watchVars, onlineVars, listening,
                 shown, current, raised, mishaps>>

-----------------------------------------------------------------------------
(* The device's own writes. *)

WriteLocally(m) ==
  /\ commits + Len(queue) - Len(answers) < MaxCommits
  /\ queue' = Append(queue, m)
  /\ cache' = cache
  /\ EmitNewSnapshots({m.path}, current, online)
  /\ UNCHANGED <<serverVars, answers, watchVars, onlineVars, page, mishaps>>

Commit(m) ==
  /\ server' = [server EXCEPT ![m.path] = Apply(m, @)]
  /\ commits' = commits + 1
  /\ version' = [version EXCEPT ![m.path] = commits + 1]

IsRefused(m) == m.op = "join" /\ server[m.path] = NoDoc

\* The server applies the next mutation of the queue, or refuses it; nothing
\* that follows a refused one is looked at.
AnswerWrite ==
  /\ Len(answers) < Len(queue) /\ ~Contains(answers, 0)
  /\ LET m == queue[Len(answers) + 1]
     IN IF IsRefused(m)
          THEN answers' = Append(answers, 0) /\ UNCHANGED serverVars
          ELSE /\ commits < MaxCommits
               /\ Commit(m)
               /\ answers' = Append(answers, commits + 1)
  /\ UNCHANGED <<queue, cache, watchVars, onlineVars, viewVars, page, mishaps>>

OtherWrites(m) ==
  /\ commits + Len(queue) - Len(answers) < MaxCommits
  /\ ~IsRefused(m)
  /\ Commit(m)
  /\ UNCHANGED <<writeVars, cache, watchVars, onlineVars, viewVars, page, mishaps>>

\* An answer: the mutation leaves the queue, and its effect, if it has one, is
\* kept in the cache.
HandleAnswer ==
  /\ answers # <<>>
  /\ LET m == Head(queue)
         v == Head(answers)
     IN /\ cache' = IF v = 0 THEN cache
                    ELSE [cache EXCEPT ![m.path] = Committed(@, m, v)]
        /\ queue' = Tail(queue)
        /\ EmitNewSnapshots({m.path}, current, online)
  /\ answers' = Tail(answers)
  /\ UNCHANGED <<serverVars, watchVars, onlineVars, page, mishaps>>

Mishap == mishaps < MaxMishaps /\ mishaps' = mishaps + 1

\* The write stream breaks: what was not answered is sent again.
LoseAnswers ==
  /\ Mishap
  /\ answers # <<>> /\ commits + Len(queue) <= MaxCommits
  /\ answers' = <<>>
  /\ UNCHANGED <<serverVars, queue, cache, watchVars, onlineVars, viewVars, page>>

-----------------------------------------------------------------------------
(* The watch stream, seen from the server. *)

Listened == [kind |-> "added"]
Refused == [kind |-> "refused"]
Snapshot == [kind |-> "snapshot", docs |-> server, versions |-> version,
             version |-> commits]

AcceptListen ==
  /\ started /\ listening /\ ~subscribed
  /\ watch = <<>>
  /\ subscribed' = TRUE
  /\ watch' = Append(watch, Listened)
  /\ UNCHANGED <<serverVars, writeVars, cache, started, sent, onlineVars, viewVars,
                 page, mishaps>>

\* The rules let nobody read who is not signed in.
RefuseListen ==
  /\ Mishap
  /\ started /\ listening /\ ~subscribed
  /\ watch = <<>>
  /\ watch' = Append(watch, Refused)
  /\ UNCHANGED <<serverVars, writeVars, cache, started, subscribed, sent,
                 onlineVars, viewVars, page>>

SendSnapshot ==
  /\ subscribed /\ sent <= commits /\ Len(watch) < MaxInFlight
  /\ sent' = commits + 1
  /\ watch' = Append(watch, Snapshot)
  /\ UNCHANGED <<serverVars, writeVars, cache, started, subscribed, onlineVars,
                 viewVars, page, mishaps>>

-----------------------------------------------------------------------------
(* The watch stream, seen from the device.  Any message shows that the       *)
(* server can be reached. *)

BecomeOnline ==
  /\ online' = "Online" /\ timer' = FALSE /\ failures' = 0

OnListened ==
  /\ watch # <<>> /\ Head(watch).kind = "added"
  /\ watch' = Tail(watch)
  /\ BecomeOnline
  /\ UNCHANGED <<serverVars, writeVars, cache, started, subscribed, sent, viewVars,
                 page, mishaps>>

OnWatchSnapshot ==
  /\ watch # <<>> /\ Head(watch).kind = "snapshot"
  /\ watch' = Tail(watch)
  /\ BecomeOnline
  /\ LET s == Head(watch)
         news == {p \in Path : IsNews(cache[p], s.versions[p])}
     IN /\ cache' = [p \in Path |->
             IF p \in news THEN [doc |-> s.docs[p], version |-> s.versions[p],
                                 state |-> "synced"]
             ELSE cache[p]]
        /\ queue' = queue
        /\ EmitNewSnapshots(news, TRUE, "Online")
  /\ UNCHANGED <<serverVars, answers, started, subscribed, sent, page, mishaps>>

\* The query is refused: the view and all its listeners are given up.
OnListenRefused ==
  /\ watch # <<>> /\ Head(watch).kind = "refused"
  /\ watch' = Tail(watch)
  /\ BecomeOnline
  /\ listening' = FALSE /\ raised' = <<>> /\ current' = FALSE
  /\ shown' = [p \in Path |-> Unknown]
  /\ UNCHANGED <<serverVars, writeVars, cache, started, subscribed, sent, mainQueue,
                 page, mishaps>>

ForgetStream ==
  /\ watch' = <<>> /\ subscribed' = FALSE /\ sent' = 0
  /\ started' = listening

\* Mistake: the timer is not stopped by a failure.
FailLeavingTimer ==
  IF online = "Online"
    THEN timer' = TRUE /\ UNCHANGED failures /\ SetAndBroadcast("Unknown")
    ELSE timer' = timer /\ failures' = failures + 1 /\ SetAndBroadcast("Unknown")

\* A first failure after the stream had worked is not held against it; the
\* next one means that the device is offline.
HandleWatchStreamFailure ==
  IF online = "Online"
    THEN timer' = TRUE /\ UNCHANGED failures /\ SetAndBroadcast("Unknown")
    ELSE timer' = FALSE /\ failures' = failures + 1 /\ SetAndBroadcast("Offline")

\* The stream is lost with what is on its way; another one is started if a
\* query needs it.
LoseWatchStream ==
  /\ Mishap
  /\ started
  /\ ForgetStream
  /\ IF listening THEN HandleWatchStreamFailure
     ELSE timer' = FALSE /\ failures' = 0 /\ SetAndBroadcast("Unknown")
  /\ UNCHANGED <<serverVars, writeVars, cache, page>>

\* Both streams are restarted: the network has changed, or the user.
RestartNetwork ==
  /\ Mishap
  /\ commits + Len(queue) <= MaxCommits
  /\ ForgetStream /\ answers' = <<>>
  /\ timer' = listening /\ failures' = 0
  /\ SetAndBroadcast("Unknown")
  /\ UNCHANGED <<serverVars, queue, cache, page>>

OnlineStateTimeout ==
  /\ timer
  /\ timer' = FALSE
  /\ SetAndBroadcast("Offline")
  /\ UNCHANGED <<serverVars, writeVars, cache, watchVars, failures, page, mishaps>>
-----------------------------------------------------------------------------
Init ==
  /\ server \in [Path -> Doc \cup {NoDoc}]
  /\ version = [p \in Path |-> IF server[p] = NoDoc THEN 0 ELSE 1]
  /\ commits = 1
  /\ queue = <<>> /\ answers = <<>>
  /\ cache = [p \in Path |-> Unknown]
  /\ watch = <<>> /\ started = FALSE /\ subscribed = FALSE /\ sent = 0
  /\ online = "Unknown" /\ timer = FALSE /\ failures = 0
  /\ listening = FALSE /\ shown = [p \in Path |-> Unknown] /\ current = FALSE
  /\ raised = <<>> /\ mainQueue = <<>> /\ page = [p \in Path |-> NoDoc]
  /\ mishaps = 0

DeviceStep ==
  ShowEvent \/ HandleAnswer \/ OnListened \/ OnWatchSnapshot \/ OnListenRefused
  \/ OnlineStateTimeout

Next ==
  \/ FetchData \/ FetchDataAgain \/ DeviceStep
  \/ \E m \in Mutation : WriteLocally(m) \/ OtherWrites(m)
  \/ AnswerWrite \/ AcceptListen \/ RefuseListen \/ SendSnapshot
  \/ LoseAnswers \/ LoseWatchStream \/ RestartNetwork

\* The two threads and the timer run, and a server that is reached answers.
Fairness ==
  /\ WF_vars(ShowEvent) /\ WF_vars(OnlineStateTimeout)
  /\ WF_vars(HandleAnswer) /\ WF_vars(AnswerWrite)
  /\ WF_vars(OnListened \/ OnWatchSnapshot \/ OnListenRefused)
  /\ WF_vars(AcceptListen) /\ WF_vars(SendSnapshot)

Spec == Init /\ [][Next]_vars /\ Fairness

-----------------------------------------------------------------------------
(* Properties. *)

AllContents == [Path -> Doc \cup {NoDoc}]

\* Every variable keeps its type, and no version is known before it is made.
TypeOK ==
  /\ server \in AllContents /\ version \in [Path -> 0..MaxCommits] /\ commits \in 1..MaxCommits
  /\ queue \in Seq(Mutation) /\ answers \in Seq(0..MaxCommits)
  /\ Len(answers) <= Len(queue)
  /\ cache \in [Path -> Entry] /\ shown \in [Path -> Entry]
  /\ \A p \in Path : cache[p].version <= version[p] /\ version[p] <= commits
  /\ {started, subscribed, timer, listening, current} \subseteq BOOLEAN
  /\ sent \in 0..MaxCommits + 1 /\ failures \in 0..MaxMishaps
  /\ online \in {"Unknown", "Online", "Offline"}
  /\ raised \in Seq(BOOLEAN) /\ mainQueue \in Seq(AllContents)
  /\ page \in AllContents

\* Once a listener of the page has raised an event, the last event on its way
\* to the page, or what the page shows if none is, is the view: however many
\* listeners there are, whichever of them hears what, the page ends with the
\* latest documents.
PageCatchesUp ==
  listening /\ (\E i \in 1..Len(raised) : raised[i])
    => Contents(shown) = IF mainQueue = <<>> THEN page ELSE Last(mainQueue)

\* A listener that has raised nothing has nothing to say, and someone who will
\* end its wait: the server's answer, or the timer.
NobodyIsForgotten ==
  listening =>
    \A i \in 1..Len(raised) : ~raised[i] =>
      IsEmpty(shown) /\ ~current /\ (online = "Online" \/ timer)

\* The assertions of the online state tracker: its timer only runs while the
\* state is "Unknown", a stream is started without a timer, and the state is
\* "Online" without failures.
TrackerAssertions ==
  /\ timer => online = "Unknown" /\ failures = 0 /\ started
  /\ online = "Online" => failures = 0
  /\ ~started => online = "Unknown" /\ failures = 0

\* A document of the view never goes back to an earlier version, whichever of
\* an answer and a snapshot comes first.
NeverOlder ==
  [][listening /\ listening' =>
       \A p \in Path : shown[p].doc # NoDoc /\ shown'[p].doc # NoDoc
                         => shown'[p].version >= shown[p].version]_vars

\* When nobody writes any more, the page comes to show the server's documents
\* and stays there, unless the query was refused.
PageShowsServerInTheEnd ==
  <>[](listening => page = server)

\* A page that appears hears something, be it that the device is offline.
FirstEvent ==
  [](listening => <>(~listening \/ \A i \in 1..Len(raised) : raised[i]))
=============================================================================
