--------------------------- MODULE MCProfileHistory ---------------------------
(* MCProfileEditing with what a user remembers: the text of the last Done     *)
(* for every profile, whether every edit so far was calm, that is, made on an *)
(* up-to-date form while no picture of an earlier edit was on its way, and    *)
(* whether the work on the image stored last was cut short.                   *)
EXTENDS MCProfileEditing

CONSTANT NoText0   \* no Done so far

VARIABLES last, calm, cut

historyVars == <<mcVars, last, calm, cut>>

DoneIn(d) == form[d] # NoForm /\ form'[d] = NoForm /\ queue'[d] # queue[d]

\* Uploads and URL calls for profile e that have not come to their callbacks,
\* and what callbacks saved for e in the queue of the signed-out device.
PictureOnItsWay(d, e) ==
  \/ \E up \in uploads[d] : up.profile.email = e
  \/ \E call \in urlCalls[d] : call.email = e
  \/ \E i \in 1..Len(queue[d][NoUser]) : queue[d][NoUser][i].path = e

\* An edit of e begins on a copy that is not what the device shows by now, or
\* while a picture of an earlier edit is on its way.
Hasty(e) == \E d \in Device :
  /\ form[d] = NoForm /\ form'[d] # NoForm /\ form'[d].email = e
  /\ PictureOnItsWay(d, e) \/ form'[d].doc # LocalView(d, e)

\* The image stored for e loses its URL: between StoreImage and UrlReceived
\* the app is killed or the upload's callback gets an error, or one of the two
\* callbacks saves while nobody is signed in.
CutShort(e) == \E d \in Device :
  \/ /\ Restart(d)
     /\ \/ \E up \in uploads[d] : up.profile.email = e /\ up.stored
        \/ \E call \in urlCalls[d] : call.email = e
  \/ \E up \in uploads[d] : up.profile.email = e /\ up.stored /\ UploadFailed(d, up)
  \/ /\ user[d] = NoUser
     /\ \/ \E up \in uploads[d] : up.profile.email = e /\ UploadSucceeded(d, up)
        \/ \E call \in urlCalls[d] : call.email = e /\ UrlReceived(d, call)

\* An image is stored for e: whatever happened to an earlier one is over.
Stored(e) ==
  \E d \in Device : \E up \in uploads[d] : up.profile.email = e /\ StoreImage(d, up)

HistoryInit ==
  /\ MCInit
  /\ last = [e \in Path |-> NoText0]
  /\ calm = [e \in Path |-> TRUE]
  /\ cut = [e \in Path |-> FALSE]

HistoryNext ==
  /\ MCNext
  /\ last' = [e \in Path |->
       IF \E d \in Device : DoneIn(d) /\ form[d].email = e
         THEN LET d == CHOOSE d \in Device : DoneIn(d)
              IN Last(queue'[d][user[d]]).value.text
         ELSE last[e]]
  /\ calm' = [e \in Path |-> calm[e] /\ ~Hasty(e)]
  /\ cut' = [e \in Path |-> (cut[e] \/ CutShort(e)) /\ ~Stored(e)]

\* The client libraries and the services of a device do something as long as
\* there is something to do.  Users and mishaps owe nothing.
Fairness == \A d \in Device :
  WF_mcVars(SystemStep(d) /\ UNCHANGED <<userSteps, mishaps>>)

HistorySpec == HistoryInit /\ [][HistoryNext]_historyVars /\ Fairness

\* On its own device a user always sees the text of the last Done, whatever of
\* it is queued, sent, acknowledged, sent again or watched, and across restarts,
\* failed uploads and sign-outs at any moment, as long as the edits were calm: an
\* edit made while the picture of an earlier one is on its way can be undone by
\* that upload's second save.  (An edit of an old copy is excepted with it, for the
\* sake of the picture that such a copy brings back.)
ReadYourWrites ==
  \A d \in Device : LET e == user[d] IN
    e # NoUser /\ last[e] # NoText0 /\ calm[e] => LocalView(d, e).text = last[e]

\* When nothing is left to do, a profile that was edited calmly shows the image
\* that is stored for it, unless the work on that very image was cut short: a
\* kill, an upload reported as failed or a callback of a signed-out device leaves
\* a stored image that the profile does not show, and nothing but the next
\* picture that is stored repairs it.
PictureInTheEnd ==
  LET AtRest == \A d \in Device :
        /\ form[d] = NoForm /\ uploads[d] = {} /\ urlCalls[d] = {}
        /\ \A u \in Credential : queue[d][u] = <<>>
  IN AtRest => \A e \in Path : server[e] # NoDoc /\ calm[e] /\ ~cut[e] =>
       server[e].picture = object[e]

\* Once users and mishaps pause, every signed-in device shows what the server
\* holds: each save has reached it or been refused, nothing is sent for ever,
\* and no device is left on an old snapshot.
DevicesConverge ==
  <>[](\A d \in Device : user[d] # NoUser =>
         Pending(d) = <<>> /\ profiles[d] = server)

\* Every upload and every request for a URL comes to its callback, so no
\* downloadURL call of a profile is repeated for ever.
PictureWorkEnds ==
  \A d \in Device :
    (uploads[d] # {} \/ urlCalls[d] # {}) ~> (uploads[d] = {} /\ urlCalls[d] = {})
=============================================================================
