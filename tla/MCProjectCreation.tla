--------------------------- MODULE MCProjectCreation ---------------------------
(* ProjectCreation with a budget for what users do and for what goes wrong.  *)
EXTENDS ProjectCreation, TLC

CONSTANTS
  Spaced,         \* names with white space around them
  Bare,           \* what such a name is without it
  MaxUserSteps,   \* bound on the steps of all users together
  MaxSetbacks,    \* bound on rebuilt forms and broken streams
  MaxLosses       \* bound on restarts and failed uploads

MCTrimmed == [n \in Project |-> IF n \in Spaced THEN Bare ELSE n]

VARIABLES userSteps, setbacks, losses

mcVars == <<vars, userSteps, setbacks, losses>>

MCInit == Init /\ userSteps = 0 /\ setbacks = 0 /\ losses = 0

MCNext == \E d \in Device :
  \/ /\ userSteps < MaxUserSteps
     /\ UserStep(d)
     /\ userSteps' = userSteps + 1
     /\ UNCHANGED <<setbacks, losses>>
  \/ /\ setbacks < MaxSetbacks
     /\ Setback(d)
     /\ setbacks' = setbacks + 1
     /\ UNCHANGED <<userSteps, losses>>
  \/ /\ losses < MaxLosses
     /\ Loss(d)
     /\ losses' = losses + 1
     /\ UNCHANGED <<userSteps, setbacks>>
  \/ SystemStep(d) /\ UNCHANGED <<userSteps, setbacks, losses>>

MCSpec == MCInit /\ [][MCNext]_mcVars

\* Accounts are interchangeable, and so are images; ids are not, as they are
\* given out in order.
Symmetry == Permutations(User) \cup Permutations(Picture \ {NoPicture})

Budgeted(Step) == Step /\ UNCHANGED <<userSteps, setbacks, losses>>

\* The client libraries and the services keep working on every single thing.
Fairness == \A d \in Device :
  /\ WF_mcVars(Budgeted(Persist(d)))
  /\ \A name \in Project, image \in Picture :
       WF_mcVars(Budgeted(StoreImage(d, [name |-> name, image |-> image])))
  /\ \A call \in UrlCall :
       /\ WF_mcVars(Budgeted(AnswerUrl(d, call)))
       /\ WF_mcVars(Budgeted(RetryUrl(d, call)))
       /\ WF_mcVars(Budgeted(UrlReceived(d, call)))
  /\ WF_mcVars(Budgeted(Network(Deliver(d))))
  /\ WF_mcVars(Budgeted(Network(Ack(d))))
  /\ WF_mcVars(Budgeted(Network(Reject(d))))

FairSpec == MCSpec /\ Fairness

\* When no upload fails and the app is not killed, every project that was
\* announced is in the end on the server and shows a picture, although the URL
\* is asked for before the upload has ended, the first answers are errors and
\* the stream may break, unless somebody signs out before it has got there.
ProjectsGetTheirPicture ==
  \A id \in Id : LET announced == made[id] # NotMade IN
    <>announced =>
      <>(announced /\ (\/ server[id] # NoDoc /\ server[id].picture # NoPicture
                       \/ \E d \in Device : user[d] = NoUser))
=============================================================================
