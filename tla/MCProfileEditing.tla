--------------------------- MODULE MCProfileEditing ---------------------------
(* ProfileEditing with a budget for what users do and for what goes wrong.   *)
EXTENDS ProfileEditing, TLC

CONSTANTS
  MaxUserSteps,   \* bound on the steps of all users together
  MaxMishaps,     \* bound on restarts, failed uploads and broken streams
  MaxTrouble,     \* bound on devices, mishaps and new pictures together
  FirstPicture    \* pictures are alike: the one that is picked first

VARIABLES userSteps, mishaps

mcVars == <<vars, userSteps, mishaps>>

MCInit == Init /\ userSteps = 0 /\ mishaps = 0

\* Two accounts meet on one device, or two devices have one account.
Within ==
  LET devices == {d \in Device : visited'[d] # {}}
      accounts == UNION {visited'[d] : d \in Device}
      picked == {i \in Picture : owner'[i] # NoOwner}
  IN /\ Cardinality(devices) + Cardinality(accounts) <= 3
     /\ Cardinality(devices) + mishaps' + Cardinality(picked) <= MaxTrouble
     /\ picked # {} => FirstPicture \in picked

MCNext ==
  /\ \E d \in Device :
       \/ /\ userSteps < MaxUserSteps
          /\ UserStep(d)
          /\ userSteps' = userSteps + 1
          /\ UNCHANGED mishaps
       \/ /\ mishaps < MaxMishaps
          /\ Mishap(d)
          /\ mishaps' = mishaps + 1
          /\ UNCHANGED userSteps
       \/ SystemStep(d) /\ UNCHANGED <<userSteps, mishaps>>
  /\ Within

MCSpec == MCInit /\ [][MCNext]_mcVars

\* Accounts are interchangeable, and so are devices.
Symmetry == Permutations(User) \cup Permutations(Device)
=============================================================================
