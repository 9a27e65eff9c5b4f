---------------------------- MODULE MCRegistration ----------------------------
(* Registration with budgets for what the users do and what goes wrong.        *)
EXTENDS Registration

CONSTANTS MaxUserSteps, MaxSetbacks, Accounts

VARIABLES userSteps, setbacks

MCInit == Init /\ accounts = Accounts /\ userSteps = 0 /\ setbacks = 0

MCNext ==
  \E d \in Device :
    \/ /\ UserStep(d)
       /\ userSteps < MaxUserSteps
       /\ userSteps' = userSteps + 1
       /\ UNCHANGED setbacks
    \/ /\ Setback(d)
       /\ setbacks < MaxSetbacks
       /\ setbacks' = setbacks + 1
       /\ UNCHANGED userSteps
    \/ (MainQueue(d) \/ Service(d) \/ Network(d)) /\ UNCHANGED <<userSteps, setbacks>>

MCSpec == MCInit /\ [][MCNext]_<<vars, userSteps, setbacks>>

MCPath == User \cup Record
MCText == User \cup {NoText}
=============================================================================
