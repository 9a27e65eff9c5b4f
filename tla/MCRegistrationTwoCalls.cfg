SPECIFICATION MCSpec
CONSTANTS
  Device = {d1}
  User = {u1, u2}
  NoUser = NoUser
  Record = {r1, r2}
  Path <- MCPath
  Text <- MCText
  NoText = blank
  Picture = {none}
  NoPicture = none
  Project = {}
  NoDoc = NoDoc
  MaxQueue = 4
  NotHeard = NotHeard
  NoCall = NoCall
  MaxCalls = 2
  MaxForms = 2
  MaxUserSteps = 8
  MaxSetbacks = 0
  Accounts = {}
INVARIANT SessionFollowsAuth
CHECK_DEADLOCK FALSE
