SPECIFICATION MCSpec
CONSTANTS
  Device = {d1}
  User = {u1, u2}
  NoUser = NoUser
  Path = {u1, u2, a}
  Placeholder = a
  Text = {blank, t1}
  NoText = blank
  Picture = {none, i1}
  NoPicture = none
  Project = {}
  NoDoc = NoDoc
  NoForm = NoForm
  NoOwner = NoOwner
  NoUrl = NoUrl
  MaxQueue = 2
  MaxParticipants = 0
  FirstPicture = i1
  MaxTrouble = 3
  MaxUserSteps = 7
  MaxMishaps = 1
INVARIANT MyProfileIsMine
CHECK_DEADLOCK FALSE
