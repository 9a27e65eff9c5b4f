SPECIFICATION HistorySpec
CONSTANTS
  Device = {d1}
  User = {u1}
  NoUser = NoUser
  Path = {u1, a}
  Placeholder = a
  Text = {blank, t1}
  NoText = blank
  NoText0 = NoText0
  Picture = {none, i1, i2}
  NoPicture = none
  Project = {}
  NoDoc = NoDoc
  NoForm = NoForm
  NoOwner = NoOwner
  NoUrl = NoUrl
  MaxQueue = 2
  MaxParticipants = 0
  FirstPicture = i1
  MaxUserSteps = 5
  MaxMishaps = 2
  MaxTrouble = 4
INVARIANTS ReadYourWrites PictureInTheEnd
PROPERTIES DevicesConverge PictureWorkEnds
CHECK_DEADLOCK FALSE
