SPECIFICATION MCSpec
CONSTANTS
  Device = {d1, d2}
  User = {u1, u2}
  NoUser = NoUser
  Path = {u1, u2, a}
  Placeholder = a
  Text = {blank}
  NoText = blank
  Picture = {none, i1}
  NoPicture = none
  Project = {p1}
  NoDoc = NoDoc
  NoForm = NoForm
  NoOwner = NoOwner
  NoUrl = NoUrl
  MaxQueue = 2
  MaxParticipants = 1
  FirstPicture = i1
  MaxUserSteps = 5
  MaxMishaps = 1
  MaxTrouble = 3
INVARIANTS TypeOK SavesStayOnDevice JoinsFindTheirProfile UrlCallsCanBeAnswered PicturesKeepTheirOwner
PROPERTIES OthersOnlyJoin SettledStaysSettled
CHECK_DEADLOCK FALSE
SYMMETRY Symmetry
