SPECIFICATION MCSpec
CONSTANTS
  Device = {d1}
  User = {u1, u2}
  NoUser = NoUser
  Id = {id1, id2}
  Path = {u1, u2, id1, id2}
  Text = {blank, n1, n1_}
  NoText = blank
  Picture = {none, i1, i2}
  NoPicture = none
  Project = {n1, n1_}
  Spaced = {n1_}
  Bare = n1
  Trimmed <- MCTrimmed
  NoDoc = NoDoc
  NoForm = NoForm
  NotMade = NotMade
  NoOwner = NoOwner
  NoUrl = NoUrl
  UrlError = UrlError
  MaxQueue = 4
  MaxParticipants = 1
  MaxUserSteps = 6
  MaxSetbacks = 1
  MaxLosses = 1
INVARIANTS PicturesMatchNames TypeOK DoneIsDurable ProfilesNameProjects
CHECK_DEADLOCK FALSE
SYMMETRY Symmetry
