SPECIFICATION MCSpec
CONSTANTS
  Device = {d1}
  User = {u1}
  NoUser = NoUser
  Id = {id1, id2}
  Path = {u1, id1, id2}
  Text = {blank, n1, n1_}
  NoText = blank
  Picture = {none, i1, i2}
  NoPicture = none
  Project = {n1, n1_}
  Spaced = {n1_}
  Bare = n1
  Trimmed <- MCTrimmed
  NoDoc = NoDoc
  NoForm = NoForm
  NotMade = NotMade
  NoOwner = NoOwner
  NoUrl = NoUrl
  UrlError = UrlError
  MaxQueue = 4
  MaxParticipants = 0
  MaxUserSteps = 6
  MaxSetbacks = 0
  MaxLosses = 0
PROPERTY SavedNamesAreNew
CHECK_DEADLOCK FALSE
