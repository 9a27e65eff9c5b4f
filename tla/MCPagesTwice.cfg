SPECIFICATION MCProjectsSpec
CONSTANTS
  Item = {x, y, z}
  Interest = {x, y, z}
  Name = {x, y}
  Email = {e1, E1, e2}
  Picture = {none, i1}
  NoPicture = none
  Lower <- LowerCase
  Lists <- ProjectLists
  Absent = Absent
  MaxOld = 2
  ProfileSnapshots <- SmallProfileSnapshots
  ProjectSnapshots <- SmallProjectSnapshots
  MaxChosen = 2
  e1 = e1
  E1 = E1
  e2 = e2
  PictureOf1 = i1
  PictureOf2 = none
INVARIANT NeverTraps
CHECK_DEADLOCK FALSE
