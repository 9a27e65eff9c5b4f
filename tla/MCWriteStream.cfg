SPECIFICATION FairSpec
CONSTANTS
  a = a  p = p  t1 = t1
  User <- MCUser
  NoUser = NoUser
  Failed = Failed
  Here = Here
  Path <- MCPath
  Text = {t1, "blank"}
  NoText = "blank"
  Picture = {"none", "url"}
  NoPicture = "none"
  Project = {}
  NoDoc = NoDoc
  NoMutation = NoMutation
  AppWrite <- MCAppWrite
  MaxPendingWrites = 2
  MaxWrites = 3
  MaxMishaps = 2
INVARIANTS TypeOK TokenOfQueuesOwner StreamAssertions PipelineIsHead AnswersFitPipeline QueuedUnderAuthor
PROPERTIES ImplementsStore QueueDrains
CHECK_DEADLOCK FALSE
