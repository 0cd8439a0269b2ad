CONSTANTS
  Path = {a, b}
  Change <- AllPaths
  Unsure = {a, b}
  Conn = {h1}
  NoConn = NoConn
  PublishCap = 1
  OutCap = 1
  MaxCommits = 6
SPECIFICATION FairWatch
INVARIANTS
  WatchTypeOK
  PipelineInOrder
  CatchUpInOrder
PROPERTIES
  PushesGoOn
  ConnectionsReleased
