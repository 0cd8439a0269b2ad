CONSTANTS
  Path = {a}
  Change <- AllPaths
  Unsure = {}
  Conn = {h1}
  NoConn = NoConn
  PublishCap = 1
  OutCap = 1
  MaxCommits = 4
SPECIFICATION AuditSpec
INVARIANTS
  NoneMissed
