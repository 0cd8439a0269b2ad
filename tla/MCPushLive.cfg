CONSTANTS
  alice = alice
  bob = bob
  Principal = {alice, bob}
  Creator = alice
  Path <- MCPath
  Pattern <- MCPattern
  GrantLevel = {2}
  Clerk = {k1}
  ForeignKeys = {TRUE, FALSE}
  Commit = {c1}
  NoCommit = NoCommit
  Untouched = Untouched
  Object = {}
  Deleted = Deleted
  Pusher = {w1, w2}
  Free = Free
SPECIFICATION FairAudit
INVARIANTS
  AuthorizedUnderLock
PROPERTY PushAnswered
