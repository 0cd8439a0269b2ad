CONSTANTS
  alice = alice
  bob = bob
  fileA = fileA
  fileB = fileB
  Principal = {alice}
  Creator = alice
  Path <- MCPath
  Pattern <- MCPattern
  GrantLevel = {2}
  Clerk = {}
  ForeignKeys = {TRUE, FALSE}
  Commit = {c1, c2, c3}
  NoCommit = NoCommit
  Untouched = Untouched
  Object = {o1}
  Deleted = Deleted
  Pusher = {w1, w2}
  Free = Free
SPECIFICATION BoundedSpec
SYMMETRY Symmetry
INVARIANTS
  CheckedStillHolds
  LinearHistory
  HeadIsLatest
  SeqGapless
  ContentPresent
  RegistryFollowsLog
  PublishedInOrder
PROPERTY ImplementsLog
