CONSTANTS
  alice = alice
  bob = bob
  carol = carol
  Principal = {alice, bob, carol}
  Creator = alice
  Path <- MCPath
  Pattern <- MCPattern
  GrantLevel = {2}
  Clerk = {k1, k2}
  ForeignKeys = {TRUE, FALSE}
  Commit = {}
  NoCommit = NoCommit
  Untouched = Untouched
  Object = {}
  Deleted = Deleted
  Pusher = {}
  Free = Free
SPECIFICATION AuditSpec
SYMMETRY Symmetry
INVARIANTS
  AdminRemains
  RowsOfMembers
