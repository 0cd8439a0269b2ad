CONSTANTS
  Commit = {m1, m2, r1, r2}
  Mine = {m1, m2}
  NoCommit = NoCommit
  Untouched = Untouched
  Path = {a, b}
  Readable = {a}
  Text = {t1, t2}
  Deleted = Deleted
  NotStaged = NotStaged
SPECIFICATION Spec
SYMMETRY Symmetry
INVARIANTS
  NumbersAgree
  ContentLocal
  HeadNotBehind
  GapsHaveCause
  AbsorbsOlder
CONSTRAINT Bound
