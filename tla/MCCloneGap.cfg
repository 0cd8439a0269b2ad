CONSTANTS
  Commit = {m1, r1}
  Mine = {m1}
  NoCommit = NoCommit
  Untouched = Untouched
  Path = {a, b}
  Readable = {a, b}
  Text = {t1}
  Deleted = Deleted
  NotStaged = NotStaged
SPECIFICATION Undisturbed
SYMMETRY Symmetry
INVARIANT SeqSpaceContiguous
