CONSTANTS
  w1 = w1
  w2 = w2
  h1 = h1
  h2 = h2
  h3 = h3
  Writer = {w1, w2}
  Hash = {h1, h2, h3}
  File <- MCFile
  Limit = 2
  MaxFaults = 2
SYMMETRY Symmetry
SPECIFICATION ObjectSpec
INVARIANTS
  WholeUnderName
  KeptSurvives
  RefsResolve
  QuotaOvershoot
  TmpHasOwner
PROPERTIES
  ImplementsSet
CHECK_DEADLOCK FALSE
