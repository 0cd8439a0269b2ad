CONSTANTS
  t1 = t1
  t2 = t2
  r1 = r1
  r2 = r2
  p1 = p1
  f = f
  g = g
  ann = ann
  ann2 = ann2
  ann3 = ann3
  k1 = k1
  k2 = k2
  Thread = {t1, t2}
  Repo = {r1, r2}
  Local = {p1}
  Foreign = {f, g}
  Username = {ann, ann2, ann3}
  Key = {k1, k2}
  Candidates <- MCCandidates
  Mirrors <- MCMirrors
  MaxFaults = 2
SYMMETRY Symmetry
SPECIFICATION LifecycleSpec
INVARIANTS
  LifecycleTypeOK
  OneCreator
  AnsweredSurvives
  ServedComplete
  MembersKnown
  LeftoverHasCause
  NamesHeld
PROPERTIES
  IdentitiesStay
