----------------------------- MODULE MCLifecycle -----------------------------
EXTENDS RepoLifecycle, TLC

CONSTANTS t1, t2, r1, r2, p1, f, g, ann, ann2, ann3, k1, k2

MCCandidates == [u \in {ann, ann2, ann3} |->
  IF u = ann THEN <<ann, ann2, ann3>> ELSE IF u = ann2 THEN <<ann2, ann3>> ELSE <<ann3>>]

Symmetry == Permutations({t1, t2}) \cup Permutations({r1, r2})

\* Two servers that both know somebody named ann, and a mirror of the second
\* one that carries the first one's id under an older key.
MCMirrors ==
  {[rows |-> <<[id |-> f, username |-> ann, key |-> k1]>>, admins |-> {f}],
   [rows |-> <<[id |-> g, username |-> ann, key |-> k1], [id |-> f, username |-> ann2, key |-> k2]>>,
    admins |-> {g}]}
=============================================================================
