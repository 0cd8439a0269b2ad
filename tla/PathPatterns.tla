---------------------------- MODULE PathPatterns ----------------------------
(***************************************************************************)
(* The paths and grant patterns of a repository: internal/store/path.go    *)
(* and patternMatches in internal/store/access.go.                         *)
(*                                                                         *)
(* A path is the sequence of its segments, "/a/b" being <<"a", "b">>.  A   *)
(* grant pattern is such a sequence too, its last segment possibly the     *)
(* wildcard, so that "/a/*" is <<"a", "*">> and the root pattern "/*" is   *)
(* <<"*">>.  The segments themselves are never looked into: path.Clean has *)
(* already refused the empty, "." and ".." ones.                           *)
(***************************************************************************)
EXTENDS Sequences, SequencesExt

Wildcard == "*"

ValidPath(p) == p # << >> /\ \A i \in DOMAIN p : p[i] # Wildcard

IsPrefixPattern(q) == q # << >> /\ Last(q) = Wildcard

ValidPathPattern(q) ==
  \/ q = <<Wildcard>>
  \/ IsPrefixPattern(q) /\ ValidPath(Front(q))
  \/ ValidPath(q)

(***************************************************************************)
(* A pattern that ends in "/*" covers what lies strictly beneath its       *)
(* prefix; any other pattern covers only itself.  CanGrant calls this with *)
(* a pattern for its second argument, so q may end in a wildcard as well.  *)
(***************************************************************************)
PatternMatches(pattern, q) ==
  IF IsPrefixPattern(pattern)
    THEN IsStrictPrefix(Front(pattern), q)
    ELSE pattern = q
=============================================================================
