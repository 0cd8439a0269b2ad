---------------------------- MODULE AccessProofs ----------------------------
(***************************************************************************)
(* Proofs about AccessControl, for any number of principals, patterns and  *)
(* concurrent requests.                                                    *)
(***************************************************************************)
EXTENDS AccessControl, FiniteSetTheorems, SequenceTheorems, TLAPS

\* Max of a set that has a greatest element is that element.
LEMMA MaxIsGreatest ==
  ASSUME NEW S, NEW m \in S, S \subseteq Int, \A x \in S : x <= m
  PROVE  Max(S) = m
<1>1. m \in S /\ \A y \in S : m >= y
  OBVIOUS
<1>2. ASSUME NEW x \in S, \A y \in S : x >= y
      PROVE  x = m
  BY <1>2
<1>3. \E x \in S : \A y \in S : x >= y
  BY <1>1
<1> DEFINE IsMax(x) == \A y \in S : x >= y
<1>4. Max(S) \in S /\ IsMax(Max(S))
  BY <1>3, Zenon DEF Max
<1> QED
  BY <1>2, <1>4

\* The loop of EffectivePermission keeps the highest level of the matching
\* rows, so reaching a level means being an admin or having one row that does.
THEOREM EffectiveIsSomeGrant ==
  ASSUME AccessTypeOK, NEW who \in Principal, NEW path, NEW level \in {Read, Write, Owner}
  PROVE  EffectivePermission(who, path) >= level <=>
           \/ who \in admins
           \/ \E q \in Pattern : PatternMatches(q, path) /\ grants[who][q] >= level
<1> DEFINE S == {NoAccess} \cup
                {grants[who][q] : q \in {r \in Pattern : PatternMatches(r, path)}}
<1>1. S \subseteq Permission /\ NoAccess \in S
  BY DEF AccessTypeOK, Permission
<1>2. S \subseteq Int /\ \E m \in S : \A x \in S : x <= m
  BY <1>1 DEF Permission, NoAccess, Read, Write, Owner
<1>3. (\E x \in S : x >= level) <=>
        \E q \in Pattern : PatternMatches(q, path) /\ grants[who][q] >= level
  BY DEF NoAccess, Read, Write, Owner
<1>4. EffectivePermission(who, path) = IF who \in admins THEN Owner ELSE Max(S)
  BY Zenon DEF EffectivePermission
<1> HIDE DEF S
<1>5. Max(S) \in S /\ \A x \in S : x <= Max(S)
  BY <1>2, MaxIsGreatest
<1>6. Max(S) >= level <=> \E x \in S : x >= level
  <2>1. ASSUME NEW x \in S, x >= level
        PROVE  Max(S) >= level
    <3>1. x \in Int /\ Max(S) \in Int
      BY <1>2, <1>5
    <3>2. x <= Max(S)
      BY <1>5
    <3>3. level \in Int
      BY DEF Read, Write, Owner
    <3> HIDE <1>5
    <3> QED
      BY <2>1, <3>1, <3>2, <3>3
  <2> QED
    BY <1>5, <2>1
<1> QED
  BY <1>3, <1>4, <1>6 DEF Read, Write, Owner

\* What is left of a pattern without its last segment.
LEMMA FrontOfPattern ==
  ASSUME NEW s \in Seq(STRING), s # << >>
  PROVE  /\ Front(s) \in Seq(STRING)
         /\ Len(Front(s)) = Len(s) - 1
         /\ \A i \in 1 .. Len(s) - 1 : Front(s)[i] = s[i]
<1> DEFINE n == Len(s) - 1
<1>1. Len(s) \in Nat /\ Len(s) # 0
  OBVIOUS
<1>2. n \in Nat
  BY <1>1
<1>3. \A i \in 1 .. n : s[i] \in STRING
  OBVIOUS
<1> HIDE DEF n
<1>4. /\ SubSeq(s, 1, n) \in Seq(STRING)
      /\ Len(SubSeq(s, 1, n)) = IF 1 <= n THEN n - 1 + 1 ELSE 0
      /\ \A i \in 1 .. n - 1 + 1 : SubSeq(s, 1, n)[i] = s[1 + i - 1]
  BY <1>2, <1>3, SubSeqProperties
<1>5. Len(SubSeq(s, 1, n)) = n /\ \A i \in 1 .. n : SubSeq(s, 1, n)[i] = s[i]
  BY <1>2, <1>4
<1> QED
  BY <1>4, <1>5 DEF Front, n

\* A strict prefix is shorter, and agrees position by position.
LEMMA StrictPrefixIndices ==
  ASSUME NEW s \in Seq(STRING), NEW t \in Seq(STRING)
  PROVE  IsStrictPrefix(s, t) <=>
           Len(s) < Len(t) /\ \A i \in 1 .. Len(s) : s[i] = t[i]
<1>1. SubSeq(s, 1, Len(s)) = s
  OBVIOUS
<1>2. ASSUME Len(s) <= Len(t)
      PROVE  SubSeq(t, 1, Len(s)) = s <=> \A i \in 1 .. Len(s) : s[i] = t[i]
  BY <1>2
<1>3. Len(s) = Len(t) /\ (\A i \in 1 .. Len(s) : s[i] = t[i]) => s = t
  OBVIOUS
<1> QED
  BY <1>1, <1>2, <1>3 DEF IsStrictPrefix, IsPrefix

\* A pattern that covers a second pattern covers all that the second covers:
\* CanGrant, which asks whether the caller owns the pattern of a grant as if it
\* were a path, never lets an owner hand out a path outside its own pattern.
THEOREM GrantsStayBeneath ==
  ASSUME NEW q \in Seq(STRING), NEW r \in Seq(STRING), NEW p \in Seq(STRING),
         PatternMatches(q, r), PatternMatches(r, p)
  PROVE  PatternMatches(q, p)
<1>1. CASE ~ IsPrefixPattern(q)
  BY <1>1 DEF PatternMatches
<1>2. CASE IsPrefixPattern(q) /\ ~ IsPrefixPattern(r)
  BY <1>2 DEF PatternMatches
<1>3. CASE IsPrefixPattern(q) /\ IsPrefixPattern(r)
  <2>1. Front(q) \in Seq(STRING) /\ Front(r) \in Seq(STRING) /\ Len(Front(r)) = Len(r) - 1
    BY <1>3, FrontOfPattern DEF IsPrefixPattern
  <2>2. \A i \in 1 .. Len(r) - 1 : Front(r)[i] = r[i]
    BY <1>3, FrontOfPattern DEF IsPrefixPattern
  <2>3. Len(Front(q)) < Len(r) /\ \A i \in 1 .. Len(Front(q)) : Front(q)[i] = r[i]
    <3>1. IsStrictPrefix(Front(q), r)
      BY <1>3 DEF PatternMatches
    <3> QED
      BY <2>1, <3>1, StrictPrefixIndices
  <2>4. Len(Front(r)) < Len(p) /\ \A i \in 1 .. Len(Front(r)) : Front(r)[i] = p[i]
    <3>1. IsStrictPrefix(Front(r), p)
      BY <1>3 DEF PatternMatches
    <3> QED
      BY <2>1, <3>1, StrictPrefixIndices
  <2>5. Len(Front(q)) < Len(p) /\ \A i \in 1 .. Len(Front(q)) : Front(q)[i] = p[i]
    BY <2>1, <2>2, <2>3, <2>4
  <2> QED
    BY <1>3, <2>1, <2>5, StrictPrefixIndices DEF PatternMatches
<1> QED
  BY <1>1, <1>2, <1>3

-----------------------------------------------------------------------------
(* Types, and the last admin.                                              *)

AdminInv == AccessTypeOK /\ AdminRemains /\ IsFiniteSet(admins)

LEMMA AccessInitInv == AccessInit => AdminInv
<1> SUFFICES ASSUME AccessInit PROVE AdminInv
  OBVIOUS
<1>1. AccessTypeOK
  BY AccessConstants DEF AccessInit, AccessTypeOK, Permission, Owner, NoAccess
<1>2. AdminRemains /\ IsFiniteSet(admins)
  BY FS_Singleton DEF AccessInit, AdminRemains
<1> QED
  BY <1>1, <1>2 DEF AdminInv

\* Taking the role from a principal that is not the last admin leaves an admin.
LEMMA NotTheLast ==
  ASSUME AdminInv, NEW who, ~ IsLastAdmin(who)
  PROVE  admins \ {who} # {} /\ IsFiniteSet(admins \ {who})
<1>1. CASE who \notin admins
  BY <1>1 DEF AdminInv, AdminRemains
<1>2. CASE who \in admins
  <2>1. Cardinality(admins) \in Nat /\ ~ (Cardinality(admins) <= 1)
    BY <1>2, FS_CardinalityType DEF AdminInv, IsLastAdmin
  <2>2. IsFiniteSet(admins \ {who}) /\ Cardinality(admins \ {who}) = Cardinality(admins) - 1
    BY <1>2, FS_RemoveElement DEF AdminInv
  <2> QED
    BY <2>1, <2>2, FS_EmptySet
<1> QED
  BY <1>1, <1>2

\* What a step that only answers or advances a request leaves alone.
LEMMA CallStepInv ==
  ASSUME AdminInv, NEW k \in Clerk,
         Accept(k) \/ Authorize(k) \/ Resolve(k) \/ AccessFails(k)
  PROVE  AdminInv' /\ UNCHANGED <<members, admins, grants>>
<1> USE DEF AdminInv, AccessTypeOK
<1>1. UNCHANGED <<members, admins, grants>>
  BY DEF Accept, Authorize, Resolve, AccessFails
<1>2. call' \in [Clerk -> Request \cup {NoCall}]
  <2>1. CASE Accept(k)
    BY <2>1 DEF Accept
  <2>2. CASE Respond(k)
    BY <2>2 DEF Respond
  <2>3. ASSUME NEW s \in Step, Advance(k, s), call[k] \in Request
        PROVE  call' \in [Clerk -> Request \cup {NoCall}]
    <3>1. [call[k] EXCEPT !.step = s] \in Request
      BY <2>3 DEF Request, GrantCall, RevokeCall, RosterCall
    <3> QED
      BY <2>3, <3>1 DEF Advance
  <2>4. CASE Authorize(k)
    <3>1. call[k] \in Request /\ "resolve" \in Step
      BY <2>4 DEF Authorize, NoCall, Step
    <3> QED
      BY <2>2, <2>3, <2>4, <3>1 DEF Authorize
  <2>5. CASE Resolve(k)
    <3>1. call[k] \in Request /\ "apply" \in Step
      BY <2>5 DEF Resolve, NoCall, Step
    <3> QED
      BY <2>2, <2>3, <2>5, <3>1 DEF Resolve
  <2>6. CASE AccessFails(k)
    BY <2>2, <2>6 DEF AccessFails
  <2> QED
    BY <2>1, <2>4, <2>5, <2>6
<1>3. AdminRemains'
  BY <1>1 DEF AdminRemains
<1> QED
  BY <1>1, <1>2, <1>3

\* The fields of a request that is about to be applied.
LEMMA RequestFields ==
  ASSUME AccessTypeOK, NEW k \in Clerk, call[k].step = "apply"
  PROVE  /\ call[k].target \in Principal
         /\ call[k].op = "grant" => call[k].pattern \in Pattern /\ call[k].level \in GrantLevel
         /\ call[k].op = "revoke" => call[k].pattern \in Pattern
<1>1. call[k] \in Request
  BY DEF AccessTypeOK, NoCall
<1> QED
  BY <1>1 DEF Request, GrantCall, RevokeCall, RosterCall

LEMMA ApplyInv ==
  ASSUME AdminInv, NEW k \in Clerk, Apply(k)
  PROVE  AdminInv'
<1>1. AccessTypeOK /\ AdminRemains /\ IsFiniteSet(admins)
  BY DEF AdminInv
<1>2. call' \in [Clerk -> Request \cup {NoCall}]
  BY <1>1 DEF Apply, Respond, AccessTypeOK
<1>3. /\ call[k].target \in Principal
      /\ call[k].op = "grant" => call[k].pattern \in Pattern /\ call[k].level \in GrantLevel
      /\ call[k].op = "revoke" => call[k].pattern \in Pattern
  BY <1>1, RequestFields DEF Apply
<1> DEFINE Tables == /\ members' \subseteq Principal
                     /\ grants' \in [Principal -> [Pattern -> Permission]]
                     /\ admins' \subseteq Principal
                     /\ admins' # {} /\ IsFiniteSet(admins')
<1>4. ASSUME NEW enforced \in ForeignKeys, SetGrant(k, enforced)
      PROVE  Tables
  <2>1. call[k].level \in Permission
    BY <1>3, <1>4, AccessConstants DEF SetGrant, Permission
  <2> QED
    BY <1>1, <1>3, <1>4, <2>1 DEF SetGrant, AccessTypeOK, AdminRemains
<1>5. ASSUME NEW enforced \in ForeignKeys, AddRole(k, enforced)
      PROVE  Tables
  <2>1. IsFiniteSet(admins \cup {call[k].target})
    BY <1>1, FS_AddElement
  <2> QED
    BY <1>1, <1>3, <1>5, <2>1 DEF AddRole, AccessTypeOK
<1>6. ASSUME RevokeGrant(k)
      PROVE  Tables
  BY <1>1, <1>3, <1>6 DEF RevokeGrant, AccessTypeOK, AdminRemains, Permission
<1>7. ASSUME AddPrincipal(k)
      PROVE  Tables
  BY <1>1, <1>3, <1>7 DEF AddPrincipal, AccessTypeOK, AdminRemains
<1>8. ASSUME RemovePrincipal(k)
      PROVE  Tables
  <2>1. admins' # {} /\ IsFiniteSet(admins')
    BY <1>8, NotTheLast DEF RemovePrincipal
  <2> QED
    BY <1>1, <1>3, <1>8, <2>1 DEF RemovePrincipal, AccessTypeOK, Permission
<1>9. ASSUME RevokeAdmin(k)
      PROVE  Tables
  <2>1. admins' # {} /\ IsFiniteSet(admins')
    BY <1>9, NotTheLast DEF RevokeAdmin
  <2> QED
    BY <1>1, <1>9, <2>1 DEF RevokeAdmin, AccessTypeOK
<1>10. Tables
  BY <1>4, <1>5, <1>6, <1>7, <1>8, <1>9 DEF Apply
<1> QED
  BY <1>2, <1>10 DEF AdminInv, AccessTypeOK, AdminRemains

LEMMA AdminInvUnchanged == AdminInv /\ UNCHANGED accessVars => AdminInv'
BY DEF AdminInv, AccessTypeOK, AdminRemains, accessVars

LEMMA AccessNextInv == AdminInv /\ AccessNext => AdminInv'
BY CallStepInv, ApplyInv DEF AccessNext

\* The inductive invariant holds in every reachable state.
LEMMA AdminInvAlways == AccessSpec => []AdminInv
<1>1. AdminInv /\ [AccessNext]_accessVars => AdminInv'
  BY AdminInvUnchanged, AccessNextInv
<1> QED
  BY <1>1, AccessInitInv, PTL DEF AccessSpec

\* The tables and the requests in progress keep their types, however the
\* handlers of access_handlers.go interleave.
THEOREM AccessTypeCorrect == AccessSpec => []AccessTypeOK
<1>1. AdminInv => AccessTypeOK
  BY DEF AdminInv
<1> QED
  BY <1>1, AdminInvAlways, PTL

\* RemovePrincipal and RevokeAdmin count the admins in the transaction that
\* takes the role away, so that no number of concurrent requests, each
\* authorized before the others took effect, leaves the repository without one.
THEOREM AdminAlways == AccessSpec => []AdminRemains
<1>1. AdminInv => AdminRemains
  BY DEF AdminInv
<1> QED
  BY <1>1, AdminInvAlways, PTL
=============================================================================
