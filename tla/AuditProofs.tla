---------------------------- MODULE AuditProofs ----------------------------
(***************************************************************************)
(* Proofs, for any number of requests, that a push writes only what its    *)
(* author could write at some time while the push held the write lock, and *)
(* that only who is removed under a request's hands may keep a row.        *)
(***************************************************************************)
EXTENDS PushAudit, PushProofs

-----------------------------------------------------------------------------
(* What a push has authorized.                                             *)

\* What w has still to authorize is all, before it has the lock; what it has
\* authorized was writable since it has the lock; after that, everything was.
AuthorizedSoFar(w) ==
  /\ push[w].step \in {"member", "objects", "lock"} => push[w].todo = Changes(push[w].commit)
  /\ push[w].step = "authorize" => Changes(push[w].commit) \ push[w].todo \subseteq allowed[w]
  /\ push[w].step \in {"check", "write", "lookup", "publish"} =>
       Changes(push[w].commit) \subseteq allowed[w]

AuditInv == allowed \in [Pusher -> SUBSET Path] /\ \A w \in Pusher : AuthorizedSoFar(w)

-----------------------------------------------------------------------------

LEMMA InitAudit == AuditInit => AuditInv
BY DEF AuditInit, AuditInv, AuthorizedSoFar, Init, PushInit, Idle

LEMMA ObserveFacts ==
  ASSUME AuditInv, ObserveAllowed
  PROVE  /\ allowed' \in [Pusher -> SUBSET Path]
         /\ \A w \in Pusher : lock' = w => Writable(w)' \subseteq allowed'[w]
         /\ \A w \in Pusher : lock' = w /\ lock = w => allowed[w] \subseteq allowed'[w]
<1>1. \A w \in Pusher : Writable(w)' \subseteq Path
  BY DEF Writable
<1> QED
  BY <1>1 DEF ObserveAllowed, AuditInv

\* A request that a step leaves alone keeps what it has established.
LEMMA SameRequest ==
  ASSUME AuditInv, ObserveAllowed, Inv, Inv', NEW w \in Pusher, push'[w] = push[w],
         push[w] # Idle => base'[push[w].commit] = base[push[w].commit]
  PROVE  AuthorizedSoFar(w)'
<1>1. CASE push[w] = Idle
  BY <1>1 DEF AuthorizedSoFar, Idle
<1>2. CASE push[w] # Idle
  <2>1. push[w].step \in Locked => lock = w /\ lock' = w
    BY DEF Inv, RequestInv, LockHeld
  <2>2. push[w].step \in Locked => allowed[w] \subseteq allowed'[w]
    BY <2>1, ObserveFacts
  <2> QED
    BY <1>2, <2>2 DEF AuthorizedSoFar, AuditInv, Locked, Changes
<1> QED
  BY <1>1, <1>2

\* A step of w's own.
LEMMA OwnStep ==
  ASSUME AuditInv, ObserveAllowed, Inv, Inv', NEW w \in Pusher, Handle(w)
  PROVE  AuthorizedSoFar(w)'
<1> DEFINE c == push[w].commit
<1>1. push \in [Pusher -> PushCall \cup {Idle}] /\ AuthorizedSoFar(w)
  BY DEF Inv, TypeOK, AuditInv
<1>2. /\ push[w].step \in Locked => lock = w
      /\ push'[w].step \in Locked => lock' = w
  BY DEF Inv, RequestInv, LockHeld
<1>3. push[w].step \in Locked /\ push'[w].step \in Locked => allowed[w] \subseteq allowed'[w]
  BY <1>2, ObserveFacts
<1>4. CASE push'[w] = Idle
  BY <1>4 DEF AuthorizedSoFar, Idle
<1>5. ASSUME NEW s \in PushStep, GoTo(w, s), UNCHANGED base,
             s \in {"member", "objects", "lock"} =>
               push[w].step \in {"member", "objects", "lock"},
             s = "authorize" => push[w].step = "lock",
             s \in {"check", "write", "lookup", "publish"} =>
               push[w].step \in {"check", "write", "lookup", "publish"}
      PROVE  AuthorizedSoFar(w)'
  <2>1. push'[w] = [push[w] EXCEPT !.step = s]
    BY <1>1, <1>5 DEF GoTo
  <2>2. push[w] # Idle
    BY <1>5 DEF Idle, PushStep
  <2>3. push'[w].step = s /\ push'[w].commit = c /\ push'[w].todo = push[w].todo
    BY <1>1, <2>1, <2>2 DEF PushCall
  <2>4. CASE s \in {"member", "objects", "lock", "authorize"}
    BY <1>1, <1>5, <2>3, <2>4 DEF AuthorizedSoFar, Changes
  <2>5. CASE s \in {"check", "write", "lookup", "publish"}
    BY <1>1, <1>3, <1>5, <2>3, <2>5 DEF AuthorizedSoFar, Changes, Locked
  <2> QED
    BY <1>5, <2>4, <2>5 DEF PushStep
<1>6. CASE \E p \in Path : AuthorizePath(w, p)
  <2>1. PICK p \in Path : AuthorizePath(w, p)
    BY <1>6
  <2>2. push[w] # Idle /\ push[w].step \in Locked /\ lock' = lock
    BY <2>1 DEF AuthorizePath, Idle, Locked
  <2>3. push'[w].commit = c /\ push'[w].todo = push[w].todo \ {p}
    BY <1>1, <2>1, <2>2 DEF AuthorizePath, PushCall
  <2>4. push'[w].step = IF push[w].todo = {p} THEN "check" ELSE "authorize"
    BY <1>1, <2>1, <2>2 DEF AuthorizePath, PushCall
  <2>5. p \in Writable(w)'
    <3>1. UNCHANGED <<admins, grants, author>>
      BY <2>1 DEF AuthorizePath, accessVars, commitVars
    <3>2. author'[push'[w].commit] = author[c] /\ CanWrite(author[c], p)
      BY <2>1, <2>3, <3>1 DEF AuthorizePath
    <3>3. CanWrite(author[push[w].commit], p)'
      BY <3>1, <3>2, Zenon DEF CanWrite, EffectivePermission
    <3>4. push'[w] # Idle
      BY <2>4 DEF Idle
    <3> QED
      BY <3>3, <3>4 DEF Writable, Idle
  <2>6. Changes(c) \ push[w].todo \subseteq allowed'[w] /\ p \in allowed'[w]
    BY <1>1, <1>2, <2>1, <2>2, <2>5, ObserveFacts DEF AuthorizedSoFar, AuthorizePath
  <2>7. base' = base
    BY <2>1 DEF AuthorizePath, commitVars
  <2> QED
    BY <2>3, <2>4, <2>6, <2>7 DEF AuthorizedSoFar, Changes
<1>7. CASE \E p \in Path : RefusePath(w, p)
  BY <1>1, <1>4, <1>7 DEF RefusePath, Reply
<1>8. CASE RequireMember(w) \/ RequireObjects(w)
  <2>1. push'[w] = Idle \/ GoTo(w, "objects") \/ GoTo(w, "lock")
    BY <1>1, <1>8 DEF RequireMember, RequireObjects, Reply
  <2>2. push[w].step \in {"member", "objects"} /\ UNCHANGED base
    BY <1>8 DEF RequireMember, RequireObjects, commitVars
  <2> QED
    BY <1>4, <1>5, <2>1, <2>2 DEF PushStep
<1>9. CASE Lock(w)
  BY <1>5, <1>9 DEF Lock, commitVars, PushStep
<1>10. CASE CheckBases(w) \/ WriteCommit(w) \/ SeqForCommit(w)
  <2>1. push'[w] = Idle \/ GoTo(w, "write") \/ GoTo(w, "lookup") \/ GoTo(w, "publish")
    BY <1>1, <1>10 DEF CheckBases, WriteCommit, SeqForCommit, Reply
  <2>2. push[w].step \in {"check", "write", "lookup"} /\ UNCHANGED base
    BY <1>10 DEF CheckBases, WriteCommit, SeqForCommit, commitVars
  <2> QED
    BY <1>4, <1>5, <2>1, <2>2 DEF PushStep
<1>11. CASE Publish(w) \/ PushFails(w)
  BY <1>1, <1>4, <1>11 DEF Publish, PushFails, Reply
<1> QED
  BY <1>6, <1>7, <1>8, <1>9, <1>10, <1>11 DEF Handle

LEMMA AuditStep == AuditInv /\ Inv /\ [AuditNext]_<<vars, histories>> => AuditInv'
<1> SUFFICES ASSUME AuditInv, Inv, [AuditNext]_<<vars, histories>> PROVE AuditInv'
  OBVIOUS
<1>1. CASE UNCHANGED <<vars, histories>>
  BY <1>1 DEF AuditInv, AuthorizedSoFar, Changes, vars, pushVars, commitVars, histories
<1>2. CASE AuditNext
  <2>1. Inv' /\ ObserveAllowed
    BY <1>2, NextKeepsInv DEF AuditNext
  <2>2. allowed' \in [Pusher -> SUBSET Path]
    BY <2>1, ObserveFacts
  <2>3. push \in [Pusher -> PushCall \cup {Idle}]
    BY DEF Inv, TypeOK
  <2> SUFFICES ASSUME NEW w \in Pusher PROVE AuthorizedSoFar(w)'
    BY <2>2 DEF AuditInv
  <2>4. ASSUME push'[w] = push[w], UNCHANGED base PROVE AuthorizedSoFar(w)'
    BY <2>1, <2>4, SameRequest
  <2>5. CASE Handle(w)
    BY <2>1, <2>5, OwnStep
  <2>6. ASSUME NEW v \in Pusher \ {w}, Handle(v) PROVE AuthorizedSoFar(w)'
    <3>1. push'[w] = push[w]
      BY <2>3, <2>6 DEF Handle, RequireMember, RequireObjects, Lock, AuthorizePath, RefusePath,
         CheckBases, WriteCommit, SeqForCommit, Publish, PushFails, GoTo, Reply
    <3>2. UNCHANGED base
      BY <2>6 DEF Handle, RequireMember, RequireObjects, Lock, AuthorizePath, RefusePath,
         CheckBases, WriteCommit, SeqForCommit, Publish, PushFails, commitVars
    <3> QED
      BY <2>4, <3>1, <3>2
  <2>7. ASSUME NEW v \in Pusher, NEW c \in Commit, Receive(v, c) PROVE AuthorizedSoFar(w)'
    <3>1. UNCHANGED base
      BY <2>7 DEF Receive, commitVars
    <3>2. CASE v = w
      <4>1. push'[w] = [step |-> "member", commit |-> c, todo |-> Changes(c)]
        BY <2>3, <2>7, <3>2 DEF Receive
      <4> QED
        BY <3>1, <4>1 DEF AuthorizedSoFar, Changes
    <3>3. CASE v # w
      BY <2>3, <2>4, <2>7, <3>1, <3>3 DEF Receive
    <3> QED
      BY <3>2, <3>3
  <2>8. ASSUME NEW c \in Commit, NEW a \in Principal, MakeCommit(c, a) PROVE AuthorizedSoFar(w)'
    <3>1. push' = push /\ Changes(c) = {}
      BY <2>8 DEF MakeCommit
    <3>2. push[w] # Idle => push[w].commit # c /\ push[w].commit \in Commit
      BY <2>3, <3>1 DEF Inv, RequestInv, RequestsMade, PushCall
    <3>3. \A d \in Commit \ {c} : base'[d] = base[d]
      BY <2>8 DEF MakeCommit, Inv, TypeOK
    <3> QED
      BY <2>1, <3>1, <3>2, <3>3, SameRequest
  <2>9. ASSUME NEW a \in Principal, NEW o \in Object, UploadObject(a, o) PROVE AuthorizedSoFar(w)'
    BY <2>4, <2>9 DEF UploadObject, commitVars
  <2>10. CASE AccessNext /\ UNCHANGED pushVars
    BY <2>4, <2>10 DEF pushVars, commitVars
  <2>11. CASE Crash
    BY <2>11 DEF Crash, AuthorizedSoFar, Idle
  <2> QED
    BY <1>2, <2>5, <2>6, <2>7, <2>8, <2>9, <2>10, <2>11 DEF AuditNext, Next, PushNext
<1> QED
  BY <1>1, <1>2

\* However grants, revocations and removals overlap with a push, each path it
\* writes was writable by its author at some time while it held the lock, so
\* a revocation that was complete before is obeyed (handlePush).
THEOREM WritesAuthorized == AuditSpec => []AuthorizedUnderLock
<1>1. AuditInit => AuditInv /\ Inv
  BY InitAudit, InitInv DEF AuditInit
<1>2. AuditInv /\ Inv /\ [AuditNext]_<<vars, histories>> => (AuditInv /\ Inv)'
  <2>1. [AuditNext]_<<vars, histories>> => [Next]_vars
    BY DEF AuditNext
  <2> QED
    BY <2>1, AuditStep, NextKeepsInv
<1>3. AuditInv /\ Inv => AuthorizedUnderLock
  BY DEF AuditInv, AuthorizedSoFar, AuthorizedUnderLock
<1> QED
  BY <1>1, <1>2, <1>3, PTL DEF AuditSpec

-----------------------------------------------------------------------------
(* Rows and members.                                                       *)

\* Whoever is about to be given a row is a member, or was removed meanwhile.
GivenToKnown ==
  \A k \in Clerk : call[k].step = "apply" /\ call[k].op \in {"grant", "addAdmin"} =>
    call[k].target \in members \cup overtaken

RowsInv == GivenToKnown /\ RowsOfMembers

\* At first the one member holds all the rows, and nobody is at work.
LEMMA InitRows == AuditInit => RowsInv
<1> SUFFICES ASSUME AuditInit PROVE RowsInv
  OBVIOUS
<1>1. GivenToKnown
  BY DEF GivenToKnown, AuditInit, Init, AccessInit, NoCall
<1>2. RowsOfMembers
  BY AccessConstants DEF RowsOfMembers, AuditInit, Init, AccessInit, NoAccess, Owner
<1> QED
  BY <1>1, <1>2 DEF RowsInv

\* What the history tells of a step: former members stay in it unless they
\* are members again, and who leaves under a request's hands enters it.
LEMMA OvertakenFacts ==
  ASSUME ObserveOvertaken, NEW u \in Principal \ members'
  PROVE  u \in overtaken' <=> u \in overtaken \/ (u \in members /\ AboutToGive(u))
BY DEF ObserveOvertaken

\* A step that leaves roster, roles and grants alone, and gives a request the
\* step apply only if its target is a member.
LEMMA CallRows ==
  ASSUME RowsInv, AccessTypeOK, AccessTypeOK', ObserveOvertaken, UNCHANGED <<members, admins, grants>>,
         \A k \in Clerk : call'[k].step = "apply" /\ call'[k].op \in {"grant", "addAdmin"} =>
           call'[k] = call[k] \/ call'[k].target \in members
  PROVE  RowsInv'
<1>1. \A u \in Principal \ members : u \in overtaken' <=> u \in overtaken
  BY OvertakenFacts
<1>2. RowsOfMembers'
  BY <1>1 DEF RowsInv, RowsOfMembers
<1>3. GivenToKnown'
  <2> SUFFICES ASSUME NEW k \in Clerk, call'[k].step = "apply", call'[k].op \in {"grant", "addAdmin"}
               PROVE  call'[k].target \in members \cup overtaken'
    BY DEF GivenToKnown
  <2>1. CASE call'[k].target \in members
    BY <2>1
  <2>2. CASE call'[k] = call[k]
    <3>1. call[k].target \in members \cup overtaken
      BY <2>2 DEF RowsInv, GivenToKnown
    <3>2. call'[k].target \in Principal
      BY <2>2, RequestFields
    <3> QED
      BY <1>1, <2>2, <3>1, <3>2
  <2> QED
    BY <2>1, <2>2
<1> QED
  BY <1>2, <1>3 DEF RowsInv

\* A row inserted for one who is no member goes to a former member whom the
\* request found in the roster, past a constraint that is not enforced; a
\* removal takes the rows with it.
LEMMA ApplyRows ==
  ASSUME RowsInv, AccessTypeOK, ObserveOvertaken, NEW k \in Clerk, Apply(k)
  PROVE  RowsInv'
<1> DEFINE t == call[k].target
<1>1. /\ t \in Principal
      /\ call[k].op = "grant" => call[k].pattern \in Pattern
      /\ call[k].op = "revoke" => call[k].pattern \in Pattern
  BY RequestFields DEF Apply
<1>2. call' = [call EXCEPT ![k] = NoCall] /\ call[k].step = "apply"
  BY DEF Apply, Respond
<1>3. GivenToKnown'
  <2> SUFFICES ASSUME NEW j \in Clerk, call'[j].step = "apply", call'[j].op \in {"grant", "addAdmin"}
               PROVE  call'[j].target \in members' \cup overtaken'
    BY DEF GivenToKnown
  <2>1. j # k /\ call'[j] = call[j]
    BY <1>2 DEF AccessTypeOK, NoCall
  <2>2. call[j].target \in members \cup overtaken /\ call[j].target \in Principal
    BY <2>1, RequestFields DEF RowsInv, GivenToKnown
  <2>3. AboutToGive(call[j].target)
    BY <2>1 DEF AboutToGive
  <2> QED
    BY <2>1, <2>2, <2>3, OvertakenFacts
<1>4. RowsOfMembers'
  <2> SUFFICES ASSUME NEW u \in Principal \ members',
                      u \in admins' \/ \E q \in Pattern : grants'[u][q] # NoAccess
               PROVE  u \in overtaken' /\ FALSE \in ForeignKeys
    BY DEF RowsOfMembers
  <2> DEFINE HasRow(v) == v \in admins \/ \E q \in Pattern : grants[v][q] # NoAccess
  <2>1. \A v \in Principal \ members : HasRow(v) => v \in overtaken /\ FALSE \in ForeignKeys
    BY DEF RowsInv, RowsOfMembers
  <2>2. ASSUME u \notin members, HasRow(u)
        PROVE  u \in overtaken' /\ FALSE \in ForeignKeys
    BY <2>1, <2>2, OvertakenFacts
  <2>3. ASSUME u = t, u \notin members, call[k].op \in {"grant", "addAdmin"}
        PROVE  u \in overtaken'
    BY <1>2, <2>3, OvertakenFacts DEF RowsInv, GivenToKnown
  <2>4. ASSUME NEW enforced \in ForeignKeys, SetGrant(k, enforced)
        PROVE  u \in overtaken' /\ FALSE \in ForeignKeys
    <3>1. u \notin members /\ admins' = admins
      BY <2>4 DEF SetGrant
    <3>2. CASE u = t
      <4>1. enforced = FALSE
        BY <2>4, <3>1, <3>2, AccessConstants DEF SetGrant, ReferencesMember
      <4> QED
        BY <2>3, <2>4, <3>1, <3>2, <4>1 DEF SetGrant
    <3>3. CASE u # t
      <4>1. grants'[u] = grants[u]
        BY <1>1, <2>4, <3>3 DEF SetGrant, AccessTypeOK
      <4> QED
        BY <2>2, <3>1, <4>1
    <3> QED
      BY <3>2, <3>3
  <2>5. ASSUME NEW enforced \in ForeignKeys, AddRole(k, enforced)
        PROVE  u \in overtaken' /\ FALSE \in ForeignKeys
    <3>1. u \notin members /\ grants' = grants /\ admins' = admins \cup {t}
      BY <2>5 DEF AddRole
    <3>2. CASE u = t
      <4>1. enforced = FALSE
        BY <2>5, <3>1, <3>2, AccessConstants DEF AddRole, ReferencesMember
      <4> QED
        BY <2>3, <2>5, <3>1, <3>2, <4>1 DEF AddRole
    <3>3. CASE u # t
      BY <2>2, <3>1, <3>3
    <3> QED
      BY <3>2, <3>3
  <2>6. CASE RevokeGrant(k)
    <3>1. u \notin members /\ admins' = admins
      BY <2>6 DEF RevokeGrant
    <3>2. \A q \in Pattern : grants'[u][q] # NoAccess => grants[u][q] # NoAccess
      BY <1>1, <2>6 DEF RevokeGrant, AccessTypeOK
    <3> QED
      BY <2>2, <3>1, <3>2
  <2>7. CASE AddPrincipal(k) \/ RevokeAdmin(k)
    <3>1. u \notin members /\ HasRow(u)
      BY <2>7 DEF AddPrincipal, RevokeAdmin
    <3> QED
      BY <2>2, <3>1
  <2>8. CASE RemovePrincipal(k)
    <3>1. u # t
      BY <1>1, <2>8 DEF RemovePrincipal, AccessTypeOK
    <3>2. u \notin members /\ HasRow(u)
      BY <1>1, <2>8, <3>1 DEF RemovePrincipal, AccessTypeOK
    <3> QED
      BY <2>2, <3>2
  <2> QED
    BY <2>4, <2>5, <2>6, <2>7, <2>8 DEF Apply
<1> QED
  BY <1>3, <1>4 DEF RowsInv

LEMMA RowsStep == RowsInv /\ Inv /\ [AuditNext]_<<vars, histories>> => RowsInv'
<1> SUFFICES ASSUME RowsInv, Inv, [AuditNext]_<<vars, histories>> PROVE RowsInv'
  OBVIOUS
<1>1. CASE UNCHANGED <<vars, histories>>
  BY <1>1 DEF RowsInv, GivenToKnown, RowsOfMembers, vars, accessVars, histories
<1>2. CASE AuditNext
  <2>1. AccessTypeOK /\ AccessTypeOK' /\ ObserveOvertaken
    BY <1>2, NextKeepsInv DEF AuditNext, Inv, TypeOK
  <2>2. CASE UNCHANGED accessVars
    BY <2>1, <2>2, CallRows DEF accessVars
  <2>3. CASE Crash
    BY <2>1, <2>3, CallRows DEF Crash, NoCall
  <2>4. ASSUME NEW k \in Clerk, Accept(k) \/ Authorize(k) \/ Resolve(k) \/ AccessFails(k)
        PROVE  RowsInv'
    <3>1. UNCHANGED <<members, admins, grants>>
      BY <2>4 DEF Accept, Authorize, Resolve, AccessFails
    <3>2. \A j \in Clerk \ {k} : call'[j] = call[j]
      BY <2>1, <2>4 DEF AccessTypeOK, Accept, Authorize, Resolve, AccessFails, Advance, Respond
    <3>3. ASSUME call'[k].step = "apply", call'[k].op \in {"grant", "addAdmin"}
          PROVE  call'[k].target \in members
      <4>1. CASE Accept(k)
        BY <2>1, <3>3, <4>1 DEF Accept, AccessTypeOK
      <4>2. CASE Respond(k)
        BY <2>1, <3>3, <4>2 DEF Respond, AccessTypeOK, NoCall
      <4>3. CASE Authorize(k) /\ ~ Respond(k)
        <5>1. call[k] \in Request /\ Advance(k, "resolve")
          BY <2>1, <4>3 DEF Authorize, AccessTypeOK, NoCall
        <5>2. call'[k] = [call[k] EXCEPT !.step = "resolve"]
          BY <2>1, <5>1 DEF Advance, AccessTypeOK
        <5> QED
          BY <3>3, <5>1, <5>2 DEF Request, GrantCall, RevokeCall, RosterCall
      <4>4. CASE Resolve(k) /\ ~ Respond(k)
        <5>1. call[k] \in Request /\ Advance(k, "apply")
          BY <2>1, <4>4 DEF Resolve, AccessTypeOK, NoCall
        <5>2. call'[k] = [call[k] EXCEPT !.step = "apply"]
          BY <2>1, <5>1 DEF Advance, AccessTypeOK
        <5>3. call'[k].op = call[k].op /\ call'[k].target = call[k].target
          BY <5>1, <5>2 DEF Request, GrantCall, RevokeCall, RosterCall
        <5>4. call[k].op = "addMember" \/ call[k].target \in members
          BY <4>4 DEF Resolve
        <5> QED
          BY <3>3, <5>3, <5>4
      <4> QED
        BY <2>4, <4>1, <4>2, <4>3, <4>4 DEF AccessFails
    <3> QED
      BY <2>1, <3>1, <3>2, <3>3, CallRows
  <2>5. ASSUME NEW k \in Clerk, Apply(k)
        PROVE  RowsInv'
    BY <2>1, <2>5, ApplyRows
  <2>6. CASE PushNext
    BY <2>2, <2>6 DEF PushNext, MakeCommit, UploadObject, Receive, Handle, RequireMember, RequireObjects,
       Lock, AuthorizePath, RefusePath, CheckBases, WriteCommit, SeqForCommit, Publish, PushFails
  <2> QED
    BY <1>2, <2>3, <2>4, <2>5, <2>6 DEF AuditNext, Next, AccessNext
<1> QED
  BY <1>1, <1>2

\* Roles and grants belong to members, whatever the pragma is on each
\* connection, but for who is removed between the resolve and the apply of a
\* request about him and then given a row by a connection that does not check
\* (SetGrant and AddRole against RemovePrincipal): where every connection
\* enforces the constraint, there is no such row at all.
THEOREM RowsOfMembersAlways == AuditSpec => []RowsOfMembers
<1>1. AuditInit => RowsInv /\ Inv
  BY InitRows, InitInv DEF AuditInit
<1>2. RowsInv /\ Inv /\ [AuditNext]_<<vars, histories>> => (RowsInv /\ Inv)'
  <2>1. [AuditNext]_<<vars, histories>> => [Next]_vars
    BY DEF AuditNext
  <2> QED
    BY <2>1, RowsStep, NextKeepsInv
<1>3. RowsInv => RowsOfMembers
  BY DEF RowsInv
<1> QED
  BY <1>1, <1>2, <1>3, PTL DEF AuditSpec
=============================================================================
