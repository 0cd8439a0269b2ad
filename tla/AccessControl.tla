--------------------------- MODULE AccessControl ---------------------------
(***************************************************************************)
(* The roster, the admin role and the path grants of one repository:       *)
(* internal/store/access.go, and the handlers of                           *)
(* internal/server/access_handlers.go that change them.                    *)
(*                                                                         *)
(* A handler is three reads or writes of the database with nothing held    *)
(* between them: it checks the caller's authority, resolves the user it is *)
(* about, and applies the change.  Any number of handlers interleave, and  *)
(* none of them takes the write lock of the repository.                    *)
(***************************************************************************)
EXTENDS Integers, FiniteSets, FiniteSetsExt, PathPatterns

CONSTANTS
  Principal,     \* identities of the remote's directory
  Creator,       \* the principal whose request created the repository
  Path,          \* file paths
  Pattern,       \* grant patterns in use
  GrantLevel,    \* permission levels that grant requests carry
  Clerk,         \* server threads that run access-control requests
  ForeignKeys    \* what PRAGMA foreign_keys may be on a pooled connection

NoAccess == 0
Read     == 1
Write    == 2
Owner    == 3
Permission == {NoAccess, Read, Write, Owner}

ASSUME AccessConstants ==
  /\ Creator \in Principal
  /\ \A p \in Path : ValidPath(p)
  /\ \A q \in Pattern : ValidPathPattern(q)
  /\ <<Wildcard>> \in Pattern
  /\ GrantLevel \subseteq {Read, Write, Owner}
  /\ ForeignKeys # {} /\ ForeignKeys \subseteq BOOLEAN

VARIABLES
  members,   \* table principals: the roster
  admins,    \* table repo_roles: holders of the admin role
  grants,    \* table grants: the permission of each row, NoAccess for no row
  call       \* the access-control request each clerk is working on

accessVars == <<members, admins, grants, call>>

-----------------------------------------------------------------------------
(* Requests.                                                               *)

Step == {"authorize", "resolve", "apply"}

GrantCall  == [op : {"grant"}, step : Step, caller : Principal, target : Principal,
               pattern : Pattern, level : GrantLevel]
RevokeCall == [op : {"revoke"}, step : Step, caller : Principal, target : Principal,
               pattern : Pattern]
RosterCall == [op : {"addMember", "removeMember", "addAdmin", "revokeAdmin"},
               step : Step, caller : Principal, target : Principal]
Request    == GrantCall \cup RevokeCall \cup RosterCall
NoCall     == [step |-> "idle"]

-----------------------------------------------------------------------------
(* Permissions.                                                            *)

EffectivePermission(who, path) ==
  IF who \in admins
    THEN Owner
    ELSE Max({NoAccess} \cup
             {grants[who][q] : q \in {r \in Pattern : PatternMatches(r, path)}})

CanRead(who, path)  == EffectivePermission(who, path) >= Read
CanWrite(who, path) == EffectivePermission(who, path) >= Write
CanGrant(who, path) == EffectivePermission(who, path) >= Owner

HasAnyWrite(who) ==
  \/ who \in admins
  \/ \E q \in Pattern : grants[who][q] \in {Write, Owner}

-----------------------------------------------------------------------------
(* createRepo seeds the caller as the first member, admin and owner of     *)
(* every path.                                                             *)
AccessInit ==
  /\ members = {Creator}
  /\ admins = {Creator}
  /\ grants = [u \in Principal |-> [q \in Pattern |->
                 IF u = Creator /\ q = <<Wildcard>> THEN Owner ELSE NoAccess]]
  /\ call = [k \in Clerk |-> NoCall]

\* An authenticated request reaches a thread.
Accept(k) ==
  /\ call[k] = NoCall
  /\ \E r \in Request : r.step = "authorize" /\ call' = [call EXCEPT ![k] = r]
  /\ UNCHANGED <<members, admins, grants>>

Respond(k)    == call' = [call EXCEPT ![k] = NoCall]
Advance(k, s) == call' = [call EXCEPT ![k].step = s]

\* Grants and revokes need owner level on the pattern, the rest the admin role.
Authority(r) ==
  IF r.op \in {"grant", "revoke"} THEN CanGrant(r.caller, r.pattern)
                                  ELSE r.caller \in admins

Authorize(k) ==
  /\ call[k].step = "authorize"
  /\ IF Authority(call[k]) THEN Advance(k, "resolve") ELSE Respond(k)
  /\ UNCHANGED <<members, admins, grants>>

\* A new member is looked up in the remote's directory, which holds every
\* principal; everyone else is looked up in the roster.
Resolve(k) ==
  /\ call[k].step = "resolve"
  /\ IF call[k].op = "addMember" \/ call[k].target \in members
       THEN Advance(k, "apply")
       ELSE Respond(k)
  /\ UNCHANGED <<members, admins, grants>>

\* What REFERENCES principals(id) demands of an inserted row, on a connection
\* where the constraint is enforced.
ReferencesMember(who, enforced) == enforced => who \in members

SetGrant(k, enforced) ==
  /\ call[k].op = "grant"
  /\ ReferencesMember(call[k].target, enforced)
  /\ grants' = [grants EXCEPT ![call[k].target][call[k].pattern] = call[k].level]
  /\ UNCHANGED <<members, admins>>

\* A DELETE that finds no row is reported as an error and changes nothing.
RevokeGrant(k) ==
  /\ call[k].op = "revoke"
  /\ grants' = [grants EXCEPT ![call[k].target][call[k].pattern] = NoAccess]
  /\ UNCHANGED <<members, admins>>

AddPrincipal(k) ==
  /\ call[k].op = "addMember"
  /\ members' = members \cup {call[k].target}
  /\ UNCHANGED <<admins, grants>>

\* The last admin is the only holder of the admin role.
IsLastAdmin(who) == who \in admins /\ Cardinality(admins) <= 1

\* Mistakes: a removed member keeps the grants; members are removed without a
\* look at the admins.
RemoveRosterRow(k) ==
  /\ call[k].op = "removeMember"
  /\ ~ IsLastAdmin(call[k].target)
  /\ admins' = admins \ {call[k].target}
  /\ members' = members \ {call[k].target}
  /\ UNCHANGED grants
RemoveAnyPrincipal(k) ==
  /\ call[k].op = "removeMember"
  /\ grants' = [grants EXCEPT ![call[k].target] = [q \in Pattern |-> NoAccess]]
  /\ admins' = admins \ {call[k].target}
  /\ members' = members \ {call[k].target}

RemovePrincipal(k) ==
  /\ call[k].op = "removeMember"
  /\ ~ IsLastAdmin(call[k].target)
  /\ grants' = [grants EXCEPT ![call[k].target] = [q \in Pattern |-> NoAccess]]
  /\ admins' = admins \ {call[k].target}
  /\ members' = members \ {call[k].target}

AddRole(k, enforced) ==
  /\ call[k].op = "addAdmin"
  /\ ReferencesMember(call[k].target, enforced)
  /\ admins' = admins \cup {call[k].target}
  /\ UNCHANGED <<members, grants>>

RevokeAdmin(k) ==
  /\ call[k].op = "revokeAdmin"
  /\ call[k].target \in admins
  /\ ~ IsLastAdmin(call[k].target)
  /\ admins' = admins \ {call[k].target}
  /\ UNCHANGED <<members, grants>>

\* The change is one statement or one transaction of SQLite.
Apply(k) ==
  /\ call[k].step = "apply"
  /\ \/ \E enforced \in ForeignKeys : SetGrant(k, enforced) \/ AddRole(k, enforced)
     \/ RevokeGrant(k)
     \/ AddPrincipal(k)
     \/ RemovePrincipal(k)
     \/ RevokeAdmin(k)
  /\ Respond(k)

\* Any database call may fail, a busy or refused write among them: the
\* transaction is rolled back and the request answered with an error.
AccessFails(k) ==
  /\ call[k] # NoCall
  /\ Respond(k)
  /\ UNCHANGED <<members, admins, grants>>

AccessNext ==
  \E k \in Clerk : Accept(k) \/ Authorize(k) \/ Resolve(k) \/ Apply(k) \/ AccessFails(k)

AccessSpec == AccessInit /\ [][AccessNext]_accessVars

-----------------------------------------------------------------------------
(* Properties.                                                             *)

\* The tables hold principals and patterns, a thread at most one request.
AccessTypeOK ==
  /\ members \subseteq Principal
  /\ admins \subseteq Principal
  /\ grants \in [Principal -> [Pattern -> Permission]]
  /\ call \in [Clerk -> Request \cup {NoCall}]

\* The repository never loses its last admin, whichever removals and
\* revocations run at once, each of them of the other's caller maybe
\* (RemovePrincipal and RevokeAdmin).
AdminRemains == admins # {}
=============================================================================
