------------------------------ MODULE PushAudit ------------------------------
(***************************************************************************)
(* PushServer with two histories: what each thread's caller was allowed to *)
(* do while the thread held the write lock, and who was removed while a    *)
(* request was about to give him something.  They only observe.            *)
(***************************************************************************)
EXTENDS PushServer

VARIABLES
  allowed,    \* paths that w's caller could write at some time since w locked
  overtaken   \* former members, removed between a request's resolve and its apply

histories == <<allowed, overtaken>>

AuditInit ==
  /\ Init
  /\ allowed = [w \in Pusher |-> {}]
  /\ overtaken = {}

Writable(w) == {p \in Path : push[w] # Idle /\ CanWrite(author[push[w].commit], p)}

ObserveAllowed ==
  allowed' = [w \in Pusher |->
    IF lock' = w THEN (IF lock = w THEN allowed[w] ELSE {}) \cup Writable(w)' ELSE {}]

\* A request has found u in the roster and is about to insert a row for u.
AboutToGive(u) ==
  \E k \in Clerk : call[k].step = "apply" /\ call[k].op \in {"grant", "addAdmin"} /\ call[k].target = u

ObserveOvertaken ==
  overtaken' = {u \in Principal \ members' : u \in overtaken \/ (u \in members /\ AboutToGive(u))}

AuditNext == Next /\ ObserveAllowed /\ ObserveOvertaken

AuditSpec == AuditInit /\ [][AuditNext]_<<vars, histories>>

FairAudit == AuditSpec /\ PushFairness

\* A revocation or removal that was complete before a push took the lock, and
\* was not undone, stops that push: whatever path it has written, its author
\* could write at some time while the push held the lock (handlePush).
AuthorizedUnderLock ==
  \A w \in Pusher : push[w].step \in {"lookup", "publish"} =>
    Changes(push[w].commit) \subseteq allowed[w]

\* Roles and grants belong to members, as the REFERENCES clauses of
\* internal/store/schema.go say, but for one case: who was removed between
\* the resolve and the apply of a request about him may have a row, if the
\* connection that inserts it does not enforce the constraint.
RowsOfMembers ==
  \A u \in Principal \ members :
    u \in admins \/ (\E q \in Pattern : grants[u][q] # NoAccess) =>
      u \in overtaken /\ FALSE \in ForeignKeys
=============================================================================
