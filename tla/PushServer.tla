----------------------------- MODULE PushServer -----------------------------
(***************************************************************************)
(* Pushing commits to a repository: handlePush and applyPush of            *)
(* internal/server/handlers.go over WriteRemoteCommit of                   *)
(* internal/store/commit.go, running concurrently with each other, with    *)
(* the access-control handlers of AccessControl, and with crashes of the   *)
(* server.                                                                 *)
(*                                                                         *)
(* A push checks membership and the presence of its objects, takes the     *)
(* write lock of the repository, and under it authorizes each path, checks *)
(* each base against the current head, writes the commit in one            *)
(* transaction, reads back its sequence number and hands it to the event   *)
(* hub.  Each of these is a step of its own.                               *)
(*                                                                         *)
(* A commit's id is the hash of its author, message, time, parents and     *)
(* file contents, so an id stands here for all of them: author and content *)
(* are fixed when a client makes the commit.  So is the base, which is not *)
(* hashed but recorded with the commit by the client that makes it.  The   *)
(* same commit may be pushed any number of times, by retries too.          *)
(***************************************************************************)
EXTENDS AccessControl, Sequences

CONSTANTS
  Commit,      \* commit ids
  NoCommit,    \* the base of a file that has never existed
  Untouched,   \* the base of a file that a commit does not change
  Object,      \* hashes of file contents
  Deleted,     \* the content of a deleted file
  Pusher,      \* server threads that run push requests
  Free         \* the write lock when no thread holds it

ASSUME PushConstants ==
  /\ NoCommit \notin Commit /\ Untouched \notin Commit \cup {NoCommit}
  /\ Deleted \notin Object
  /\ Free \notin Pusher

VARIABLES
  author,     \* who signs a commit
  content,    \* content[c][p]: what commit c leaves at p
  base,       \* base[c][p]: the version that c's change of p starts from
  objects,    \* hashes present in the object store
  seq,        \* table commits: the sequence number of a commit, 0 for no row
  head,       \* table file_branch_heads: the head of a path, NoCommit for no row
  files,      \* table files: paths that have a row
  lock,       \* rh.mu: the thread that holds it, or Free
  push,       \* the push request each thread is working on
  published   \* sequence numbers handed to the event hub since the server started

commitVars == <<author, content, base>>
storeVars  == <<objects, seq, head, files>>
pushVars   == <<commitVars, storeVars, lock, push, published>>
vars       == <<accessVars, pushVars>>

-----------------------------------------------------------------------------

Changes(c) == {p \in Path : base[c][p] # Untouched}

Stored(c) == seq[c] > 0

\* Mistake, for the run that must notice it: numbers are counted in memory.
CountInMemory == Len(published) + 1

\* seq is assigned inside the transaction, as MAX(seq) + 1.
NextSeq == Max({0} \cup {seq[c] : c \in Commit}) + 1

Idle == [step |-> "idle"]

\* A push request; todo holds the paths that are yet to be authorized.
PushStep == {"member", "objects", "lock", "authorize", "check", "write", "lookup", "publish"}
PushCall == [step : PushStep, commit : Commit, todo : SUBSET Path]

\* The steps between rh.mu.Lock and the deferred Unlock.
Locked == {"authorize", "check", "write", "lookup", "publish"}

PushInit ==
  /\ author = [c \in Commit |-> Creator]
  /\ content = [c \in Commit |-> [p \in Path |-> Deleted]]
  /\ base = [c \in Commit |-> [p \in Path |-> Untouched]]
  /\ objects = {}
  /\ seq = [c \in Commit |-> 0]
  /\ head = [p \in Path |-> NoCommit]
  /\ files = {}
  /\ lock = Free
  /\ push = [w \in Pusher |-> Idle]
  /\ published = << >>

Init == AccessInit /\ PushInit

-----------------------------------------------------------------------------
(* Clients.                                                                *)

\* A change of p may start from nothing or from any version of p, one that is
\* not pushed yet included.  The server asks no more of it: a deletion may
\* start from nothing or from a deletion, and content may be what its base
\* has already.  A commit that does not change p is never the head of p, so a
\* change based on one is only ever refused.
ChangeOf(p, b, x) ==
  \/ b = Untouched /\ x = Deleted
  \/ b = NoCommit
  \/ b \in Commit /\ p \in Changes(b)

MakeCommit(c, a) ==
  /\ Changes(c) = {}
  /\ \E f \in [Path -> Commit \cup {NoCommit, Untouched}], g \in [Path -> Object \cup {Deleted}] :
       /\ \E p \in Path : f[p] # Untouched
       /\ \A p \in Path : ChangeOf(p, f[p], g[p])
       /\ base' = [base EXCEPT ![c] = f]
       /\ content' = [content EXCEPT ![c] = g]
  /\ author' = [author EXCEPT ![c] = a]
  /\ UNCHANGED <<accessVars, storeVars, lock, push, published>>

\* An upload needs a member who may write somewhere; objects are never removed.
UploadObject(a, o) ==
  /\ a \in members /\ HasAnyWrite(a)
  /\ o \notin objects
  /\ objects' = objects \cup {o}
  /\ UNCHANGED <<accessVars, commitVars, seq, head, files, lock, push, published>>

-----------------------------------------------------------------------------
(* handlePush.                                                             *)

GoTo(w, s) == push' = [push EXCEPT ![w].step = s]
Reply(w)   == push' = [push EXCEPT ![w] = Idle]

\* The deferred Unlock runs on every way out of the locked section.
Unlock(w) == lock' = IF lock = w THEN Free ELSE lock

Receive(w, c) ==
  /\ push[w] = Idle
  /\ Changes(c) # {}
  /\ push' = [push EXCEPT ![w] = [step |-> "member", commit |-> c, todo |-> Changes(c)]]
  /\ UNCHANGED <<accessVars, commitVars, storeVars, lock, published>>

RequireMember(w) ==
  /\ push[w].step = "member"
  /\ IF author[push[w].commit] \in members THEN GoTo(w, "objects") ELSE Reply(w)
  /\ UNCHANGED <<accessVars, commitVars, storeVars, lock, published>>

\* Mistake: only the content of files that existed before is looked for.
HasModifiedObjects(c) ==
  \A p \in Changes(c) : base[c][p] # NoCommit => content[c][p] \in objects \cup {Deleted}

\* Object before metadata: all contents are in the store before anything refers to them.
HasObjects(c) == \A p \in Changes(c) : content[c][p] \in objects \cup {Deleted}

RequireObjects(w) ==
  /\ push[w].step = "objects"
  /\ IF HasObjects(push[w].commit) THEN GoTo(w, "lock") ELSE Reply(w)
  /\ UNCHANGED <<accessVars, commitVars, storeVars, lock, published>>

\* Mistake: no mutual exclusion.
EnterUnlocked(w) ==
  /\ push[w].step = "lock"
  /\ lock' = w
  /\ GoTo(w, "authorize")
  /\ UNCHANGED <<accessVars, commitVars, storeVars, published>>

Lock(w) ==
  /\ push[w].step = "lock"
  /\ lock = Free
  /\ lock' = w
  /\ GoTo(w, "authorize")
  /\ UNCHANGED <<accessVars, commitVars, storeVars, published>>

\* Mistake: a member is taken to be permitted.
AuthorizeMember(w, p) ==
  /\ push[w].step = "authorize"
  /\ p \in push[w].todo
  /\ author[push[w].commit] \in members
  /\ push' = [push EXCEPT ![w].todo = @ \ {p},
                          ![w].step = IF push[w].todo = {p} THEN "check" ELSE @]
  /\ UNCHANGED <<accessVars, commitVars, storeVars, lock, published>>

\* One query of the grants per path, in turn.
AuthorizePath(w, p) ==
  /\ push[w].step = "authorize"
  /\ p \in push[w].todo
  /\ CanWrite(author[push[w].commit], p)
  /\ push' = [push EXCEPT ![w].todo = @ \ {p},
                          ![w].step = IF push[w].todo = {p} THEN "check" ELSE @]
  /\ UNCHANGED <<accessVars, commitVars, storeVars, lock, published>>

RefusePath(w, p) ==
  /\ push[w].step = "authorize"
  /\ p \in push[w].todo
  /\ ~ CanWrite(author[push[w].commit], p)
  /\ Reply(w)
  /\ Unlock(w)
  /\ UNCHANGED <<accessVars, commitVars, storeVars, published>>

\* Mistakes: files without a base are not compared; one matching file is enough.
BasedFilesMatch(c) == \A p \in Changes(c) : base[c][p] # NoCommit => head[p] = base[c][p]
SomeBaseMatches(c) == \E p \in Changes(c) : head[p] = base[c][p]

\* The optimistic check: every base is the current head.
BasesMatch(c) == \A p \in Changes(c) : head[p] = base[c][p]

\* Mistake: the conflict is answered with the lock held.
ConflictKeepsLock(w) ==
  /\ push[w].step = "check"
  /\ IF BasesMatch(push[w].commit) THEN GoTo(w, "write") ELSE Reply(w)
  /\ UNCHANGED <<accessVars, commitVars, storeVars, lock, published>>

CheckBases(w) ==
  /\ push[w].step = "check"
  /\ IF BasesMatch(push[w].commit)
       THEN GoTo(w, "write") /\ UNCHANGED lock
       ELSE Reply(w) /\ Unlock(w)
  /\ UNCHANGED <<accessVars, commitVars, storeVars, published>>

\* Mistake: a deletion takes the row out of the registry.
RegisteredLive(c) ==
  (files \cup Changes(c)) \ {p \in Changes(c) : content[c][p] = Deleted}

\* Files that are not deleted get their row in the registry.
Registered(c) == files \cup {p \in Changes(c) : content[c][p] # Deleted}

\* What REFERENCES files(path) demands of the changed paths.
ReferencesFile(c, enforced) == enforced => Changes(c) \subseteq Registered(c)

\* Mistake: a deletion leaves the head alone.
HeadsAfterAdditions(c) ==
  [p \in Path |-> IF p \in Changes(c) /\ content[c][p] # Deleted THEN c ELSE head[p]]

\* A deletion is a version like any other and becomes the head of its path.
HeadsAfter(c) == [p \in Path |-> IF p \in Changes(c) THEN c ELSE head[p]]

\* The transaction of WriteRemoteCommit; it writes nothing if the id is there.
WriteCommit(w) ==
  LET c == push[w].commit
  IN  /\ push[w].step = "write"
      /\ IF Stored(c)
           THEN UNCHANGED storeVars
           ELSE /\ \E enforced \in ForeignKeys : ReferencesFile(c, enforced)
                /\ seq' = [seq EXCEPT ![c] = NextSeq]
                /\ head' = HeadsAfter(c)
                /\ files' = Registered(c)
                /\ UNCHANGED objects
      /\ GoTo(w, "lookup")
      /\ UNCHANGED <<accessVars, commitVars, lock, published>>

\* Mistake: the lock is released before the events are handed to the hub.
SeqForCommitUnlocks(w) ==
  /\ push[w].step = "lookup"
  /\ GoTo(w, "publish")
  /\ Unlock(w)
  /\ UNCHANGED <<accessVars, commitVars, storeVars, published>>

SeqForCommit(w) ==
  /\ push[w].step = "lookup"
  /\ GoTo(w, "publish")
  /\ UNCHANGED <<accessVars, commitVars, storeVars, lock, published>>

\* The events go to the hub before the lock is released and the client answered.
Publish(w) ==
  /\ push[w].step = "publish"
  /\ published' = Append(published, seq[push[w].commit])
  /\ Reply(w)
  /\ Unlock(w)
  /\ UNCHANGED <<accessVars, commitVars, storeVars>>

\* Any database call may fail; the request is answered with an error, after
\* the commit is stored too if the lookup of its number is what fails.
PushFails(w) ==
  /\ push[w].step \in {"member", "authorize", "check", "write", "lookup"}
  /\ Reply(w)
  /\ Unlock(w)
  /\ UNCHANGED <<accessVars, commitVars, storeVars, published>>

-----------------------------------------------------------------------------

\* The process dies: requests, lock and hub are gone, the store is durable.
Crash ==
  /\ call' = [k \in Clerk |-> NoCall]
  /\ lock' = Free
  /\ push' = [w \in Pusher |-> Idle]
  /\ published' = << >>
  /\ UNCHANGED <<members, admins, grants, commitVars, storeVars>>

Handle(w) ==
  \/ RequireMember(w) \/ RequireObjects(w) \/ Lock(w)
  \/ \E p \in Path : AuthorizePath(w, p) \/ RefusePath(w, p)
  \/ CheckBases(w) \/ WriteCommit(w) \/ SeqForCommit(w) \/ Publish(w) \/ PushFails(w)

PushNext ==
  \/ \E c \in Commit, a \in Principal : MakeCommit(c, a)
  \/ \E a \in Principal, o \in Object : UploadObject(a, o)
  \/ \E w \in Pusher, c \in Commit : Receive(w, c)
  \/ \E w \in Pusher : Handle(w)

Next ==
  \/ PushNext
  \/ AccessNext /\ UNCHANGED pushVars
  \/ Crash

Spec == Init /\ [][Next]_vars

\* A request in progress goes on, and sync.Mutex passes over no waiting thread
\* forever: one that has waited a millisecond is handed the lock.
PushFairness == \A w \in Pusher : WF_vars(Handle(w)) /\ SF_vars(Lock(w))

-----------------------------------------------------------------------------
(* Properties.                                                             *)

\* The variables have the types of the columns and fields they stand for.
TypeOK ==
  /\ AccessTypeOK
  /\ author \in [Commit -> Principal]
  /\ content \in [Commit -> [Path -> Object \cup {Deleted}]]
  /\ base \in [Commit -> [Path -> Commit \cup {NoCommit, Untouched}]]
  /\ objects \subseteq Object
  /\ seq \in [Commit -> Nat]
  /\ head \in [Path -> Commit \cup {NoCommit}]
  /\ files \subseteq Path
  /\ lock \in Pusher \cup {Free}
  /\ push \in [Pusher -> PushCall \cup {Idle}]
  /\ published \in Seq(Nat)

\* What the optimistic check established still holds when the transaction
\* runs, and the commit is not there yet: the thread has kept the lock, no
\* head has moved, and WriteRemoteCommit's skip of a known id is never taken
\* for a retried push (applyPush, handlers.go).
CheckedStillHolds ==
  \A w \in Pusher : push[w].step = "write" =>
    /\ lock = w
    /\ BasesMatch(push[w].commit)
    /\ ~ Stored(push[w].commit)

\* No update is lost: every version in the log replaced the version it was
\* made from, with none accepted in between, and a first version had no
\* predecessor (the per-file optimistic check of applyPush).
LinearHistory ==
  \A c \in Commit : Stored(c) => \A p \in Changes(c) :
    LET b == base[c][p]
    IN  /\ b # NoCommit => Stored(b) /\ seq[b] < seq[c]
        /\ \A d \in Commit : Stored(d) /\ p \in Changes(d) /\ seq[d] < seq[c] =>
             b # NoCommit /\ seq[d] <= seq[b]

\* The head of a path is the last accepted commit that changed it, deletions
\* included: the table and the log never disagree (WriteRemoteCommit).
HeadIsLatest ==
  \A p \in Path :
    /\ head[p] # NoCommit => Stored(head[p]) /\ p \in Changes(head[p])
    /\ \A c \in Commit : Stored(c) /\ p \in Changes(c) =>
         head[p] # NoCommit /\ seq[c] <= seq[head[p]]

\* The sequence numbers of the stored commits are 1 to some n, each used
\* once, whatever failed or crashed between: the sync cursor of clients
\* relies on it (seq assignment in WriteRemoteCommit).
SeqGapless ==
  /\ \A c, d \in Commit : Stored(c) /\ seq[c] = seq[d] => c = d
  /\ \A c \in Commit : \A n \in 1 .. seq[c] : \E d \in Commit : seq[d] = n

\* Object before metadata: no stored commit refers to content that the
\* object store does not hold (handlePush's object check, done unlocked).
ContentPresent ==
  \A c \in Commit : Stored(c) => \A p \in Changes(c) : content[c][p] \in objects \cup {Deleted}

\* The file registry holds exactly the paths the log ever left content at,
\* whatever is deleted and on whichever connection.  So a head without a row
\* is the head of a path that was only ever deleted, which needs a connection
\* that does not enforce the constraint (upsertFile).
RegistryFollowsLog ==
  \A p \in Path :
    p \in files <=> \E c \in Commit : Stored(c) /\ p \in Changes(c) /\ content[c][p] # Deleted

\* Events reach the hub in the order of the log, and only for commits that
\* the log holds (Publish under the write lock, after the transaction).
PublishedInOrder ==
  /\ \A i, j \in DOMAIN published : i < j => published[i] < published[j]
  /\ \A i \in DOMAIN published : \E c \in Commit : Stored(c) /\ seq[c] = published[i]

\* Threads, lock and tables together behave as the one-step log of CommitLog.
AcceptedLog == [n \in 1 .. NextSeq - 1 |-> CHOOSE c \in Commit : seq[c] = n]
Log == INSTANCE CommitLog WITH log <- AcceptedLog
ImplementsLog == Log!LogSpec

\* A push that waits for the write lock is answered: every way out of the
\* locked section, refusals and errors included, releases it.
PushAnswered == \A w \in Pusher : push[w].step = "lock" ~> push[w] = Idle
=============================================================================
