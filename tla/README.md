# AgentStore in TLA+

AgentStore is a versioned file store for agents and people. A *remote* (one
`store serve` process) hosts repositories; clients hold clones of them, commit
locally, push commits to the remote, pull what others pushed and watch the event
stream. A repository is a log of commits numbered by the server, a set of
content-addressed objects, a head per file, and an access-control plane of
members, admins and path grants.

The modules here are translated from the Go code under `src/internal`; line
references of every definition are in `PROJECT.json` under `map`.

## Inventory

| component | state | operations | what is hard | what makes it correct |
|---|---|---|---|---|
| paths and patterns (`store/path.go`) | none | `ValidPath`, `ValidPathPattern`, `patternMatches` | a pattern is itself used as a path in `CanGrant` | coverage is transitive, so that an owner cannot grant beyond its own pattern |
| access control (`store/access.go`, `server/access_handlers.go`) | tables `principals`, `repo_roles`, `grants` | grant, revoke, add and remove member, add and revoke admin | check, resolve and apply are separate statements without a lock; foreign keys are a setting of the connection | an admin always remains; roles and grants belong to members |
| push (`server/handlers.go`, `store/commit.go`) | `commits`, `commit_files`, `files`, `file_branch_heads`, the mutex `rh.mu` | `handlePush`, `applyPush`, `WriteRemoteCommit` | concurrent pushes, retries of stored commits, failures and crashes between any two statements, grants that change meanwhile | no lost update, gapless numbers, heads that follow the log, content before metadata, permission |
| object store (`store/objects.go`, `handleUploadObject`) | two names and a file per hash | upload, read, presence, size | a temporary name that parallel uploads of one object share, calls that fail, a killed process, a loss of power, a size check without a lock | what carries an object's name is whole; a stored object stays; the quota is passed by a bounded amount |
| event hub and watch (`server/hub.go`, `server/watch.go`, `cli/watch.go`) | subscribers, channels, the client's cursor | publish, subscribe, fan-out, backfill | full buffers, the seam between backfill and live events, revocation during a stream, reconnection | what arrives is in order, a break loses nothing of a replay, no client stalls a push |
| repository lifecycle, mirror (`server/server.go`, `server/mirror.go`) | directories on disk, the map of repositories, reservations | create, mirror, clean up, load at start | creation is a dozen statements over several databases and the file system, any of which may fail; a crash in between; two requests for one name | one creator per name; what was answered is never damaged; a repository that is served has an admin |
| directory and authentication (`server/auth.go`, `server/identity_handlers.go`) | `server.db` | register, rekey, seed from a mirror, verify a signature | usernames that collide on a mirror, lookups that fail, keys that rotate meanwhile | one identity per id and per username; nobody is renamed, removed or rekeyed by others |
| clone (`cli/*`, `index`, `store/commit.go`, `store/query.go`) | a store of its own, the index, the working tree | add, rm, commit, push, pull, merge, reset, checkout | lost answers, pushes of several commits that stop half way, redacted commits, a cursor shared by pulls and pushes, sequences of statements without a transaction | no local change and no remote commit is lost; numbers and heads agree with the server |
| three-way merge (`merge/merge.go`) | cursors into the base and two lists of operations | `Merge3` | edits that touch or overlap, insertions at the cursor, positions after a conflict | the loop ends; edits that are apart are applied once each, kept lines once and in order, overlaps are conflicts |
| history queries (`store/query.go`, read handlers) | none | pages, filters, redaction | grants that change between pages | nothing unreadable is served |
| encoding, transport, settings, text | none | | | not modelled |

How they interact: an HTTP request runs in a thread of its own and reaches the
store through `database/sql`, a pool of SQLite connections in WAL mode, where a
statement or a transaction is atomic and may fail as busy. `handlePush` holds
the repository's mutex from the permission check to the hand-over of the events
to the hub, a goroutine that filters them by the grants of the moment. The
access-control handlers hold nothing. A client reaches the server only by
requests that may fail at any point, and repeats them by hand.

## Modules

| module | stands for | state |
|---|---|---|
| `PathPatterns` | paths as sequences of segments, patterns with a trailing wildcard | none |
| `AccessControl` | the access tables and the threads that change them | `members`, `admins`, `grants`, `call` |
| `CommitLog` | abstract: one log, one step per accepted commit, optimistic concurrency per file | `base`, `log` |
| `PushServer` | `handlePush` statement by statement, over `AccessControl`, with clients that commit and upload, and crashes | tables, `objects`, `lock`, `push`, `published` |
| `ObjectSet` | abstract: the set of whole objects, one step per object stored, referred to or lost | `present`, `lasting`, `refs`, `dark` |
| `PushAudit` | `PushServer` with histories of the permissions a caller had while its push held the lock, and of who was removed while a request was about to give him something | `allowed`, `overtaken` |
| `Watch` | the hub, the watch handlers with their buffers, and a client that reconnects | `log`, `publishing`, `queue`, `fan`, `subs`, `handler`, `session`, `cursor` |
| `WatchAudit` | `Watch` with a history of what the client was started with and has received | `start`, `seen` |
| `LocalStore` | the tables of a clone and the queries over them, with the server as the log of `CommitLog` | `rows`, `seq`, `stubs`, `head`, `objects`, `content`, `parent` |
| `Clone` | the commands of `internal/cli` over that store, the index and the working tree | `staged`, `mergeParent`, `unresolved`, `disk`, `cmd` |
| `ObjectStore` | `WriteObject` call by call, the upload handler before it, the pushes behind it, death of the process and loss of power | `job`, `names`, `past`, `whole`, `flushed`, `refs`, `kept`, `left` |
| `RepoLifecycle` | `createRepo`, `handleMirror`, the directory of identities, the start of the server | `directory`, `disk`, `repos`, `creating`, `job`, `answered`, `scars`, `torn` |
| `Merge` | the loop of `Merge3` over two lists of operations, a turn per step | `i`, `oi`, `ti`, `out`, `hasConflict` |
| `AccessProofs`, `PushProofs`, `AuditProofs`, `WatchProofs`, `ObjectProofs`, `LifecycleProofs`, `MergeProofs`, `CloneProofs` | theorems about `AccessControl`, `PushServer`, `PushAudit`, `Watch` and `WatchAudit`, `ObjectStore`, `RepoLifecycle`, `Merge` and `Clone` | |
| `MCAccess`, `MCPush`, `MCPushLive`, `MCWatch`, `MCWatchMissed`, `MCClone`, `MCObjects`, `MCLifecycle`, `MCMerge` | instances for TLC | |

`PushServer` extends `AccessControl`: a step of the whole is a step of a push, a
client or an access handler, or a crash. `PushServer` implements `CommitLog`,
with the log taken as the stored commits in the order of their numbers. `LocalStore`
extends `CommitLog`, which is all that a clone needs to know of the server, and
`Clone` extends `LocalStore`. What `PushServer` takes as one step, an upload, is many in
`ObjectStore`. `ObjectSet` is between the two: `ObjectStore` implements it, and `PushServer` asks no more of
its store. `RepoLifecycle` and `Merge` stand for themselves: what `AccessControl` starts from, a repository with its creator in
place, is what `RepoLifecycle` establishes; and what `Clone` leaves open, the outcome
of a merge of three texts, is what `Merge` computes.
Operators whose comment begins with *Mistake* model plausible errors of the
code; no action uses them, and they serve to show that each property notices the
error it is about.

### How state and actions correspond to the code

*AccessControl.* `call[k]` is a thread inside one of the six handlers. `Accept`
is the arrival of an authenticated request, `Authorize` the call of `CanGrant`
or `IsAdmin`, `Resolve` the lookup of the target by username, and `Apply` the
one statement or transaction that changes the tables. `AccessFails` stands for
any error, a failed or busy database call for instance: transactions are
rolled back, so an error changes nothing. The two transactions
(`RemovePrincipal`, `RevokeAdmin`) read before they write; SQLite refuses the
write of a transaction whose snapshot is stale, so they are atomic or fail.
`ForeignKeys` is the set of values that `PRAGMA foreign_keys` may have on the
connection a statement gets: `{TRUE, FALSE}` is what `sqlite.Open` does, since it
sets the pragma on one connection of the pool, and `{TRUE}` is what the schema
expects. The pragma only ever forbids an insertion, so that the larger set has more
behaviours; every run takes the larger one.

*PushServer.* `push[w].step` is the next thing thread `w` does in `handlePush`:

| step | action | code |
|---|---|---|
| `member` | `RequireMember` | `requireMember` |
| `objects` | `RequireObjects` | the loop over `HasObject`, before the lock |
| `lock` | `Lock` | `rh.mu.Lock()` |
| `authorize` | `AuthorizePath`, `RefusePath` | the loop over `CanWrite`, one path at a time |
| `check` | `CheckBases` | the loop over `FileHead` in `applyPush` |
| `write` | `WriteCommit` | `WriteRemoteCommit` |
| `lookup` | `SeqForCommit` | `SeqForCommit` |
| `publish` | `Publish` | `hub.Publish`, then the answer and the deferred `Unlock` |

Every way out of the locked section runs the deferred `Unlock`. `PushFails` is
the error return of any of the database calls, that of `SeqForCommit` included,
after which the commit is stored, unpublished, and the client told otherwise.
`Crash` loses threads, lock and hub, and keeps the tables and objects.

*Watch.* `Store`, `Publish` and `PublishNothing` are what `Watch` needs of the holder
of the write lock: a commit is stored, and its group handed over or lost with
a failing `SeqForCommit`. That numbers are gapless and groups published in their
order is what `PushServer` shows. The hub is a goroutine with a `select`:
`Register`, `Unregister` and `TakeGroup` are its cases, and it returns to the
`select` when `Deliver` has visited every subscriber. `handler[c].step` follows
`handleWatch`:

| step | actions | code |
|---|---|---|
| `catchUp` | `ReadLog` | `LogCommits` in `catchUp` |
| `replay` | `ReplayCommit`, `WriteEvent`, `EndReplay` | the loop of `catchUp` |
| `subscribe` | `Register` | `hub.Subscribe`, a send the hub receives |
| `live` | `Drain`, `WriteEvent`, `HangUp` | the writer loop and the reader goroutine |
| `unsubscribe` | `Unregister` | the deferred `hub.Unsubscribe` |

A connection is a handler that its client may have left: `session` is the one
the client still reads from. `Disconnect` breaks it, `HangUp` is the handler's
learning of that, by a failed write or by its reader goroutine, and `Connect` the
next round of `RunWatch`. Writing an event and receiving it is one step: what
the network holds back is a `WriteEvent` that has not happened. Event types
are not filtered, and only paths under the watched prefix exist.

`canRead` is asked twice for each file of a commit, for the event of the file and for the
`commit.pushed` that names it (`hub.go:99` and `:113`), and an error counts as a no
(`server.go:47-50`). `FilterGroup` is therefore a set of the groups that may be left: for a file in
`Unsure` each of its two answers may be either, whatever the other one was, and
`commit.pushed` is kept as long as one file had a yes. `Unsure` are the
files for which that can happen, by a change of the grants or by a query that fails; where it is all
of `Path`, every query of every delivery and every replay may be answered either way.
`WatchAudit` adds what the client was started with and what it has received; it only observes.

*ObjectStore.* `job[w].step` is the next call of upload `w`; `names[h]` are the two
directory entries of an object, `past[h]` all the entries that a loss of power may
leave.

| step | actions | code |
|---|---|---|
| `idle` | `Upload` | `handleUploadObject` up to its first `HasObject` |
| `measure` | `Measure` | `TotalSize` and the comparison with the limit |
| `stat` | `Stat` | the `os.Stat` of `WriteObject` |
| `open` | `OpenTmp` | `os.OpenFile` of the temporary file, mode 0444 |
| `write`, `sync`, `rename` | `WriteTmp`, `SyncTmp`, `Rename`, or `WriteFails` | the calls of those names |
| `remove` | `RemoveTmp`, `RemoveFails` | the `os.Remove` of the temporary file, whose error is not looked at |
| `syncdir` | `SyncDir`, `SyncDirFails` | the sync of the directory, whose error is not looked at |

`Refer` is a push that is accepted: its rows are durable when it returns, which is
why `refs` survives a loss of power. Files are numbers, since a rename moves a file
from one name to the other and a name may come back with an older one. The
process is not root: an existing file of mode 0444 cannot be opened for writing. `left` is a history of
the objects whose temporary file nobody works on any more, since its removal failed or the process died.

*RepoLifecycle.* `job[t].step` is the next statement of the request of goroutine `t`.

| step | actions | code |
|---|---|---|
| `idle` | `CreateRepo`, `Mirror` | `verifyRequest` or `verifyMirror`, then `reserveRepo` |
| `lookup` | `LookUpEntry` | `lookupByID` in `createRepo` |
| `check` | `CheckMirror` | `checkMirrorInputs` and its siblings |
| `init` | `InitBare`, `InitFails` | `InitBare` of the new store |
| `write` | `WritePart`, `WriteFails` | the seeds: of a creation the roster, the admin role and the grant; of a mirror the roster, the objects, the commits, the grants and the roles |
| `find`, `insert` | `FindEntry`, `FindFails`, `InsertEntry` | the loop of `seedDirectory` |
| `register` | `RegisterRepo` | the entry in `srv.repos` |
| `answer` | `Answer` | the answer; a mirror first reads the signer's username |
| `cleanup`, `release` | `RemoveAll`, `ReleaseRepo` | the two deferred calls, in their order |

`Register` and `Rekey` are the two handlers of the directory, one statement each.
`Restart` opens every directory with a `store.db`. `scars` is a history of the
repositories on which a failed call may have left something, and `torn` one of those
that a start of the server found half made: in the hands of a request that died with the process, or left
by a failed call. Both only name; a repository that is in neither is held to every property before and after any number of
starts. `Fault` counts failing calls and restarts up to `MaxFaults`. A check of a request and its first statement
are one step: a rekey between them is the same as one before the request's second
statement.

*Merge.* A list of operations is what the diff library returns for one side, and
any list of that shape is taken. One turn of the loop is one step: `CopyBase`,
`TakeOurs`, `TakeTheirs` or `TakeBoth`, by which of the two sides has an edit at the
cursor. `PeekOp` and `AdvancePast` are the functions of those names, written with the
least index that is not behind the cursor in the place of their loops.

*Clone.* `cmd.step` is where the running command is; `idle` is the prompt.

| step | actions | code |
|---|---|---|
| `idle` | `RunAdd`, `RunRm`, `RunCommit`, `RunPush`, `RunPull`, `RunReset`, `RunMergeAbort`, `RunCheckout`, `RunClone`, `Edit` | the functions of those names in `internal/cli` |
| `clear`, `clearMerge` | `ClearIndex`, `ClearMergeState` | the end of `RunCommit`, on the other database |
| `send` | `PushOne`, `Rejected` | `pushOne`, and `applyPush` on the other side |
| `confirm`, `absorb` | `ConfirmSeq`, `AbsorbTheRest` | the loop of `RunPush` and what follows it |
| `stub` | `RecordRedactedStub`, `StubsRecorded` | the first loop of `RunPull` |
| `download`, `check` | `DownloadObjects`, `CheckUnstaged` | the object loop, and the guard for unstaged changes |
| `store` | `WriteRemoteCommit`, `CommitsStored` | the loop that stores commits |
| `merge` | `FastForward`, `ModifyDelete`, `BothDeleted`, `MergeCleanly`, `MergeConflict`, `SetMergeState` | the merge of each path, in any order, as a Go map gives them |
| `repoint`, `restore` | `RepointHead`, `RestoreFile` | `Store.Reset`, then the loop of `RunReset` |

Between any two steps other clones may push (`OthersPush`), clients of this program too, which change the latest versions
and delete only what is there, and the command may
end for whatever reason (`Fails`); `PushOne` may append to the log and have
its answer lost. A clone uses one SQLite connection at a time, so its foreign
keys hold: `ReferencesHold` is what they ask of a fetched commit. A row's place in
`rows` is its rowid. `seq` has the column's three meanings: positive, NULL as 0,
and minus the rowid. `UnpushedChain` is a set, the least one that has the newest unpushed
commit and, with a commit, its unpushed parent; the order in which the code lists it, parents first, is that
of the rowids, and `NextToPush` takes the lowest (a commit is stored after its
parent: `Follows` of `CloneProofs`). A fresh clone's rows are in the order of their numbers.

What is abstracted there:

- Text is a model value. `Merge3` is the relation of its inputs to its output
  that any three-way merge satisfies: trivial where two of the three agree, and
  any text, with or without a conflict, otherwise.
- A commit id is fixed by the clone when it commits. The server computes the
  same id if and only if the parents sent are those the commit was made with;
  `PushOne` otherwise gives it an id that is not the clone's.
- `Readable` is constant: grants do not change during a clone's life. What other
  clones leave at an unreadable path is not told apart.
- `BothDeleted`, `FastForward` and their siblings are atomic per path. What
  `merge --abort`, `checkout` and `clone` do is one step; a `clone` that fails
  leaves a directory to be thrown away.
- One command runs at a time, as a user's prompt has it.

What is abstracted in `PushServer`, and why that is sound for the properties:

- A commit id is the hash of author, message, time, parents and file contents,
  so it stands for them: `author`, `content` and `base` are fixed when a client
  makes a commit. The base is no part of the hash, but the client of this program records it once
  per commit and sends the same with every retry; one that sends the same commit with
  another base each time is outside the model. Parents carry no property
  here; the foreign key on them can only make the write fail, which it may anyway.
- `MakeCommit` gives a change every base that can matter: any commit that
  changes the file, pushed or not, or none. `ChangeOf` asks no more of a change than
  the server does: a deletion may start from nothing or from a deletion, and content may be what the base has
  already, though `add` and `rm` stage neither. A base that does not change the file is never
  its head, so that a request with one is refused as any with a stale base is.
- `EffectivePermission` runs two queries (roles, then grants); they are one read.
  `AuthorizePath` is one such read per path.
- `HasObject` is asked once per file; objects are never removed, so that asking
  at once is the same for the last of the questions, and no later step reads them.
- All heads of a commit are compared in one step: the lock is held and nothing
  but a push, under the lock, moves a head.
- `files` is a set: `created_at` and `deleted_at` are never read.
- An upload is one step; its calls, the quota and temporary files are in `ObjectStore`.
- Checks of the request's form (empty lists, lengths, malformed paths and
  hashes) refuse requests that the modelled client does not send.

## Runs

| run | question | bounds | outcome |
|---|---|---|---|
| `access` | does an admin remain, and whose are the rows, whatever requests overlap? | three principals, two access threads, one pattern, connections with and without foreign keys, no pushes | holds |
| `push` | do two overlapping, failing, crashing, retried pushes keep the log in order, and implement `CommitLog`? | three commits with four changes between them, two files, one object, two threads, one principal, connections with and without foreign keys, no access requests | holds |
| `push_live` | is each path that a push writes permitted at some time while it holds the lock, and is a push that waits for the lock answered? | one commit of one file, no content, two push threads, one access thread, two principals, connections with and without foreign keys | holds, the last under fairness |
| `watch` | is what a subscriber gets in order, is a broken replay resumed where it broke, and can a client that does not read, or is gone, stall the pushes or stay registered? | one connection, six commits of two files, whose permission queries may be answered either way, channels of capacity one | holds, the last two under fairness |
| `watch_missed` | does a reconnecting client get what it missed? | one connection, four commits of one file that may be read | violated: finding |
| `lifecycle` | who makes a repository, what of it survives, and what happens to identities? | two goroutines, two names, one local and two foreign identities, three usernames, two keys, two mirrors that share a username, two faults | holds |
| `objects` | what may carry an object's name, what is kept, and is the store a set of whole objects (`ObjectSet`)? | two uploads, three objects, a limit of two, two faults | holds |
| `merge` | does the merge end, and what does it write? | all pairs of lists over a base of three lines, edits to nothing or to one of two lines | holds, the end under fairness |
| `merge_overlap` | is every overlap a conflict? | as `merge` | violated: finding |
| `clone` | do a clone's numbers, content and heads stay right whatever is lost or cut short, and what can make its numbers have a gap? | two commits of its own, two of others, three made and two pushed (`Bound`), two paths of which one is readable, two texts | holds |
| `clone_gap` | are the numbers up to the cursor contiguous, without any failure? | one commit each | violated: finding |
| `clone_fold` | is what a push absorbs replaced, without any failure? | two commits of its own, one of others, two readable paths | violated: finding |

Why the bounds are enough to meet the interesting cases. Two threads are what
the races over the mutex and over the admin role need, and two principals let each
remove the other. Three commits over two files give a first version, a
change of it, and a deletion, a re-creation or a competitor, with commits that
overlap in one file and differ in the other; the retry of a stored commit, and a
commit based on one that was never accepted, come with them. One object suffices
as only presence matters: a commit made before the upload meets a store
without it. `push` leaves out access requests, as no property of the run depends
on grants; `access` leaves out pushes, as none changes a role or a grant; `push_live` composes both, and the theorems cover the composition.
All commits of `push` are made before the server is asked for anything (`CommitsFirst`): no
step of the server needs anything of a commit not yet made, so that no state of the server is lost. `MaxChanges`
lets two of three commits change both files; it leaves a deletion of a file that never was, a deletion of that
deletion, and content after it. In `access` the third principal is one whom two admins can act on at
once, or who is an admin while the other two act on each other; the removal between the resolve and the
apply of a grant is met with and without the pragma.
In `push_live` a second push of the one commit is the conflict, and
the refusals come from the access thread. Its commit has one file, so that no request there has two files permitted at
different moments; `WritesAuthorized` is for any number. Commits, threads and clerks are interchangeable, so symmetry over them is
used in the runs that check safety only. Except in `clone` and by the two bounds of `push`, nothing is cut off by
a constraint: each commit is stored once,
and the publication of its number with it, which makes the instances finite.

In `watch`, six commits are one to resume from, a group being
delivered, one in the buffer, one in the channel, one before it, and one that is
dropped, which is what it takes for a waiting hub to stall the lock; a client that
breaks off, reconnects with its cursor and falls behind again fits in as well. Two files in every commit are a group of
three events, in which a break may come after the first or the second, and of which any part may be refused. The log is
bounded by `MaxCommits`. A handler that still runs for a client that has reconnected on another
connection takes two connections, which the theorems cover.

In `objects`, two uploads of one object are the race for the temporary name, and of two objects the
race past the limit of two; the third object is the one that goes over it. Two faults are a
failing call or a kill that leaves something behind, and a second one in the upload that meets it, or a
failing write and the failing removal after it.
`File` has a number for every file that may be nameable at once, so that `OpenTmp` never lacks one.
The run does not check deadlock: when everything is stored and referred to, and the faults are used up, nothing is left to do.

In `lifecycle`, two goroutines meet on one name or keep to two. The mirrors come from
servers which both have an `ann`, and the second carries the first one's
identity with another key and name: an identity that is known already, a username that is taken, and
a candidate that is taken too. Two faults are a failure and a failing clean-up, or a failure and the restart
that finds what it left.

In `merge`, a base of three lines has room for an edit that begins within, at the start, at the end and
behind another, and for insertions at each of these places; texts of one line suffice, since
they are compared and written as a whole.

`clone` has two commits of its own for a chain, a rejected commit with the merge
commit that follows it, and a reset that spares a confirmed one; two of others for
a redacted commit below a visible one, and for two versions of one file in one
pull. `Bound` stops where a third commit is pushed or a fourth made; the states
reached by that step are checked. The second disjunct of `NumbersAgree`, an id that differs from the server's,
lies beyond it: it takes a lost answer, a pull that finds both sides deleted, a
reset and another commit. The same instance without `Bound` and with one text
reaches it and holds, in about two minutes.

`push` may reach a state in which nothing but refused pushes and crashes is left; the
system never deadlocks, and deadlock is checked in every run but `objects`.

### Fairness

`push_live` (`FairAudit`) assumes weak fairness of each handler thread, since the Go scheduler
runs every runnable goroutine and each database call returns, and strong
fairness of `Lock`: a `sync.Mutex` switches to starvation mode when a waiter has
waited for a millisecond, and is then handed over in the order of arrival.
Clients and access requests are not assumed to do anything. The answer may be a
refusal or an error, and a crash answers by dropping the request.

`watch` (`FairWatch`) assumes weak fairness of the publisher, of each delivery of the hub and
of each handler, and strong fairness of the three cases of the hub's `select`,
which Go resolves at random among those that are ready, so that a case ready
again and again is taken. Nothing is assumed of the client or the network: a write
to an open connection may wait for ever, which is the slow reader the hub is
built to survive. A handler notices that its client has gone.

`merge` assumes only that a loop that can go on does (`FairMerge`).

## What is proved

All proofs are for every value of the constants that satisfies the named
assumption of its module (`AccessConstants`, `PushConstants`, `WatchConstants`,
`ObjectConstants`, `LifecycleConstants`, `MergeConstants`, `CloneConstants`): any principals, paths, patterns,
commits, objects, threads, connections, capacities, limits and numbers of faults. Types are
checked by a run as well where they say more than which set a value is from (`watch`, `lifecycle`).
No proof asks anything of the pragma, of the permission queries, of the removals or of the number of restarts.

`AccessProofs`:

- `EffectiveIsSomeGrant`: the effective permission is the owner level of an
  admin, or else a level that some covering grant has and none exceeds. The set
  of covering grants may be infinite there; its levels are among four, which is
  what makes the maximum exist.
- `GrantsStayBeneath`: coverage is transitive. Its corollary is why `CanGrant`
  may treat a pattern as a path.
- `AccessTypeCorrect`, `AdminAlways`: the type invariant is inductive, and with
  it the existence of an admin: the two actions that take an admin away leave
  another, since `IsLastAdmin` is evaluated in the same transaction. Cardinality
  at most one means a single admin only for finite sets, so the finiteness of the roster's admins
  is part of the invariant.

`PushProofs`: the safety properties of run `push` and the refinement, each as
`Spec => []P` from one inductive invariant `Inv`. It has these parts, beyond the
types and the invariants themselves:

- `LockHeld`: a thread in the locked section is the one that holds the lock.
  Without it nothing relates one thread's check to another's write.
- `RequestsMade`, `BasesMade`, `StoredMade`: requests, bases and the log name commits that
  were made, and whose author, content and base are therefore fixed; a change
  starts from a commit of the same path, and a deletion from some version.
- `RegistryFollowsLog`: the registry has the paths that the log ever left content at, which neither deletions nor
  the pragma change. It is inductive by itself, since `Registered` and `Stored` move in one transaction.
- `SeqUnique`, `CountedTo`: the numbers in use are distinct and make up an initial
  segment; finiteness of the log follows from this, and that `NextSeq` is beyond all.
- `HeadIsLatest` together with `CheckedStillHolds` gives `LinearHistory`: at the
  moment of the write each base is the latest version of its path, and if it has
  none then nothing stored changes the path.
- `PublishedBelow`: while a thread is between write and publication, all that was
  published is below the number it is about to publish.

`PushImplementsLog` maps `WriteCommit` of a new commit to `AppendCommit`,
`MakeCommit` to `Make`, and every other step, retried and refused pushes, crashes
and access requests included, to a stutter. `PushUsesObjects` does the same for the objects, seen with what
the stored commits refer to: `UploadObject` is the `Put` of `ObjectSet`, `WriteCommit` its `ReferTo`, since
`RequestsMade` carries the check of the objects on to the write, and there is no other step.

`AuditProofs` proves `AuthorizedUnderLock` as `WritesAuthorized`, from `Inv` and
one more invariant, `AuthorizedSoFar`: before the lock all paths of the request
are still to be authorized; afterwards those that no longer are were writable
since the lock was taken. `RowsOfMembersAlways` is `RowsOfMembers` for any number of principals and requests,
whatever the pragma is on each connection: only who was removed between the resolve and the apply of a request about
him can have a row without being a member, and only where a connection does not check. So setting the
pragma on every connection is enough, and no lock is needed. The invariant adds `GivenToKnown`: whoever a request is about to give
something is a member or in `overtaken`.

`WatchProofs`: `WatchTypeOK` (no channel and no buffer ever holds more than it may),
`PipelineInOrder` and `CatchUpInOrder`, from `WatchInv`. The order of what is on its way to one
subscriber is split into parts that one step disturbs: `HubInOrder` (the group in the hub's hands
comes before the queue, and the queue before what waits to be handed over),
`SubInOrder(c)` (what handler `c` has at hand comes before all of these and before the next
number of the log, which is what the next `Store` needs), and `ReplayInOrder(c)`. `Joined` and
`JoinedInOrder` put the pipeline together again. `OneHandler` shows once and for
all that a step of one handler disturbs nothing of another. The events of a group
bear its number because `Path` is finite: `SetToSeq` is a list only then.
Three theorems about `WatchAudit` say what the client may take from what it was sent, in any number of sessions.
`EventsTellLog`: the commit is stored and changed the file. `EndAlwaysMarksWhole`: a
`commit.pushed` that arrived ends a commit of which every file has arrived that is not in `Unsure`,
as `architecture.md:576` has it; a group that is dropped, a crash and a handler that breaks off may lose
files, but then the marker is lost as well. Of a file in `Unsure` the marker promises nothing: its event may have been refused by one
query while another file, or the second query, kept the marker. `CursorAlwaysNewest`: the cursor is that of the newest
commit the client was told of, and lies in the log it is used in. They rest on `SentInv`: each
group in a buffer holds at least the files that are not in `Unsure` (`GroupOK`), and before each marker
that is to be written stand the files that have not arrived (`EndLast`). `AuditWatches` carries
`WatchInv` over from `Watch`. `NoneMissed` shows
what this leaves out: a commit whose marker is lost may be lost for good.
`WatchConstants` has `Summary \notin Path`: paths are absolute.

`ObjectProofs`: the six properties of run `objects`, and the types. `ObjectInv` adds to
them that at most one upload works on the temporary file of an object
(`OneHolder`: it can be opened only while it does not exist) and what that upload has written and flushed at each of its
calls. It is over `past`, not over the present directory entries, so
that a loss of power needs no case of its own. `QuotaInv` adds that a file that is whole
is one that some name may mean and that a new temporary file is empty: an upload
gives up its place among the admitted exactly when its object begins to count.

`StoreImplementsSet` maps an object to *present* when the file of its name is whole, and to *lasting* when its
directory was synced. `Rename` is then `Put`, or nothing if another upload was first; `SyncDir` is `Secure`,
and `PowerLoss` is `Lose`. That a loss of power brings nothing new needs `FinalStays`: a state in which some object
was there is followed, until the next sync, only by states in which it is. No failing call, kill or parallel upload
removes an object, and none appears in part. With `PushUsesObjects` the composition is closed: while the power stays on, the store of one-step uploads that
`PushServer` is proved against is the one that `ObjectStore` implements.

What a failed removal leaves is in `left`: `TmpAlwaysHasOwner` says that a temporary file is otherwise that of one upload at work, and
that nobody works on one that was left, as it cannot be opened.

`LifecycleProofs`: all eight properties of run `lifecycle`, for any number of restarts. They rest on `Reserved`: two
requests at work have different names, from `reserveRepo` to `releaseRepo`, the clean-up included.
`NotServed` and `Progress` say what a request has written at each of its steps and find there
unchanged, from which what is registered is complete and what is answered is
served; nothing but a request's own clean-up removes a directory, and only that of a name that is
not served. `ServedIsComplete` and `MembersAreKnown` hold across starts since a store that is not served when the
process ends is in `torn` after the next start (`UnservedIsTorn`): either its request was at work, or
`LeftoverHasCause` gives the failed call.

`MergeProofs`: the safety properties of run `merge`, for any base, any lists of operations and lines of any
kind, the same line many times included.

- `MergeTyped`, `LoopAlwaysAdvances`: the cursor stays within the base and the indexes within the lists, and every
  turn moves one of the three on and none back. The two bound the number of turns by the lengths of the base
  and the lists, which is the argument behind `MergeEnds`. The least index that
  `PeekOp` looks for exists since the natural numbers are well-founded (`MinIsLeast`).
- `WalkInv`: the operations before an index lie behind the cursor (`Behind`), and while the edits of the sides
  are apart, those from it on are ahead of it (`Ahead`) and the next one is not behind (`Fresh`). From it comes
  what a single turn does: `LinesCopiedInPlace`, a base line that the cursor passes is copied if and only if
  both sides keep it, whatever overlaps; `EditsTakenInPlace`, edits that are apart are each taken in one turn
  and at their place; `NeverFalseConflict`, edits that are apart, or the same on both sides, make no conflict.
- `WrittenInv`: what has been written is what stands in front of the cursor in `Applied`, and the insertions at the
  cursor that have been taken. It gives `MergeAppliesApart` and `MergeKeepsSame`: a merge of edits that are apart, or
  of equal sides, writes the whole of `Applied`, nothing twice and nothing in another order. A turn adds
  either a stretch of kept lines, or the text of one edit followed by pieces that are empty up to its end.
  `Applied` is flattened from one piece for each line; the equation for one piece more is proved
  by the least number at which it fails (`FlattenOneMore`), in the place of an induction theorem.
- `PlacedInv`: the lines that both keep in front of the cursor have places in what is written, in
  their order, and everything else there is from an edit. `KeptLinesAlwaysOnce` is this at the end of the
  loop, for lists that overlap as well. `KeptLinesOnce` speaks of places since lines of a file may be
  equal to each other and to lines that an edit brings: which of two equal lines is the kept one cannot be told
  from the text.

`CloneProofs`: the types and all five properties of run `clone`, for any number of commits, a chain and a log of any
length, without the `Bound` of the run. `CloneConstants` asks no more than that
the clone's commits are commits and that the values for "nothing" are none of the others. `Inv` was
checked by TLC on the instance of the run with one text before it was proved. Its parts:

- `LogLinear`, `Once`: in the server's log each change starts from the latest version before it, and no
  commit is there twice. A repeated push after a lost answer is the danger; the first copy has
  moved the heads that a second one would have to start from. Without it a number would not
  determine a commit, nor a commit a number.
- `RowsInv`, `NumbersInv`: only stored commits have numbers, no two of them the same, and a commit
  that the server has under another id is not there under its own. That is the
  case `d # c` of `NumbersAgree`, in which the parent was absorbed though the server had it.
- `ParentsInv` (`Follows`), `StartsFromStored`: parents and bases of unconfirmed commits are in
  lower rows.
- `UnpushedBelowHead`, `Overtaken`: the head of a path that an unpushed commit changes is
  that commit or a later one, or it is a confirmed version. `HeadNotBehind` is not inductive without the last case: after
  a pull the older local commit is still in the chain, and its confirmation
  would leave the head behind it. `Overtaken` says that the server will not accept it, since no number
  at or above the head's is that of its base.
- `GapInv`: the causes of `GapsHaveCause`, number by number and without the cursor, which moves with each push.
- `StagedInv`, `DiskInv`, `MergeParentInv`: what is staged starts from a stored version, what can be added was
  readable, and the parent that a merge leaves behind is in the log.
- `ChainInv`, `AnswerInv`, `PullInv`, `ResetInv`: what a command relies on at each of its steps while
  others push. The chain is closed under unpushed parents, has the newest of
  them, and is sent from the lowest row up; an answer that has not been written down is
  above every number the clone has; a pull has stubs, objects and rows as far as `next`.

One lemma per action shows that the action keeps `Inv` (`PushOneKeeps`, `StoreKeeps`, ...). The lemmas named
`...KeepsTables` do the part about the tables where it changes; `QuietKeeps` does
the rest where it does not. From `Inv` come the theorems on the run's properties, and with them:

- `PushedOnce`, `VersionsInOneLine`: `Once` and `LogLinear` themselves.
- `BasesStayKnown`: a merge finds the base of every unconfirmed version in the clone's own table.
- `CloneUsesLog`: seen from `base` and `log`, every step of `Clone` makes a commit, appends one as `CommitLog` has it, or does both
  at once (`MakeAndAppend`). With `PushImplementsLog` this closes the composition: the server that the clone is
  proved against is one that `PushServer` implements.
- `NumbersStayGiven`: a number or the mark of an absorbed commit is never overwritten, except by cloning anew.
- `CursorNeverBack`: the cursor of a pull never moves back, not even when cloning anew, which accounts
  for every number of the log.

## What is only model-checked

Of the properties of the passing runs only the four on liveness are without a theorem:
`PushAnswered`, `PushesGoOn`, `ConnectionsReleased` and `MergeEnds`. They hold under fairness, which the
prover does not reason about, nor about the `ENABLED` within it. `LoopAlwaysAdvances` is the part
of `MergeEnds` that can be proved.

What the five properties of `Clone` say together: `NumbersAgree` is the meaning of a
confirmed number across lost answers; `ContentLocal` is object before metadata;
`HeadNotBehind` is what the next edit is based on; `GapsHaveCause` shows that a pull by
itself skips nothing, so that the causes named there are the only ones;
`AbsorbsOlder` is why absorbing never hits work that is newer than what was
pushed.

## Findings

- **Overlapping edits merge without a conflict** (`merge_overlap`). When one side has an edit
  at the cursor, `Merge3` writes it and moves to its end; an edit of the other side that begins and
  ends within it is skipped, its text unseen. The comment at `Merge3` promises conflict
  markers for overlapping changes. The pull commits such a merge as clean, and the other side's change is gone.
- **An insertion behind an overlap can be written twice.** `EditsInPlace` needs
  that the edits are apart: when both sides have an edit, both indexes move on by one, and one of them may
  then be at an unchanged stretch that is behind the new cursor. `peekOp` looks past it and finds an
  insertion at the cursor, the index moves on by one to that very insertion, and the next
  turn writes it again. One side that empties a file of three lines and another that
  deletes the first and appends a line (`<<[0,3)>>` against `<<[0,1), same [1,3), insert at 3>>`)
  merge to the appended line twice, without a marker. The lists are among those of run `merge`, whose
  properties say of edits that overlap only what becomes of the lines that both sides keep.
- **A missed commit is not recovered** (`watch_missed`). A comment in `hub.run` says
  that the client detects the gap that a dropped group leaves, and one at
  `RunWatch` that no accepted commit is missed. `RunWatch` takes over the
  number of any event as its cursor and looks for no gap, so a commit that was
  dropped, lost in a crash, or fell between replay and subscription lies below the cursor
  of the next reconnection and is not sent again. It stays in the log. So does the rest of a
  commit of several files whose connection breaks after the event of the first: `architecture.md:576` has the client
  advance its cursor only after the whole group, and `RunWatch` advances it with each event.
  (The run stops at the first kind; with two files in `Path` it shows the second.)
- **A push makes the clone skip what it has not pulled** (`clone_gap`). The number
  of an accepted push becomes the cursor, and file-level concurrency accepts
  pushes of a clone that has not pulled. What others pushed before it is
  never fetched; only cloning anew brings it. A pull that records its stubs and
  then ends early does the same, which `GapsHaveCause` names as the other cause.
- **A push absorbs a commit that nothing replaced** (`clone_fold`). The marker of a
  merge is set by any pull with an unpushed commit around, and cuts that commit out of
  the chain even where the two sides touched different files. Its content is not
  pushed, and the head of its path is a version unknown to the server.

What else was met has no run of its own, or the run would not add to what the text says.

In the code:

- **Foreign keys are enforced on one connection of the pool.** `sqlite.Open`
  (`sqlite.go:34`) executes the pragma once; a connection opened later has the
  default, which is off. A member removed between the
  lookup and the insertion then leaves a grant without a member, against the references of the
  schema (`schema.go:22`, `:88`). `RowsOfMembers` says that nothing else
  does, and that with the pragma on every connection nothing would.
- **A path that never was can be deleted.** The server takes a deletion without a base for a path without a head
  (`handlers.go:401-416`), `upsertFile` has no row to mark (`commit.go:464-467`), and where the
  connection does not enforce the constraint the path has a head and no row in `files`;
  where it does, the push fails as an internal error. `RegistryFollowsLog` says what is in the registry
  nevertheless.
- **A commit whose parent is redacted cannot be stored by a clone.** `filterCommit`
  (`handlers.go:502`) leaves the parents of a visible commit as they are, a stub is no row of `commits`, and the foreign key of
  `commit_parents` (`schema.go:45`) refuses the parent. `ReferencesHold` in `LocalStore` is that check.
- **An insertion within the other side's edit is dropped** by the merge, and two edits that start at one place
  and end at different ones are written in one conflict up to the further end, with what the shorter
  side kept in between left out.
- **A lookup that fails while a mirror is seeded counts as one that found nothing** (`FindFails`). The unique columns of the table
  stop what comes of it, and the mirror fails.
- **An upload is answered as stored though the sync of its directory failed**, and `HasObject` sees an object before
  that sync: a push may refer to an object that a loss of power takes away. `RefsResolve` holds as long as the power stays on, `KeptSurvives` for what was synced.
- **A temporary file left by a killed process or by a failed removal blocks its object for good**: it is read-only, and
  nothing removes it; the errors of `os.Remove` are not looked at (`objects.go:63`, `:68`, `:72`, `:76`). So does, for a moment, a parallel upload of the same object, which is answered with an
  internal error. A process that is root would open it, and two uploads would share a file.
- **A rekey reaches the directory only** (`auth.go:145`), not the rosters of repositories. A mirror carries the roster's key, so an admin
  who has rekeyed cannot verify his own (`mirror.go:197-225`).
- **`checkout .` leaves entries staged** that were staged before (`checkout.go:203`, `:231-234`), and
  **`RunMirror` reads its source in several requests** (`cli/mirror.go:30-70`); if somebody pushes in between, the target refuses what
  does not fit together.

Between comments and code:

- `handlePush` says that a concurrent revocation cannot slip between the permission check and the
  write; the access handlers do not take the lock it refers to. What does hold
  is `AuthorizedUnderLock`: what was revoked before the push took the lock, and not
  granted again, is refused.
- `createRepo` and `applyMirror` say that no partial repo lingers after a failure (`server.go:234-236`, `mirror.go:275-277`). It may after a failing
  `InitBare`, a failing `RemoveAll` or a crash, and the next start serves it; `LeftoverHasCause` shows that there is no other way.
- A comment in `mirror.go:64-67` asks that the signer be registered; `verifyMirror` needs no more than the roster it is given.
- The hub filters a group when it enters a
  subscriber's buffer, so a revocation does not stop what is buffered already.
- A comment in `schema.go:50` says that `files` has one row per path ever seen. A path that was only ever
  deleted has none.

## Plan

In the order of writing.

| module | checks | proofs |
|---|---|---|
| `AccessControl` | `access` (by `PushAudit`) | done |
| `CommitLog` | by refinement | done |
| `PushServer`, `PushAudit` | `push`, `push_live` | done |
| `LocalStore`, `Clone`, but for whole-repository checkout and changing grants | `clone`, `clone_gap`, `clone_fold` | safety done |
| `Watch`, `WatchAudit` | `watch`, `watch_missed` | safety done |
| `ObjectSet`, `ObjectStore` | `objects` | done |
| `RepoLifecycle` | `lifecycle` | done |
| `Merge` | `merge`, `merge_overlap` | safety done |

What would come next: the freshness window within which a signed request may be repeated, and
the pages of the read handlers under grants that change between them.

## Not modelled

Of the merge: lines are values, so that a last line without a newline, which the concatenation of the code
glues to the line that follows it, is a line like any other.

Of the clone: `checkout .`, which only those may run who can read and write
everything; grants that change between two pulls, of which the code says itself
that only cloning anew picks them up; two commands at the same time.

The canonical encoding is injective and below the hash, and an id stands for what
it hashes. Transport, configuration, workspace paths, command-line formatting,
the generated skill text, logging and build information keep no state that a
property of the store depends on. Signature verification is a function of the
request and the directory; requests in the modules are authenticated ones, and the
timestamps that limit how long one may be repeated are left out. The diff library
behind `Merge3` is external: any list of operations of the documented shape stands for its result.
The read handlers and the listings change nothing; what they compute is modelled where a
property needs it (heads, history, redaction), without pages. The client's side of a
mirror only reads the source.
