------------------------------- MODULE Clone -------------------------------
(***************************************************************************)
(* A clone and its commands: add, rm, commit, push, pull, merge --abort,   *)
(* reset and checkout of internal/cli, over the store of LocalStore, the   *)
(* index (internal/index) and the working tree.  The server is the log of  *)
(* CommitLog, which PushServer implements; other clones append to it at    *)
(* any time.                                                               *)
(*                                                                         *)
(* One command runs at a time.  Each is a sequence of statements and       *)
(* requests without a transaction around them, and ends early when any of  *)
(* these fails or the process is killed.                                   *)
(*                                                                         *)
(* A commit's id is the hash of its content, its parents among it, and so  *)
(* the server's id of a pushed commit is the clone's if and only if the    *)
(* push names the parents that the commit was made with.                   *)
(***************************************************************************)
EXTENDS LocalStore

CONSTANT NotStaged   \* the index has no entry for a path

VARIABLES
  staged,       \* table staged: content and base of a path's next version
  mergeParent,  \* table merge_state: the remote head merged against, or NoCommit
  unresolved,   \* table merge_conflicts
  disk,         \* the working tree
  cmd           \* the command that runs, and how far it is

indexVars == <<staged, mergeParent, unresolved>>
localVars == <<storeVars, indexVars, disk>>
vars      == <<commitVars, localVars, cmd>>

Entry == [text : Contents, base : Commit \cup {NoCommit}]

Idle == [step |-> "idle"]

NothingStaged == [p \in Path |-> NotStaged]

\* What a command does next; from and upto are the numbers that a pull has
\* fetched, and ours is the local commit that it merges with.
Step ==
  [step : {"idle", "clear", "clearMerge", "absorb"}]
    \cup [step : {"send", "confirm"}, todo : SUBSET Commit, number : Nat]
    \cup [step : {"stub", "download", "check", "store", "merge"},
          from : Nat \ {0}, upto : Nat, next : Nat, ours : Commit \cup {NoCommit}, paths : SUBSET Path]
    \cup [step : {"repoint", "restore"}, todo : SUBSET Path, affected : SUBSET Path]

Init ==
  /\ StoreInit
  /\ staged = NothingStaged
  /\ mergeParent = NoCommit
  /\ unresolved = {}
  /\ disk = [p \in Path |-> Deleted]
  /\ cmd = Idle

-----------------------------------------------------------------------------
(* The user, and other clones.                                             *)

Edit(p, x) ==
  /\ cmd = Idle
  /\ p \in Readable /\ disk[p] # x
  /\ disk' = [disk EXCEPT ![p] = x]
  /\ UNCHANGED <<commitVars, storeVars, indexVars, cmd>>

\* Others change the latest versions, after any commit they have pulled.  What
\* they leave at a path that the clone may not read is not told apart.
OthersPush(c) ==
  /\ c \notin Mine /\ Changes(c) = {}
  /\ \E f \in [Path -> Contents \cup {Untouched}] :
       /\ \E p \in Path : f[p] # Untouched
       /\ \A p \in Path :
            IF p \in Readable
              THEN f[p] = Deleted => Latest(p) # NoCommit /\ content[Latest(p)][p] # Deleted
              ELSE f[p] \in {Deleted, Untouched}
       /\ base' = [base EXCEPT ![c] = [p \in Path |-> IF f[p] = Untouched THEN Untouched ELSE Latest(p)]]
       /\ content' = [content EXCEPT ![c] = [p \in Path |-> IF f[p] = Untouched THEN Deleted ELSE f[p]]]
  /\ \E d \in Range(log) \cup {NoCommit} : parent' = [parent EXCEPT ![c] = d]
  /\ log' = Append(log, c)
  /\ UNCHANGED <<localVars, cmd>>

-----------------------------------------------------------------------------
(* add, rm, commit.                                                        *)

\* The entry of p once stageOne has seen the text x: none is made, and none
\* removed, where x is what the head has.
StageOne(p, x) == IF x = HeadText(p) THEN staged[p] ELSE [text |-> x, base |-> head[p]]

RunAdd(p) ==
  /\ cmd = Idle
  /\ disk[p] # Deleted
  /\ staged' = [staged EXCEPT ![p] = StageOne(p, disk[p])]
  /\ objects' = IF disk[p] = HeadText(p) THEN objects ELSE objects \cup {disk[p]}
  /\ UNCHANGED <<commitVars, rows, seq, stubs, head, mergeParent, unresolved, disk, cmd>>

RunRm(p) ==
  /\ cmd = Idle
  /\ HeadText(p) # Deleted
  /\ disk' = [disk EXCEPT ![p] = Deleted]
  /\ staged' = [staged EXCEPT ![p] = [text |-> Deleted, base |-> head[p]]]
  /\ UNCHANGED <<commitVars, storeVars, mergeParent, unresolved, cmd>>

ParentOfNext == IF mergeParent # NoCommit THEN mergeParent ELSE LatestCommitID

RunCommit(c) ==
  /\ cmd = Idle
  /\ c \in Mine /\ Changes(c) = {}
  /\ staged # NothingStaged
  /\ \A p \in Path : staged[p] # NotStaged => staged[p].text \in objects \cup {Deleted}
  /\ base' = [base EXCEPT ![c] =
       [p \in Path |-> IF staged[p] = NotStaged THEN Untouched ELSE staged[p].base]]
  /\ content' = [content EXCEPT ![c] =
       [p \in Path |-> IF staged[p] = NotStaged THEN Deleted ELSE staged[p].text]]
  /\ parent' = [parent EXCEPT ![c] = ParentOfNext]
  /\ WriteCommit(c, {p \in Path : staged[p] # NotStaged})
  /\ cmd' = [step |-> "clear"]
  /\ UNCHANGED <<log, seq, stubs, objects, indexVars, disk>>

\* The index is another database.
ClearIndex ==
  /\ cmd.step = "clear"
  /\ staged' = NothingStaged
  /\ cmd' = IF mergeParent = NoCommit THEN Idle ELSE [step |-> "clearMerge"]
  /\ UNCHANGED <<commitVars, storeVars, mergeParent, unresolved, disk>>

ClearMergeState ==
  /\ cmd.step = "clearMerge"
  /\ mergeParent' = NoCommit
  /\ cmd' = Idle
  /\ UNCHANGED <<commitVars, storeVars, staged, unresolved, disk>>

-----------------------------------------------------------------------------
(* push.                                                                   *)

RunPush ==
  /\ cmd = Idle
  /\ UnpushedChain # {}
  /\ cmd' = [step |-> "send", todo |-> UnpushedChain, number |-> 0]
  /\ UNCHANGED <<commitVars, localVars>>

\* The commit of the chain that is next to be sent.
NextToPush == Oldest(cmd.todo)

\* Only parents that the server has numbered are sent with a commit.
ParentSent(c) ==
  IF parent[c] # NoCommit /\ Confirmed(parent[c]) THEN parent[c] ELSE NoCommit

BasesMatch(c) == \A p \in Changes(c) : base[c][p] = Latest(p)

\* The server appends the commit, under the id it computes.  The answer may
\* be lost, and then the command fails.
PushOne ==
  /\ cmd.step = "send"
  /\ LET c == NextToPush
     IN  /\ BasesMatch(c)
         /\ \E d \in Commit :
              /\ IF ParentSent(c) = parent[c] THEN d = c ELSE d \notin Mine /\ Changes(d) = {}
              /\ log' = Append(log, d)
              /\ base' = [base EXCEPT ![d] = base[c]]
              /\ content' = [content EXCEPT ![d] = content[c]]
              /\ parent' = [parent EXCEPT ![d] = ParentSent(c)]
  /\ \E answered \in BOOLEAN :
       cmd' = IF answered THEN [cmd EXCEPT !.step = "confirm", !.number = Len(log) + 1] ELSE Idle
  /\ UNCHANGED localVars

\* A commit that conflicts ends the push.
Rejected ==
  /\ cmd.step = "send"
  /\ ~ BasesMatch(NextToPush)
  /\ cmd' = Idle
  /\ UNCHANGED <<commitVars, localVars>>

\* Mistake: the number is taken from the clone's own cursor.
ConfirmNext ==
  /\ cmd.step = "confirm"
  /\ seq' = [seq EXCEPT ![NextToPush] = MaxConfirmedSeq + 1]
  /\ cmd' = IF cmd.todo = {NextToPush}
              THEN [step |-> "absorb"]
              ELSE [cmd EXCEPT !.step = "send", !.todo = @ \ {NextToPush}]
  /\ UNCHANGED <<commitVars, rows, stubs, head, objects, indexVars, disk>>

\* Mistake: one commit is pushed, and the others are not.
ConfirmFirst ==
  /\ cmd.step = "confirm"
  /\ seq' = [seq EXCEPT ![NextToPush] = cmd.number]
  /\ cmd' = [step |-> "absorb"]
  /\ UNCHANGED <<commitVars, rows, stubs, head, objects, indexVars, disk>>

ConfirmSeq ==
  /\ cmd.step = "confirm"
  /\ seq' = [seq EXCEPT ![NextToPush] = cmd.number]
  /\ cmd' = IF cmd.todo = {NextToPush}
              THEN [step |-> "absorb"]
              ELSE [cmd EXCEPT !.step = "send", !.todo = @ \ {NextToPush}]
  /\ UNCHANGED <<commitVars, rows, stubs, head, objects, indexVars, disk>>

\* All else that is unpushed counts as superseded.
AbsorbTheRest ==
  /\ cmd.step = "absorb"
  /\ AbsorbAllUnpushed
  /\ cmd' = Idle
  /\ UNCHANGED <<commitVars, rows, stubs, head, objects, indexVars, disk>>

-----------------------------------------------------------------------------
(* pull.                                                                   *)

\* The numbers that the command in progress has fetched and may read.
Fetched == cmd.from .. cmd.upto
Visible == {n \in Fetched : Files(log[n]) # {}}

NewFiles == UNION {Files(log[n]) : n \in Fetched}

\* The fetched head of a path, and the commit a merge is made against.
ServerHead(p) == log[Max({n \in Fetched : p \in Files(log[n])})]
SecondParent  == log[Max(Visible)]

OurFiles == IF cmd.ours = NoCommit THEN {} ELSE Files(cmd.ours)

PullTo(s) == cmd' = [cmd EXCEPT !.step = s, !.next = cmd.from]

\* Nothing may be staged.  All that lies beyond the cursor is fetched.
RunPull ==
  /\ cmd = Idle
  /\ staged = NothingStaged
  /\ MaxConfirmedSeq < Len(log)
  /\ cmd' = [step |-> "stub", from |-> MaxConfirmedSeq + 1, upto |-> Len(log),
             next |-> MaxConfirmedSeq + 1, ours |-> NoCommit, paths |-> {}]
  /\ UNCHANGED <<commitVars, localVars>>

\* Mistake: a commit that cannot be read is passed over.
DropRedacted ==
  /\ cmd.step = "stub" /\ cmd.next <= cmd.upto
  /\ cmd' = [cmd EXCEPT !.next = @ + 1]
  /\ UNCHANGED <<commitVars, localVars>>

RecordRedactedStub ==
  /\ cmd.step = "stub" /\ cmd.next <= cmd.upto
  /\ stubs' = IF cmd.next \in Visible THEN stubs ELSE stubs \cup {cmd.next}
  /\ cmd' = [cmd EXCEPT !.next = @ + 1]
  /\ UNCHANGED <<commitVars, rows, seq, head, objects, indexVars, disk>>

StubsRecorded ==
  /\ cmd.step = "stub" /\ cmd.next > cmd.upto
  /\ IF Visible = {} THEN cmd' = Idle ELSE PullTo("download")
  /\ UNCHANGED <<commitVars, localVars>>

\* Mistake: only the versions that are going to be heads are fetched.
DownloadHeads ==
  /\ cmd.step = "download"
  /\ objects' = objects \cup ({content[ServerHead(p)][p] : p \in NewFiles} \ {Deleted})
  /\ PullTo("check")
  /\ UNCHANGED <<commitVars, rows, seq, stubs, head, indexVars, disk>>

DownloadObjects ==
  /\ cmd.step = "download"
  /\ objects' = objects \cup
       ((UNION {{content[log[n]][p] : p \in Files(log[n])} : n \in Visible}) \ {Deleted})
  /\ PullTo("check")
  /\ UNCHANGED <<commitVars, rows, seq, stubs, head, indexVars, disk>>

\* A file that differs from its head and is about to be fast-forwarded;
\* files the head does not have, and those that ours changes, are not looked at.
WouldOverwrite(p) ==
  /\ HeadText(p) # Deleted /\ disk[p] \notin {Deleted, HeadText(p)}
  /\ NewestUnpushed = NoCommit \/ p \notin Files(NewestUnpushed)

\* The check comes before the heads move.
CheckUnstaged ==
  /\ cmd.step = "check"
  /\ cmd' = IF \E p \in NewFiles : WouldOverwrite(p)
              THEN Idle
              ELSE [cmd EXCEPT !.step = "store", !.ours = NewestUnpushed]
  /\ UNCHANGED <<commitVars, localVars>>

\* One transaction per commit; a commit whose id is there is skipped, and one
\* that the foreign keys refuse ends the command.
WriteRemoteCommit ==
  LET c == log[cmd.next]
  IN  /\ cmd.step = "store" /\ cmd.next <= cmd.upto
      /\ IF cmd.next \notin Visible \/ Stored(c)
           THEN /\ cmd' = [cmd EXCEPT !.next = @ + 1]
                /\ UNCHANGED storeVars
           ELSE IF ReferencesHold(c)
           THEN /\ WriteCommit(c, Files(c))
                /\ seq' = [seq EXCEPT ![c] = cmd.next]
                /\ cmd' = [cmd EXCEPT !.next = @ + 1]
                /\ UNCHANGED <<stubs, objects>>
           ELSE cmd' = Idle /\ UNCHANGED storeVars
      /\ UNCHANGED <<commitVars, indexVars, disk>>

CommitsStored ==
  /\ cmd.step = "store" /\ cmd.next > cmd.upto
  /\ cmd' = [cmd EXCEPT !.step = "merge", !.paths = NewFiles]
  /\ UNCHANGED <<commitVars, localVars>>

Merging(p) == cmd.step = "merge" /\ p \in cmd.paths
Merged(p)  == cmd' = [cmd EXCEPT !.paths = @ \ {p}]

Ours(p)   == content[cmd.ours][p]
Theirs(p) == content[ServerHead(p)][p]

\* Only the server changed p.  Removing a file that is gone is an error.
FastForward(p) ==
  /\ Merging(p) /\ p \notin OurFiles
  /\ IF Theirs(p) = Deleted /\ disk[p] = Deleted
       THEN cmd' = Idle /\ UNCHANGED disk
       ELSE Merged(p) /\ disk' = [disk EXCEPT ![p] = Theirs(p)]
  /\ UNCHANGED <<commitVars, storeVars, indexVars>>

\* One side deleted p and the other did not: the text that is left is shown.
ModifyDelete(p) ==
  /\ Merging(p) /\ p \in OurFiles
  /\ (Ours(p) = Deleted) # (Theirs(p) = Deleted)
  /\ disk' = IF Ours(p) = Deleted THEN [disk EXCEPT ![p] = Theirs(p)] ELSE disk
  /\ unresolved' = unresolved \cup {p}
  /\ Merged(p)
  /\ UNCHANGED <<commitVars, storeVars, staged, mergeParent>>

BothDeleted(p) ==
  /\ Merging(p) /\ p \in OurFiles
  /\ Ours(p) = Deleted /\ Theirs(p) = Deleted
  /\ Merged(p)
  /\ UNCHANGED <<commitVars, localVars>>

BaseText(p) ==
  LET b == base[cmd.ours][p]
  IN  IF b # NoCommit /\ Stored(b) THEN FileAtCommit(b, p) ELSE Deleted

\* What a three-way merge may give without a conflict, and whether it may conflict.
CleanTexts(b, ours, theirs) ==
  IF ours = theirs \/ b = theirs THEN {ours} ELSE IF b = ours THEN {theirs} ELSE Text
MayConflict(b, ours, theirs) == ours # theirs /\ b \notin {ours, theirs}

BothModified(p) == Merging(p) /\ p \in OurFiles /\ Ours(p) # Deleted /\ Theirs(p) # Deleted

MergeCleanly(p) ==
  /\ BothModified(p)
  /\ \E x \in CleanTexts(BaseText(p), Ours(p), Theirs(p)) :
       /\ disk' = [disk EXCEPT ![p] = x]
       /\ objects' = objects \cup {x}
       /\ staged' = [staged EXCEPT ![p] = [text |-> x, base |-> ServerHead(p)]]
  /\ Merged(p)
  /\ UNCHANGED <<commitVars, rows, seq, stubs, head, mergeParent, unresolved>>

MergeConflict(p) ==
  /\ BothModified(p)
  /\ MayConflict(BaseText(p), Ours(p), Theirs(p))
  /\ \E x \in Text : disk' = [disk EXCEPT ![p] = x]
  /\ unresolved' = unresolved \cup {p}
  /\ Merged(p)
  /\ UNCHANGED <<commitVars, storeVars, staged, mergeParent>>

SetMergeState ==
  /\ cmd.step = "merge" /\ cmd.paths = {}
  /\ mergeParent' = IF cmd.ours = NoCommit THEN mergeParent ELSE SecondParent
  /\ cmd' = Idle
  /\ UNCHANGED <<commitVars, storeVars, staged, unresolved, disk>>

-----------------------------------------------------------------------------
(* merge --abort, reset, checkout, clone.                                  *)

\* What an unresolved path is restored to, if it is to anything.
AbortText(p) ==
  LET c == NewestUnpushed
  IN  IF c # NoCommit /\ p \in Files(c) /\ content[c][p] # Deleted THEN content[c][p] ELSE HeadText(p)

RunMergeAbort ==
  /\ cmd = Idle
  /\ mergeParent # NoCommit
  /\ disk' = [p \in Path |-> IF p \in unresolved /\ AbortText(p) # Deleted THEN AbortText(p) ELSE disk[p]]
  /\ unresolved' = {}
  /\ staged' = NothingStaged
  /\ mergeParent' = NoCommit
  /\ UNCHANGED <<commitVars, storeVars, cmd>>

RunReset ==
  /\ cmd = Idle
  /\ staged = NothingStaged
  /\ UnpushedChain # {}
  /\ AbsorbAllUnpushed
  /\ LET affected == UNION {Files(c) : c \in UnpushedChain}
     IN  cmd' = [step |-> "repoint", todo |-> affected, affected |-> affected]
  /\ UNCHANGED <<commitVars, rows, stubs, head, objects, indexVars, disk>>

RepointHead(p) ==
  /\ cmd.step = "repoint" /\ p \in cmd.todo
  /\ head' = [head EXCEPT ![p] = LatestConfirmed(p)]
  /\ cmd' = IF cmd.todo = {p} THEN [cmd EXCEPT !.step = "restore", !.todo = cmd.affected]
                              ELSE [cmd EXCEPT !.todo = @ \ {p}]
  /\ UNCHANGED <<commitVars, rows, seq, stubs, objects, indexVars, disk>>

RestoreFile(p) ==
  /\ cmd.step = "restore" /\ p \in cmd.todo
  /\ disk' = [disk EXCEPT ![p] = HeadText(p)]
  /\ cmd' = IF cmd.todo = {p} THEN Idle ELSE [cmd EXCEPT !.todo = @ \ {p}]
  /\ UNCHANGED <<commitVars, storeVars, indexVars>>

RunCheckout(c, p) ==
  /\ cmd = Idle
  /\ Stored(c)
  /\ LET x == FileAtCommit(c, p)
     IN  /\ x # Deleted
         /\ disk' = [disk EXCEPT ![p] = x]
         /\ staged' = [staged EXCEPT ![p] = StageOne(p, x)]
  /\ UNCHANGED <<commitVars, storeVars, mergeParent, unresolved, cmd>>

\* A fresh clone in place of the old one; nothing but the server's log survives.
RunClone ==
  LET numbers == {n \in DOMAIN log : Files(log[n]) # {}}
      visible == {log[n] : n \in numbers}
  IN  /\ cmd = Idle
      /\ log # << >>
      /\ \A c \in visible : parent[c] \in visible \cup {NoCommit}
      /\ seq' = [c \in Commit |->
           IF c \in visible THEN CHOOSE n \in numbers : log[n] = c ELSE 0]
      /\ rows' \in [1 .. Cardinality(visible) -> visible]
      /\ Range(rows') = visible
      /\ \A i, j \in DOMAIN rows' : i < j => seq'[rows'[i]] < seq'[rows'[j]]
      /\ stubs' = DOMAIN log \ numbers
      /\ head' = [p \in Path |-> IF p \in Readable THEN Latest(p) ELSE NoCommit]
      /\ objects' = (UNION {{content[c][p] : p \in Files(c)} : c \in visible}) \ {Deleted}
      /\ disk' = [p \in Path |-> IF head'[p] = NoCommit THEN Deleted ELSE content[head'[p]][p]]
      /\ staged' = NothingStaged
      /\ mergeParent' = NoCommit
      /\ unresolved' = {}
      /\ UNCHANGED <<commitVars, cmd>>

\* A call of the running command fails, or its process is killed.
Fails ==
  /\ cmd # Idle
  /\ cmd' = Idle
  /\ UNCHANGED <<commitVars, localVars>>

-----------------------------------------------------------------------------

CommitNext == (\E c \in Mine : RunCommit(c)) \/ ClearIndex \/ ClearMergeState

PushNext == RunPush \/ PushOne \/ Rejected \/ ConfirmSeq \/ AbsorbTheRest

PullNext ==
  \/ RunPull \/ RecordRedactedStub \/ StubsRecorded \/ DownloadObjects \/ CheckUnstaged
  \/ WriteRemoteCommit \/ CommitsStored \/ SetMergeState
  \/ \E p \in Path :
       FastForward(p) \/ ModifyDelete(p) \/ BothDeleted(p) \/ MergeCleanly(p) \/ MergeConflict(p)

ResetNext == RunReset \/ \E p \in Path : RepointHead(p) \/ RestoreFile(p)

Work ==
  \/ \E p \in Path : RunAdd(p) \/ RunRm(p) \/ \E x \in Contents : Edit(p, x)
  \/ \E c \in Commit : OthersPush(c) \/ \E p \in Path : RunCheckout(c, p)
  \/ CommitNext \/ PushNext \/ PullNext \/ ResetNext
  \/ RunMergeAbort \/ RunClone

Next == Work \/ Fails

Spec == Init /\ [][Next]_vars

-----------------------------------------------------------------------------
(* Properties.                                                             *)

\* The variables have the types of the columns, files and fields they stand for.
TypeOK ==
  /\ StoreTypeOK
  /\ staged \in [Path -> Entry \cup {NotStaged}]
  /\ mergeParent \in Commit \cup {NoCommit}
  /\ unresolved \subseteq Path
  /\ disk \in [Path -> Contents]
  /\ cmd \in Step

\* What the clone has numbered is what the server's log has under that number,
\* whatever answers were lost or commands cut short.  The ids agree too, unless
\* the parent is a commit that the server has and the clone has given up.
NumbersAgree ==
  \A c \in Commit : Confirmed(c) =>
    /\ seq[c] \in DOMAIN log
    /\ LET d == log[seq[c]]
       IN  /\ base[d] = base[c] /\ content[d] = content[c]
           /\ d # c => parent[c] \in Range(log) /\ Absorbed(parent[c])

\* Object before metadata: no version that the clone has stored or staged
\* refers to content its object store does not hold.
ContentLocal ==
  /\ \A c \in Range(rows) : \A p \in Files(c) : content[c][p] \in objects \cup {Deleted}
  /\ \A p \in Path : staged[p] # NotStaged => staged[p].text \in objects \cup {Deleted}

\* The head of a path is never behind the confirmed versions of it, through
\* pulls, merges and resets, and whichever of these end early.
HeadNotBehind ==
  \A p \in Path : \A c \in Range(rows) : Confirmed(c) /\ p \in Files(c) =>
    head[p] # NoCommit /\ (Confirmed(head[p]) => seq[c] <= seq[head[p]])

Accounted(n) == n \in stubs \/ log[n] \in Range(rows) \/ \E c \in Commit : seq[c] = n

\* A pull that stores what it fetched skips nothing: a number below the cursor
\* that the clone has neither commit nor stub for lies below one that it pushed,
\* or below a stub that was recorded before its pull ended early.
GapsHaveCause ==
  \A n \in 1 .. MaxConfirmedSeq :
    \/ Accounted(n)
    \/ \E m \in stubs : m > n
    \/ \E c \in Mine : seq[c] > n

\* When a push absorbs what is left (AbsorbAllUnpushedCommits), the server has
\* accepted a commit of the clone that is newer than all of it.
AbsorbsOlder ==
  cmd.step = "absorb" =>
    \E d \in Mine : Confirmed(d) /\ \A c \in Range(rows) : Unpushed(c) => Rowid(c) < Rowid(d)

\* The clone's numbers are contiguous: when no command runs, each up to the
\* cursor is that of a commit it has or a stub, as architecture.md says of stubs.
SeqSpaceContiguous ==
  cmd = Idle => \A n \in 1 .. MaxConfirmedSeq : Accounted(n)

\* What a push is about to absorb is superseded: each path that such a commit
\* changes is changed by a later commit of the clone that the server has.
AbsorbsFolded ==
  cmd.step = "absorb" =>
    \A c \in Range(rows) : Unpushed(c) /\ c \notin Range(log) =>
      \A p \in Files(c) : \E d \in Range(rows) :
        Confirmed(d) /\ Rowid(d) > Rowid(c) /\ p \in Files(d)
=============================================================================
