----------------------------- MODULE LocalStore -----------------------------
(***************************************************************************)
(* The store of a clone: the tables of internal/store that hold commits    *)
(* the clone made, commits it pulled, and the positions of those it may    *)
(* not read, with the queries of store/commit.go and store/query.go over   *)
(* them.  The log of CommitLog is the server's.                            *)
(*                                                                         *)
(* A clone talks to one SQLite connection, on which foreign keys are       *)
(* enforced.                                                               *)
(***************************************************************************)
EXTENDS CommitLog, SequencesExt

CONSTANTS
  Mine,       \* ids of the commits that the clone makes
  Text,       \* contents of files
  Deleted,    \* the content of a file that is not there
  Readable    \* the paths that the clone's principal may read

ASSUME CloneConstants ==
  /\ Mine \subseteq Commit /\ Readable \subseteq Path
  /\ NoCommit \notin Commit /\ Untouched \notin Commit \cup {NoCommit}
  /\ Deleted \notin Text

VARIABLES
  content,   \* content[c][p]: what commit c leaves at p
  parent,    \* the parent a commit was made with
  rows,      \* table commits, in the order of rowid
  seq,       \* column seq: positive once confirmed, 0 for NULL, -rowid once absorbed
  stubs,     \* table redacted_commits
  head,      \* table file_branch_heads
  objects    \* contents in the clone's object store

commitVars == <<base, content, parent, log>>
storeVars  == <<rows, seq, stubs, head, objects>>

Contents == Text \cup {Deleted}

\* What the clone gets to see of a commit.
Files(c) == Changes(c) \cap Readable

Stored(c)    == c \in Range(rows)
Confirmed(c) == seq[c] > 0
Unpushed(c)  == Stored(c) /\ seq[c] = 0
Absorbed(c)  == seq[c] < 0
Rowid(c)     == CHOOSE i \in DOMAIN rows : rows[i] = c

HeadText(p) == IF head[p] = NoCommit THEN Deleted ELSE content[head[p]][p]

\* The commit of S with the highest rowid, and the one with the lowest.
Newest(S) == IF S = {} THEN NoCommit ELSE rows[Max({i \in DOMAIN rows : rows[i] \in S})]
Oldest(S) == rows[Min({i \in DOMAIN rows : rows[i] \in S})]

AllUnpushed == {c \in Range(rows) : Unpushed(c)}

NewestUnpushed == Newest(AllUnpushed)

LatestCommitID == Newest({c \in Range(rows) : ~ Absorbed(c)})

\* What is reached from the newest unpushed commit along parents, as far as
\* these are unpushed too.  Parents come first, and so do lower rowids: the
\* order of the chain is theirs.
UnpushedChain ==
  LET Closed(S) == NewestUnpushed \in S /\ \A c \in S : parent[c] \in AllUnpushed => parent[c] \in S
  IN  {c \in AllUnpushed : \A S \in SUBSET AllUnpushed : Closed(S) => c \in S}

MaxConfirmedSeq == Max({0} \cup {seq[c] : c \in Commit} \cup stubs)

\* Every path that was ever added has a row in the registry of files.
Registered == {p \in Path : \E c \in Range(rows) : p \in Files(c) /\ content[c][p] # Deleted}

\* What the foreign keys demand of a new row.
ReferencesHold(c) ==
  /\ parent[c] # NoCommit => Stored(parent[c])
  /\ \A p \in Files(c) : content[c][p] = Deleted => p \in Registered

\* The rows that a commit's transaction writes.
WriteCommit(c, paths) ==
  /\ rows' = Append(rows, c)
  /\ head' = [p \in Path |-> IF p \in paths THEN c ELSE head[p]]

\* The commits at or before c, and their order: numbers, then rowids.
HistoryScope(c) ==
  {d \in Range(rows) :
     IF Confirmed(c) THEN Confirmed(d) /\ seq[d] <= seq[c]
                     ELSE Confirmed(d) \/ (Unpushed(d) /\ Rowid(d) <= Rowid(c))}

LaterThan(d, e) ==
  \/ Unpushed(d) /\ Confirmed(e)
  \/ Unpushed(d) /\ Unpushed(e) /\ Rowid(d) > Rowid(e)
  \/ Confirmed(d) /\ Confirmed(e) /\ seq[d] > seq[e]

FileAtCommit(c, p) ==
  LET versions == {d \in HistoryScope(c) : p \in Files(d)}
  IN  IF versions = {}
        THEN Deleted
        ELSE content[CHOOSE d \in versions : \A e \in versions \ {d} : LaterThan(d, e)][p]

AbsorbAllUnpushed ==
  seq' = [c \in Commit |-> IF Unpushed(c) THEN - Rowid(c) ELSE seq[c]]

\* Mistake: in ascending order.
FirstConfirmed(p) ==
  LET versions == {d \in Range(rows) : Confirmed(d) /\ p \in Files(d)}
  IN  IF versions = {}
        THEN NoCommit
        ELSE CHOOSE d \in versions : \A e \in versions \ {d} : LaterThan(e, d)

\* The confirmed head of a path, for Reset.
LatestConfirmed(p) ==
  LET versions == {d \in Range(rows) : Confirmed(d) /\ p \in Files(d)}
  IN  IF versions = {}
        THEN NoCommit
        ELSE CHOOSE d \in versions : \A e \in versions \ {d} : LaterThan(d, e)

StoreInit ==
  /\ LogInit
  /\ content = [c \in Commit |-> [p \in Path |-> Deleted]]
  /\ parent = [c \in Commit |-> NoCommit]
  /\ rows = << >>
  /\ seq = [c \in Commit |-> 0]
  /\ stubs = {}
  /\ head = [p \in Path |-> NoCommit]
  /\ objects = {}

StoreTypeOK ==
  /\ base \in [Commit -> [Path -> Commit \cup {NoCommit, Untouched}]]
  /\ log \in Seq(Commit)
  /\ content \in [Commit -> [Path -> Contents]]
  /\ parent \in [Commit -> Commit \cup {NoCommit}]
  /\ rows \in Seq(Commit)
  /\ seq \in [Commit -> Int]
  /\ stubs \subseteq Nat
  /\ head \in [Path -> Commit \cup {NoCommit}]
  /\ objects \subseteq Text
=============================================================================
