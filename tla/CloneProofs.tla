----------------------------- MODULE CloneProofs -----------------------------
(***************************************************************************)
(* Proofs about Clone, for any commits, paths and texts, any log of the    *)
(* server, and commands that end at any point.                             *)
(*                                                                         *)
(* Inv joins the properties of Clone with what they rest on: the server's  *)
(* log is linear in each file, so that no commit enters it twice; a commit *)
(* of the clone starts from versions that the clone has; a local version   *)
(* that a pulled one has overtaken can no longer be pushed; and a command  *)
(* keeps what its earlier steps established.                               *)
(***************************************************************************)
EXTENDS Clone, FiniteSetTheorems, WellFoundedInduction, TLAPS

IsMade(c) == Changes(c) # {}

\* The server's log: commits that were made, each once, and each change starts
\* from the latest version before it.
Once == \A m, n \in DOMAIN log : log[m] = log[n] => m = n

LogLinear ==
  \A n \in DOMAIN log : \A p \in Changes(log[n]) :
    /\ base[log[n]][p] # NoCommit =>
         \E m \in 1 .. n - 1 : log[m] = base[log[n]][p] /\ p \in Changes(log[m])
    /\ \A k \in 1 .. n - 1 : p \in Changes(log[k]) =>
         /\ base[log[n]][p] # NoCommit
         /\ \A m \in 1 .. n - 1 : log[m] = base[log[n]][p] => k <= m

LogInv == (\A n \in DOMAIN log : IsMade(log[n])) /\ Once /\ LogLinear

\* The table of commits has each commit once, and numbers only those in it; what
\* has no number is the clone's own.
RowsOnce == \A i, j \in DOMAIN rows : rows[i] = rows[j] => i = j

RowsInv ==
  /\ RowsOnce
  /\ \A c \in Range(rows) : IsMade(c) /\ (~ Confirmed(c) => c \in Mine)
  /\ \A c \in Commit : seq[c] # 0 => Stored(c)

\* A commit that the server has under another id is not there under its own.
NumbersInv ==
  /\ NumbersAgree
  /\ \A c, d \in Commit : Confirmed(c) /\ seq[c] = seq[d] => c = d
  /\ \A c \in Commit : Confirmed(c) /\ log[seq[c]] # c => c \notin Range(log)
  /\ stubs \subseteq DOMAIN log

\* An unpushed commit follows its parent, which was given up only if the server
\* has it.
Follows(c) ==
  parent[c] # NoCommit =>
    /\ Stored(parent[c]) /\ Rowid(parent[c]) < Rowid(c)
    /\ Absorbed(parent[c]) => parent[c] \in Range(log)

ParentsInv == \A c \in AllUnpushed : Follows(c)

\* A commit of the clone's own starts from versions that the clone has.
StartsFromStored(c) ==
  \A p \in Files(c) : base[c][p] # NoCommit =>
    Stored(base[c][p]) /\ p \in Files(base[c][p]) /\ Rowid(base[c][p]) < Rowid(c)

\* The head of what an unpushed commit changes is that commit, a later one, or a
\* confirmed version; in the last case the server has overtaken the commit.
Overtaken(c, p) == \A n \in DOMAIN log : n >= seq[head[p]] => log[n] # base[c][p]

UnpushedBelowHead(c) ==
  \A p \in Files(c) :
    /\ head[p] # NoCommit
    /\ IF Confirmed(head[p]) THEN Overtaken(c, p)
                             ELSE Unpushed(head[p]) /\ Rowid(c) <= Rowid(head[p])

HeadInv ==
  /\ \A p \in Path : head[p] # NoCommit => Stored(head[p]) /\ p \in Files(head[p])
  /\ \A c \in Range(rows) : ~ Confirmed(c) => StartsFromStored(c)
  /\ \A c \in AllUnpushed : UnpushedBelowHead(c)
  /\ HeadNotBehind

\* GapsHaveCause, without the cursor.
Cause(n) ==
  \/ Accounted(n)
  \/ \E m \in stubs : m > n
  \/ \E c \in Mine : seq[c] > n

GapInv ==
  /\ \A c \in Commit : \A n \in 1 .. seq[c] : Cause(n)
  /\ \A m \in stubs : \A n \in 1 .. m : Cause(n)

TablesInv == LogInv /\ RowsInv /\ NumbersInv /\ ParentsInv /\ HeadInv /\ GapInv

\* What is staged and what is in the working tree can be read, and a staged
\* version starts from one the clone has.
StagedInv ==
  \A p \in Path : staged[p] # NotStaged =>
    /\ p \in Readable
    /\ staged[p].base # NoCommit => Stored(staged[p].base) /\ p \in Files(staged[p].base)

DiskInv == \A p \in Path : disk[p] # Deleted => p \in Readable

MergeParentInv == mergeParent # NoCommit => mergeParent \in Range(log) /\ Stored(mergeParent)

LocalInv == StagedInv /\ DiskInv /\ MergeParentInv /\ ContentLocal

\* The rest of the chain that a push has still to send.
ChainInv ==
  cmd.step \in {"send", "confirm"} =>
    /\ cmd.todo # {} /\ cmd.todo \subseteq AllUnpushed
    /\ \A c \in cmd.todo : parent[c] \in AllUnpushed => parent[c] \in cmd.todo
    /\ \A c \in AllUnpushed : \E d \in cmd.todo : Rowid(c) <= Rowid(d)

\* What the server has answered to it.
AnswerInv ==
  cmd.step = "confirm" =>
    LET c == NextToPush
        d == log[cmd.number]
    IN  /\ cmd.number \in DOMAIN log
        /\ \A e \in Commit : seq[e] < cmd.number
        /\ base[d] = base[c] /\ content[d] = content[c]
        /\ d # c => c \notin Range(log) /\ parent[c] \in Range(log) /\ Absorbed(parent[c])
        /\ \A p \in Files(c) :
             /\ ~ Confirmed(head[p])
             /\ head[p] = c => \A e \in AllUnpushed \ {c} : p \in Files(e) =>
                  \A n \in DOMAIN log : n >= cmd.number => log[n] # base[e][p]

PullStep == {"stub", "download", "check", "store", "merge"}

\* How far the clone's numbers go while a pull runs.
NumberedTo(k) == \A c \in Commit : seq[c] < k

StubbedTo(k)  == \A n \in cmd.from .. k - 1 : n \notin Visible => n \in stubs
StoredTo(k)   == \A n \in cmd.from .. k - 1 : n \in Visible => Stored(log[n])

FetchedLocal ==
  \A n \in Fetched : \A p \in Files(log[n]) : content[log[n]][p] \in objects \cup {Deleted}

PullInv ==
  cmd.step \in PullStep =>
    /\ cmd.upto <= Len(log) /\ cmd.from <= cmd.upto /\ cmd.next \in cmd.from .. cmd.upto + 1
    /\ \A n \in 1 .. cmd.from - 1 : Cause(n)
    /\ cmd.step \in {"stub", "download", "check"} => NumberedTo(cmd.from)
    /\ cmd.step \in {"download", "check"} => cmd.next = cmd.from
    /\ IF cmd.step = "stub" THEN StubbedTo(cmd.next) ELSE StubbedTo(cmd.upto + 1) /\ Visible # {}
    /\ cmd.step \in {"check", "store", "merge"} => FetchedLocal
    /\ cmd.step = "store" => NumberedTo(cmd.next) /\ StoredTo(cmd.next)
    /\ cmd.step = "merge" => StoredTo(cmd.upto + 1) /\ cmd.paths \subseteq NewFiles

ResetInv == cmd.step \in {"repoint", "restore"} => AllUnpushed = {}

CommandInv == ChainInv /\ AnswerInv /\ AbsorbsOlder /\ PullInv /\ ResetInv

Inv == TypeOK /\ TablesInv /\ LocalInv /\ CommandInv

-----------------------------------------------------------------------------
(* Least and greatest numbers.                                             *)

\* A set of naturals that is not empty has its least number in it.
LEMMA MinIsLeast ==
  ASSUME NEW S, S \subseteq Nat, S # {}
  PROVE  Min(S) \in S /\ \A y \in S : Min(S) <= y
<1> DEFINE Less == {pair \in Nat \X Nat : pair[1] < pair[2]}
<1>1. IsWellFoundedOn(Less, Nat)
  BY NatLessThanWellFounded DEF OpToRel
<1> HIDE DEF Less
<1>2. PICK x \in S : \A y \in S : ~ (<<y, x>> \in Less)
  BY <1>1, WFMin
<1>3. \A y \in Nat : y < x => <<y, x>> \in Less
  BY DEF Less
<1>4. \A y \in S : x <= y
  <2>1. x \in Nat /\ \A y \in S : y \in Nat /\ ~ y < x
    BY <1>2, <1>3
  <2> QED
    BY <2>1
<1> QED
  BY <1>4, Zenon DEF Min

\* A set of integers with a bound has its greatest number in it.
LEMMA MaxIsGreatest ==
  ASSUME NEW S, S \subseteq Int, S # {}, NEW b \in Int, \A x \in S : x <= b
  PROVE  Max(S) \in S /\ \A y \in S : y <= Max(S)
<1> DEFINE T == {b - x : x \in S}
<1>1. T \subseteq Nat /\ T # {}
  <2>1. \A x \in S : x \in Int /\ b - x \in Nat
    OBVIOUS
  <2>2. PICK x \in S : TRUE
    OBVIOUS
  <2>3. b - x \in T
    OBVIOUS
  <2> QED
    BY <2>1, <2>3
<1>2. Min(T) \in T /\ \A t \in T : Min(T) <= t
  BY <1>1, MinIsLeast
<1>3. PICK x \in S : Min(T) = b - x
  BY <1>2
<1>4. \A y \in S : x >= y
  <2> TAKE y \in S
  <2>1. b - x <= b - y
    BY <1>2, <1>3
  <2> QED
    BY <2>1
<1>5. Max(S) \in S /\ \A y \in S : Max(S) >= y
  BY <1>4, Zenon DEF Max
<1> QED
  BY <1>5

-----------------------------------------------------------------------------
(* The table of commits and the log.                                       *)

\* The places of a sequence and what is at them.
LEMMA SeqFacts ==
  ASSUME NEW T, NEW s \in Seq(T)
  PROVE  /\ Len(s) \in Nat /\ DOMAIN s = 1 .. Len(s)
         /\ \A i \in DOMAIN s : s[i] \in T
         /\ Range(s) = {s[i] : i \in DOMAIN s}
BY DEF Range

\* A row has one place in its table.
LEMMA RowidIs ==
  ASSUME rows \in Seq(Commit), RowsOnce
  PROVE  /\ \A i \in DOMAIN rows : Rowid(rows[i]) = i
         /\ \A c \in Range(rows) : Rowid(c) \in DOMAIN rows /\ rows[Rowid(c)] = c
<1>1. \A i \in DOMAIN rows : Rowid(rows[i]) = i
  BY DEF Rowid, RowsOnce
<1> QED
  BY <1>1 DEF Range

\* Two commits do not share a row.
LEMMA RowidsDiffer ==
  ASSUME rows \in Seq(Commit), RowsOnce, NEW c \in Range(rows), NEW d \in Range(rows), Rowid(c) = Rowid(d)
  PROVE  c = d
BY RowidIs

\* Newest gives the last row of a set that has any.
LEMMA NewestIs ==
  ASSUME rows \in Seq(Commit), RowsOnce, NEW S, S \subseteq Range(rows), S # {}
  PROVE  Newest(S) \in S /\ \A c \in S : Rowid(c) <= Rowid(Newest(S))
<1> DEFINE I == {i \in DOMAIN rows : rows[i] \in S}
<1>1. Len(rows) \in Nat /\ DOMAIN rows = 1 .. Len(rows)
  BY SeqFacts
<1>2. I \subseteq Int /\ I # {} /\ \A i \in I : i <= Len(rows)
  BY <1>1 DEF Range
<1>3. Max(I) \in I /\ \A i \in I : i <= Max(I)
  <2>1. Len(rows) \in Int
    BY <1>1
  <2> HIDE DEF I
  <2> QED
    BY <1>2, <2>1, MaxIsGreatest
<1>4. Newest(S) = rows[Max(I)]
  BY DEF Newest
<1>5. \A c \in S : Rowid(c) \in I
  BY RowidIs
<1>6. Rowid(Newest(S)) = Max(I)
  BY <1>3, <1>4, RowidIs
<1> QED
  BY <1>3, <1>4, <1>5, <1>6

\* Oldest gives the first one.
LEMMA OldestIs ==
  ASSUME rows \in Seq(Commit), RowsOnce, NEW S, S \subseteq Range(rows), S # {}
  PROVE  Oldest(S) \in S /\ \A c \in S : Rowid(Oldest(S)) <= Rowid(c)
<1> DEFINE I == {i \in DOMAIN rows : rows[i] \in S}
<1>1. DOMAIN rows = 1 .. Len(rows)
  BY SeqFacts
<1>2. I \subseteq Nat /\ I # {}
  BY <1>1 DEF Range
<1>3. Min(I) \in I /\ \A i \in I : Min(I) <= i
  BY <1>2, MinIsLeast
<1>4. Oldest(S) = rows[Min(I)]
  BY DEF Oldest
<1>5. \A c \in S : Rowid(c) \in I
  BY RowidIs
<1>6. Rowid(Oldest(S)) = Min(I)
  BY <1>3, <1>4, RowidIs
<1> QED
  BY <1>3, <1>4, <1>5, <1>6

\* A new row comes behind all others.
LEMMA RowAppended ==
  ASSUME rows \in Seq(Commit), RowsOnce, NEW c \in Commit, c \notin Range(rows), rows' = Append(rows, c)
  PROVE  /\ rows' \in Seq(Commit) /\ RowsOnce'
         /\ Range(rows)' = Range(rows) \cup {c}
         /\ \A d \in Range(rows) : Rowid(d)' = Rowid(d) /\ Rowid(d) < Rowid(c)'
         /\ Rowid(c)' \in Nat
<1>1. /\ Len(rows) \in Nat /\ DOMAIN rows = 1 .. Len(rows) /\ DOMAIN rows' = 1 .. Len(rows) + 1
      /\ rows'[Len(rows) + 1] = c /\ \A i \in DOMAIN rows : rows'[i] = rows[i]
      /\ rows' \in Seq(Commit)
  OBVIOUS
<1>2. \A i \in DOMAIN rows : rows[i] # c
  BY DEF Range
<1>3. RowsOnce'
  BY <1>1, <1>2 DEF RowsOnce
<1>4. Range(rows)' = Range(rows) \cup {c}
  BY <1>1 DEF Range
<1>5. \A i \in DOMAIN rows' : (CHOOSE j \in DOMAIN rows' : rows'[j] = rows'[i]) = i
  BY <1>3 DEF RowsOnce
<1>6. Rowid(c)' = Len(rows) + 1
  BY <1>1, <1>5 DEF Rowid
<1>7. \A i \in DOMAIN rows : Rowid(rows[i])' = i
  BY <1>1, <1>5 DEF Rowid
<1>8. \A i \in DOMAIN rows : Rowid(rows[i]) = i
  BY RowidIs
<1> QED
  BY <1>1, <1>3, <1>4, <1>6, <1>7, <1>8 DEF Range

\* What appending to the log does to its places.
LEMMA LogAppended ==
  ASSUME log \in Seq(Commit), NEW d \in Commit, log' = Append(log, d)
  PROVE  /\ log' \in Seq(Commit) /\ Len(log) \in Nat /\ Len(log') = Len(log) + 1
         /\ DOMAIN log = 1 .. Len(log) /\ DOMAIN log' = 1 .. Len(log) + 1
         /\ \A n \in DOMAIN log : log'[n] = log[n]
         /\ log'[Len(log) + 1] = d
         /\ Range(log)' = Range(log) \cup {d}
<1>1. /\ log' \in Seq(Commit) /\ Len(log) \in Nat /\ Len(log') = Len(log) + 1
      /\ DOMAIN log = 1 .. Len(log) /\ DOMAIN log' = 1 .. Len(log) + 1
      /\ \A n \in DOMAIN log : log'[n] = log[n]
      /\ log'[Len(log) + 1] = d
  OBVIOUS
<1> QED
  BY <1>1 DEF Range

\* The latest version of a path is the last commit in the log that changes it.
LEMMA LatestIs ==
  ASSUME log \in Seq(Commit), NEW p
  PROVE  LET touching == {i \in DOMAIN log : p \in Changes(log[i])}
         IN  IF touching = {}
               THEN Latest(p) = NoCommit
               ELSE \E n \in touching : Latest(p) = log[n] /\ \A k \in touching : k <= n
<1> DEFINE touching == {i \in DOMAIN log : p \in Changes(log[i])}
<1>1. CASE touching = {}
  BY <1>1 DEF Latest
<1>2. CASE touching # {}
  <2>1. Len(log) \in Nat /\ DOMAIN log = 1 .. Len(log)
    BY SeqFacts
  <2>2. touching \subseteq Int /\ \A i \in touching : i <= Len(log)
    BY <2>1
  <2>3. Max(touching) \in touching /\ \A k \in touching : k <= Max(touching)
    <3>1. Len(log) \in Int
      BY <2>1
    <3> HIDE DEF touching
    <3> QED
      BY <1>2, <2>2, <3>1, MaxIsGreatest
  <2> DEFINE n == CHOOSE i \in touching : \A j \in touching : j <= i
  <2>4. n \in touching /\ \A j \in touching : j <= n
    BY <2>3, Zenon
  <2>5. Latest(p) = log[n]
    BY <1>2 DEF Latest
  <2> QED
    BY <1>2, <2>4, <2>5
<1> QED
  BY <1>1, <1>2

\* A commit of the log does not match the log any more, and so is not appended
\* again.
LEMMA MatchesOnce ==
  ASSUME TypeOK, LogInv, NEW c \in Commit, IsMade(c), BasesMatch(c)
  PROVE  c \notin Range(log)
<1>1. log \in Seq(Commit)
  BY DEF TypeOK, StoreTypeOK
<1>2. DOMAIN log = 1 .. Len(log) /\ Len(log) \in Nat /\ \A n \in DOMAIN log : log[n] \in Commit
  BY <1>1
<1> SUFFICES ASSUME NEW n \in DOMAIN log, log[n] = c
             PROVE  FALSE
  BY DEF Range
<1>3. PICK p \in Changes(c) : TRUE
  BY DEF IsMade
<1>4. base[c][p] = Latest(p)
  BY DEF BasesMatch
<1>5. PICK i \in DOMAIN log : Latest(p) = log[i] /\ n <= i
  BY <1>1, <1>3, LatestIs
<1>6. base[c][p] # NoCommit
  BY <1>2, <1>4, <1>5, CloneConstants
<1>7. PICK m \in 1 .. n - 1 : log[m] = base[c][p]
  BY <1>3, <1>6 DEF LogInv, LogLinear
<1>8. m = i
  BY <1>2, <1>4, <1>5, <1>7 DEF LogInv, Once
<1> QED
  BY <1>2, <1>5, <1>8

-----------------------------------------------------------------------------
(* The initial state.                                                      *)

\* An empty clone of an empty log.
LEMMA InitInv == Init => Inv
<1> SUFFICES ASSUME Init PROVE Inv
  OBVIOUS
<1>1. /\ log = << >> /\ rows = << >> /\ stubs = {} /\ objects = {} /\ unresolved = {}
      /\ \A c \in Commit : seq[c] = 0 /\ Changes(c) = {}
      /\ \A p \in Path : head[p] = NoCommit /\ staged[p] = NotStaged /\ disk[p] = Deleted
      /\ mergeParent = NoCommit /\ cmd = Idle
  BY DEF Init, StoreInit, LogInit, NothingStaged, Changes
<1>2. DOMAIN log = {} /\ DOMAIN rows = {} /\ Range(log) = {} /\ Range(rows) = {}
  BY <1>1 DEF Range
<1>3. TypeOK
  <2>1. << >> \in Seq(Commit)
    OBVIOUS
  <2>2. StoreTypeOK
    BY <2>1 DEF Init, StoreInit, LogInit, StoreTypeOK, Contents
  <2>3. cmd \in Step
    BY <1>1 DEF Idle, Step
  <2> QED
    BY <1>1, <2>2, <2>3 DEF Init, NothingStaged, TypeOK, Contents
<1>4. LogInv
  BY <1>2 DEF LogInv, Once, LogLinear
<1>5. RowsInv
  BY <1>1, <1>2 DEF RowsInv, RowsOnce
<1>6. NumbersInv
  BY <1>1, <1>2 DEF NumbersInv, NumbersAgree, Confirmed
<1>7. ParentsInv
  BY <1>2 DEF ParentsInv, AllUnpushed
<1>8. HeadInv
  BY <1>1, <1>2 DEF HeadInv, AllUnpushed, HeadNotBehind
<1>9. GapInv
  BY <1>1 DEF GapInv
<1>10. LocalInv
  BY <1>1, <1>2 DEF LocalInv, StagedInv, DiskInv, MergeParentInv, ContentLocal
<1>11. CommandInv
  BY <1>1 DEF CommandInv, ChainInv, AnswerInv, AbsorbsOlder, PullInv, ResetInv, Idle, PullStep
<1> QED
  BY <1>3, <1>4, <1>5, <1>6, <1>7, <1>8, <1>9, <1>10, <1>11 DEF Inv, TablesInv

-----------------------------------------------------------------------------
(* What the tables say of each other, and what keeps it.                   *)

\* What the types of the tables give where they are read.
LEMMA Typed ==
  ASSUME TypeOK
  PROVE  /\ base \in [Commit -> [Path -> Commit \cup {NoCommit, Untouched}]]
         /\ content \in [Commit -> [Path -> Contents]] /\ parent \in [Commit -> Commit \cup {NoCommit}]
         /\ seq \in [Commit -> Int] /\ head \in [Path -> Commit \cup {NoCommit}]
         /\ log \in Seq(Commit) /\ rows \in Seq(Commit)
         /\ Len(log) \in Nat /\ DOMAIN log = 1 .. Len(log)
         /\ \A n \in DOMAIN log : log[n] \in Commit /\ log[n] \in Range(log)
         /\ Range(log) \subseteq Commit /\ Range(rows) \subseteq Commit
         /\ \A c : Changes(c) \subseteq Path /\ Files(c) \subseteq Changes(c) /\ Files(c) \subseteq Readable
<1>1. StoreTypeOK
  BY DEF TypeOK
<1>2. log \in Seq(Commit) /\ rows \in Seq(Commit)
  BY <1>1 DEF StoreTypeOK
<1> QED
  BY <1>1, <1>2, SeqFacts DEF StoreTypeOK, Range, Changes, Files

\* What commits are stays as it is once they are made.
MadeStay ==
  \A c \in Commit : IsMade(c) => base'[c] = base[c] /\ content'[c] = content[c] /\ parent'[c] = parent[c]

\* A commit that was made is not made again.
LEMMA MadeSame ==
  ASSUME MadeStay, NEW c \in Commit, IsMade(c)
  PROVE  /\ Changes(c)' = Changes(c) /\ Files(c)' = Files(c) /\ IsMade(c)'
         /\ base'[c] = base[c] /\ content'[c] = content[c] /\ parent'[c] = parent[c]
BY DEF MadeStay, Changes, Files, IsMade

\* What is in the log or in a table was made, and what is unpushed is the clone's.
LEMMA LogMade ==
  ASSUME TypeOK, TablesInv
  PROVE  /\ \A c \in Range(log) \cup Range(rows) : c \in Commit /\ IsMade(c)
         /\ \A c \in Commit : Confirmed(c) \/ Absorbed(c) => Stored(c) /\ IsMade(c)
         /\ \A c \in Commit : Confirmed(c) => seq[c] \in DOMAIN log
         /\ \A c \in AllUnpushed : c \in Mine /\ c \in Commit /\ Stored(c) /\ ~ Confirmed(c) /\ seq[c] = 0
<1>1. \A c \in Range(log) : c \in Commit /\ IsMade(c)
  BY DEF TypeOK, StoreTypeOK, TablesInv, LogInv, Range
<1>2. \A c \in Range(rows) : c \in Commit /\ IsMade(c)
  BY Typed DEF TablesInv, RowsInv
<1>3. \A c \in Commit : Confirmed(c) \/ Absorbed(c) => Stored(c)
  BY Typed DEF Confirmed, Absorbed, TablesInv, RowsInv
<1>4. \A c \in AllUnpushed : Stored(c) /\ seq[c] = 0 /\ c \in Range(rows) /\ ~ Confirmed(c)
  BY DEF AllUnpushed, Unpushed, Stored, Confirmed
<1>5. \A c \in AllUnpushed : c \in Mine
  BY <1>4 DEF TablesInv, RowsInv
<1> QED
  BY <1>1, <1>2, <1>3, <1>4, <1>5 DEF Stored, TablesInv, NumbersInv, NumbersAgree

\* The server appends a commit that matches its latest versions, and that no
\* unpushed commit starts from where it has been overtaken.
LEMMA LogGrows ==
  ASSUME TypeOK, TypeOK', TablesInv, MadeStay,
         NEW d \in Commit, log' = Append(log, d), d \notin Range(log), IsMade(d)',
         \A p \in Changes(d)' : base'[d][p] = Latest(p),
         \A c \in Commit : Confirmed(c) => c # d,
         \A c \in AllUnpushed : \A p \in Files(c) : Confirmed(head[p]) => d # base[c][p],
         UNCHANGED <<rows, seq, stubs, head>>
  PROVE  TablesInv'
<1>1. /\ log \in Seq(Commit) /\ log' \in Seq(Commit) /\ Len(log) \in Nat
      /\ DOMAIN log = 1 .. Len(log) /\ DOMAIN log' = 1 .. Len(log) + 1
      /\ \A n \in DOMAIN log : log'[n] = log[n] /\ log[n] \in Commit /\ IsMade(log[n]) /\ log[n] # d
      /\ log'[Len(log) + 1] = d
      /\ Range(log)' = Range(log) \cup {d}
  BY Typed, LogAppended, LogMade
<1>2. \A n \in DOMAIN log : Changes(log[n])' = Changes(log[n]) /\ base'[log[n]] = base[log[n]]
  BY <1>1, MadeSame
<1>3. LogInv'
  <2>1. \A n \in DOMAIN log' : IsMade(log[n])'
    BY <1>1, MadeSame DEF IsMade
  <2>2. Once'
    BY <1>1 DEF TablesInv, LogInv, Once
  <2>3. ASSUME NEW n \in DOMAIN log', NEW p \in Changes(log[n])'
        PROVE  /\ base'[log'[n]][p] # NoCommit =>
                    \E m \in 1 .. n - 1 : log'[m] = base'[log'[n]][p] /\ p \in Changes(log[m])'
               /\ \A k \in 1 .. n - 1 : p \in Changes(log[k])' =>
                    /\ base'[log'[n]][p] # NoCommit
                    /\ \A m \in 1 .. n - 1 : log'[m] = base'[log'[n]][p] => k <= m
    <3>1. CASE n \in DOMAIN log
      <4>1. \A m \in 1 .. n - 1 : m \in DOMAIN log /\ log'[m] = log[m] /\ Changes(log[m])' = Changes(log[m])
        BY <1>1, <1>2, <3>1
      <4>2. p \in Changes(log[n]) /\ base'[log'[n]] = base[log[n]]
        BY <1>1, <1>2, <2>3, <3>1
      <4> QED
        BY <3>1, <4>1, <4>2 DEF TablesInv, LogInv, LogLinear
    <3>2. CASE n = Len(log) + 1
      <4>1. log'[n] = d /\ base'[d][p] = Latest(p)
        BY <1>1, <2>3, <3>2
      <4>2. \A m \in 1 .. n - 1 : m \in DOMAIN log /\ log'[m] = log[m] /\ Changes(log[m])' = Changes(log[m])
        BY <1>1, <1>2, <3>2
      <4>3. DOMAIN log = 1 .. n - 1
        BY <1>1, <3>2
      <4>4. CASE \A k \in DOMAIN log : p \notin Changes(log[k])
        BY <1>1, <4>1, <4>2, <4>3, <4>4, LatestIs
      <4>5. CASE \E k \in DOMAIN log : p \in Changes(log[k])
        <5>1. PICK i \in DOMAIN log : /\ p \in Changes(log[i]) /\ Latest(p) = log[i]
                                      /\ \A k \in DOMAIN log : p \in Changes(log[k]) => k <= i
          BY <1>1, <4>5, LatestIs
        <5>2. Latest(p) # NoCommit
          BY <1>1, <5>1, CloneConstants
        <5>3. \A m \in DOMAIN log : log[m] = Latest(p) => m = i
          BY <5>1 DEF TablesInv, LogInv, Once
        <5> QED
          BY <4>1, <4>2, <4>3, <5>1, <5>2, <5>3
      <4> QED
        BY <4>4, <4>5
    <3> QED
      BY <1>1, <3>1, <3>2
  <2>4. LogLinear'
    BY <2>3 DEF LogLinear
  <2> QED
    BY <2>1, <2>2, <2>4 DEF LogInv
<1>4. \A c \in Range(rows) : /\ c \in Commit /\ IsMade(c) /\ IsMade(c)' /\ Files(c)' = Files(c)
                             /\ base'[c] = base[c] /\ content'[c] = content[c] /\ parent'[c] = parent[c]
  BY LogMade, MadeSame
<1>5. \A c : /\ Stored(c)' = Stored(c) /\ Confirmed(c)' = Confirmed(c) /\ Unpushed(c)' = Unpushed(c)
             /\ Absorbed(c)' = Absorbed(c) /\ Rowid(c)' = Rowid(c)
  BY DEF Stored, Confirmed, Unpushed, Absorbed, Rowid
<1>6. RowsInv'
  BY <1>4, <1>5 DEF TablesInv, RowsInv, RowsOnce
<1>7. \A c \in Commit : Confirmed(c) => /\ c \in Range(rows) /\ seq[c] \in DOMAIN log /\ seq'[c] = seq[c]
                                        /\ log'[seq[c]] = log[seq[c]]
  BY <1>1, LogMade DEF Stored
<1>8. NumbersInv'
  <2>1. ASSUME NEW c \in Commit, Confirmed(c)'
        PROVE  /\ seq'[c] \in DOMAIN log'
               /\ base'[log'[seq'[c]]] = base'[c] /\ content'[log'[seq'[c]]] = content'[c]
               /\ log'[seq'[c]] # c => /\ parent'[c] \in Range(log)' /\ Absorbed(parent[c])'
                                       /\ c \notin Range(log)'
    <3>1. Confirmed(c) /\ c \in Range(rows) /\ seq[c] \in DOMAIN log /\ log'[seq'[c]] = log[seq[c]]
      BY <1>5, <1>7, <2>1
    <3>2. /\ base[log[seq[c]]] = base[c] /\ content[log[seq[c]]] = content[c]
          /\ log[seq[c]] # c => parent[c] \in Range(log) /\ Absorbed(parent[c]) /\ c \notin Range(log)
      BY <3>1 DEF TablesInv, NumbersInv, NumbersAgree
    <3>3. base'[log[seq[c]]] = base[log[seq[c]]] /\ content'[log[seq[c]]] = content[log[seq[c]]]
      BY <1>1, <3>1, MadeSame
    <3>4. Absorbed(parent[c]) => Absorbed(parent[c])'
      BY <1>4, <3>1 DEF Absorbed
    <3> QED
      BY <1>1, <1>4, <3>1, <3>2, <3>3, <3>4
  <2>2. NumbersAgree'
    BY <2>1 DEF NumbersAgree
  <2>3. \A c \in Commit : Confirmed(c)' /\ log'[seq'[c]] # c => c \notin Range(log)'
    BY <2>1
  <2>4. (\A c, e \in Commit : Confirmed(c) /\ seq[c] = seq[e] => c = e)'
    BY <1>5 DEF TablesInv, NumbersInv
  <2>5. (stubs \subseteq DOMAIN log)'
    BY <1>1 DEF TablesInv, NumbersInv
  <2> QED
    BY <2>2, <2>3, <2>4, <2>5 DEF NumbersInv
<1>9. AllUnpushed' = AllUnpushed
  BY <1>5 DEF AllUnpushed
<1>10. ParentsInv'
  <2> SUFFICES ASSUME NEW c \in AllUnpushed, parent'[c] # NoCommit
               PROVE  /\ Stored(parent[c])' /\ Rowid(parent[c])' < Rowid(c)'
                      /\ Absorbed(parent[c])' => parent'[c] \in Range(log)'
    BY <1>9 DEF ParentsInv, Follows, Stored, Rowid, Absorbed
  <2>1. parent'[c] = parent[c]
    BY <1>4, LogMade DEF Stored
  <2>2. /\ Stored(parent[c]) /\ Rowid(parent[c]) < Rowid(c)
        /\ Absorbed(parent[c]) => parent[c] \in Range(log)
    BY <2>1 DEF TablesInv, ParentsInv, Follows
  <2> QED
    BY <1>1, <2>1, <2>2 DEF Stored, Rowid, Absorbed
<1>11. HeadInv'
  <2>1. ASSUME NEW p \in Path, head'[p] # NoCommit
        PROVE  Stored(head[p])' /\ p \in Files(head[p])'
    <3>1. Stored(head[p]) /\ p \in Files(head[p])
      BY <2>1 DEF TablesInv, HeadInv
    <3> QED
      BY <1>4, <3>1 DEF Stored, Files, Changes
  <2>2. ASSUME NEW c \in Range(rows)', ~ Confirmed(c)'
        PROVE  StartsFromStored(c)'
    <3>1. c \in Range(rows) /\ ~ Confirmed(c) /\ StartsFromStored(c) /\ base'[c] = base[c] /\ Files(c)' = Files(c)
      BY <1>4, <1>5, <2>2 DEF TablesInv, HeadInv
    <3> SUFFICES ASSUME NEW p \in Files(c), base[c][p] # NoCommit
                 PROVE  Stored(base[c][p])' /\ p \in Files(base[c][p])' /\ Rowid(base[c][p])' < Rowid(c)'
      BY <3>1 DEF StartsFromStored, Stored, Files, Changes, Rowid
    <3>2. Stored(base[c][p]) /\ p \in Files(base[c][p]) /\ Rowid(base[c][p]) < Rowid(c)
      BY <3>1 DEF StartsFromStored
    <3>3. Files(base[c][p])' = Files(base[c][p])
      BY <1>4, <3>1, <3>2 DEF Stored, Files, Changes
    <3>4. base'[c] = base[c] /\ Files(base[c][p])' = Files(base[c][p])
      BY <3>1, <3>3
    <3> QED
      BY <3>2, <3>4 DEF Stored, Rowid
  <2>3. ASSUME NEW c \in AllUnpushed
        PROVE  UnpushedBelowHead(c)'
    <3>1. c \in Range(rows) /\ base'[c] = base[c] /\ Files(c)' = Files(c) /\ UnpushedBelowHead(c)
      BY <1>4, LogMade DEF Stored, TablesInv, HeadInv
    <3> SUFFICES ASSUME NEW p \in Files(c)
                 PROVE  /\ head'[p] # NoCommit
                        /\ IF Confirmed(head[p])' THEN Overtaken(c, p)'
                           ELSE Unpushed(head[p])' /\ Rowid(c)' <= Rowid(head[p])'
      BY <3>1 DEF UnpushedBelowHead
    <3>2. /\ head[p] # NoCommit
          /\ IF Confirmed(head[p]) THEN Overtaken(c, p) ELSE Unpushed(head[p]) /\ Rowid(c) <= Rowid(head[p])
      BY <3>1 DEF UnpushedBelowHead
    <3>3. Confirmed(head[p]) => Overtaken(c, p)'
      BY <1>1, <3>1, <3>2 DEF Overtaken
    <3> QED
      BY <3>2, <3>3 DEF Confirmed, Unpushed, Stored, Rowid
  <2>4. HeadNotBehind'
    BY <1>4, <1>5 DEF TablesInv, HeadInv, HeadNotBehind, Confirmed
  <2> QED
    BY <1>9, <2>1, <2>2, <2>3, <2>4 DEF HeadInv
<1>12. GapInv'
  <2>1. ASSUME NEW n \in DOMAIN log, Cause(n)
        PROVE  Cause(n)'
    BY <1>1, <2>1 DEF Cause, Accounted
  <2>2. \A c \in Commit : \A n \in 1 .. seq[c] : n \in DOMAIN log
    <3> TAKE c \in Commit
    <3>1. seq[c] \in Int /\ (seq[c] > 0 => seq[c] \in DOMAIN log)
      BY Typed, LogMade DEF Confirmed
    <3> QED
      BY <1>1, <3>1
  <2>3. \A m \in stubs : \A n \in 1 .. m : n \in DOMAIN log
    BY <1>1 DEF TablesInv, NumbersInv
  <2> QED
    BY <2>1, <2>2, <2>3 DEF TablesInv, GapInv
<1> QED
  BY <1>3, <1>6, <1>8, <1>10, <1>11, <1>12 DEF TablesInv

\* The parts of TablesInv that stay where only the stubs change.
LEMMA TablesSame ==
  ASSUME TypeOK, TablesInv, UNCHANGED <<commitVars, rows, seq, head>>
  PROVE  /\ LogInv' /\ RowsInv' /\ ParentsInv' /\ HeadInv'
         /\ NumbersInv' <=> (stubs \subseteq DOMAIN log)'
<1>1. UNCHANGED <<base, content, parent, log, rows, seq, head>>
  BY DEF commitVars
<1>2. LogInv'
  BY <1>1 DEF TablesInv, LogInv, Once, LogLinear, IsMade, Changes
<1>3. RowsInv'
  BY <1>1 DEF TablesInv, RowsInv, RowsOnce, IsMade, Changes, Confirmed, Stored
<1>4. ParentsInv'
  BY <1>1 DEF TablesInv, ParentsInv, AllUnpushed, Unpushed, Follows, Stored, Absorbed, Rowid
<1>5. HeadInv'
  <2>1. AllUnpushed' = AllUnpushed
    BY <1>1 DEF AllUnpushed, Unpushed, Stored
  <2>2. \A c : StartsFromStored(c) => StartsFromStored(c)'
    BY <1>1 DEF StartsFromStored, Files, Changes, Stored, Rowid
  <2>3. \A c : UnpushedBelowHead(c) => UnpushedBelowHead(c)'
    <3>1. \A c, p : Overtaken(c, p)' <=> Overtaken(c, p)
      BY <1>1 DEF Overtaken
    <3>2. \A c : Files(c)' = Files(c) /\ Rowid(c)' = Rowid(c)
      BY <1>1 DEF Files, Changes, Rowid
    <3>3. \A p : /\ head'[p] = head[p] /\ (Confirmed(head[p])' <=> Confirmed(head[p]))
                 /\ (Unpushed(head[p])' <=> Unpushed(head[p])) /\ Rowid(head[p])' = Rowid(head[p])
      BY <1>1 DEF Confirmed, Unpushed, Stored, Rowid
    <3> QED
      BY <3>1, <3>2, <3>3 DEF UnpushedBelowHead
  <2>4. HeadNotBehind'
    BY <1>1 DEF TablesInv, HeadInv, HeadNotBehind, Files, Changes, Confirmed
  <2>5. \A p \in Path : head'[p] # NoCommit => Stored(head[p])' /\ p \in Files(head[p])'
    BY <1>1 DEF TablesInv, HeadInv, Stored, Files, Changes
  <2>6. \A c \in Range(rows)' : ~ Confirmed(c)' => StartsFromStored(c)'
    BY <1>1, <2>2 DEF TablesInv, HeadInv, Confirmed
  <2>7. \A c \in AllUnpushed' : UnpushedBelowHead(c)'
    BY <2>1, <2>3 DEF TablesInv, HeadInv
  <2> QED
    BY <2>4, <2>5, <2>6, <2>7 DEF HeadInv
<1>6. NumbersAgree'
  BY <1>1 DEF TablesInv, NumbersInv, NumbersAgree, Confirmed, Absorbed
<1>7. NumbersInv' <=> (stubs \subseteq DOMAIN log)'
  BY <1>1, <1>6 DEF TablesInv, NumbersInv, Confirmed
<1> QED
  BY <1>2, <1>3, <1>4, <1>5, <1>7

\* A gap keeps its cause while numbers, rows and stubs stay.
LEMMA CauseStays ==
  ASSUME NEW n, Cause(n), log'[n] = log[n], Range(rows) \subseteq Range(rows)', stubs \subseteq stubs',
         \A c \in Commit : seq[c] > 0 => seq'[c] = seq[c], n \in Nat \ {0}, TypeOK
  PROVE  Cause(n)'
<1>1. Mine \subseteq Commit /\ \A c \in Commit : seq[c] \in Int
  BY CloneConstants, Typed
<1>2. ASSUME Accounted(n)
      PROVE  Accounted(n)'
  BY <1>1, <1>2 DEF Accounted
<1>3. ASSUME NEW c \in Mine, seq[c] > n
      PROVE  seq'[c] > n
  BY <1>1, <1>3
<1> QED
  BY <1>2, <1>3 DEF Cause

\* Numbers in use lie within the log.
LEMMA NumbersInLog ==
  ASSUME TypeOK, TablesInv
  PROVE  /\ \A c \in Commit : seq[c] <= Len(log) /\ \A n \in 1 .. seq[c] : n \in DOMAIN log /\ Cause(n)
         /\ \A m \in stubs : m \in DOMAIN log /\ \A n \in 1 .. m : n \in DOMAIN log /\ Cause(n)
<1>1. Len(log) \in Nat /\ DOMAIN log = 1 .. Len(log)
  BY Typed
<1>2. \A c \in Commit : seq[c] \in Int /\ (seq[c] > 0 => seq[c] \in DOMAIN log)
  BY Typed, LogMade DEF Confirmed
<1>3. stubs \subseteq DOMAIN log
  BY DEF TablesInv, NumbersInv
<1> QED
  BY <1>1, <1>2, <1>3 DEF TablesInv, GapInv

\* Where no table changes but the stubs, and these for a cause.
LEMMA TablesKept ==
  ASSUME TypeOK, TablesInv, UNCHANGED <<commitVars, rows, seq, head>>,
         NEW S, S \subseteq DOMAIN log, stubs' = stubs \cup S,
         \A m \in S : \A n \in 1 .. m - 1 : Cause(n) \/ \E k \in stubs' : k > n
  PROVE  TablesInv'
<1>1. UNCHANGED <<log, rows, seq>>
  BY DEF commitVars
<1>2. (stubs \subseteq DOMAIN log)'
  BY <1>1 DEF TablesInv, NumbersInv
<1>3. DOMAIN log = 1 .. Len(log) /\ Len(log) \in Nat
  BY Typed
<1>4. \A n \in DOMAIN log : Cause(n) => Cause(n)'
  BY <1>1, <1>3, CauseStays
<1>5. ASSUME NEW m \in S, NEW n \in 1 .. m
      PROVE  Cause(n)'
  <2>1. CASE n = m
    BY <1>5, <2>1 DEF Cause, Accounted
  <2>2. CASE n # m
    <3>1. n \in 1 .. m - 1 /\ n \in DOMAIN log
      BY <1>3, <1>5, <2>2
    <3> QED
      BY <1>4, <3>1 DEF Cause
  <2> QED
    BY <2>1, <2>2
<1>6. GapInv'
  BY <1>1, <1>4, <1>5, NumbersInLog DEF GapInv
<1> QED
  BY <1>2, <1>6, TablesSame DEF TablesInv

\* A commit of the clone's own: it follows its parent and starts from the heads.
LEMMA CommitKeepsTables ==
  ASSUME TypeOK, TypeOK', TablesInv, LocalInv, NEW c \in Mine, RunCommit(c)
  PROVE  /\ TablesInv' /\ MadeStay /\ IsMade(c)' /\ Range(rows)' = Range(rows) \cup {c}
         /\ c \notin Range(rows) /\ c \notin Range(log)
         /\ \A p \in Files(c)' : content'[c][p] \in objects \cup {Deleted}
<1> DEFINE S == {p \in Path : staged[p] # NotStaged}
<1>1. /\ Changes(c) = {} /\ S # {}
      /\ \A p \in Path : staged[p] # NotStaged => staged[p].text \in objects \cup {Deleted}
      /\ base' = [base EXCEPT ![c] = [p \in Path |-> IF staged[p] = NotStaged THEN Untouched ELSE staged[p].base]]
      /\ content' = [content EXCEPT ![c] = [p \in Path |-> IF staged[p] = NotStaged THEN Deleted ELSE staged[p].text]]
      /\ parent' = [parent EXCEPT ![c] = ParentOfNext]
      /\ rows' = Append(rows, c)
      /\ head' = [p \in Path |-> IF p \in S THEN c ELSE head[p]]
      /\ UNCHANGED <<log, seq, stubs>>
  <2>1. staged # NothingStaged /\ staged \in [Path -> Entry \cup {NotStaged}]
    BY DEF RunCommit, TypeOK
  <2>2. S # {}
    BY <2>1 DEF NothingStaged
  <2> QED
    BY <2>2 DEF RunCommit, WriteCommit
<1>2. c \in Commit /\ c # NoCommit
  BY CloneConstants
<1>3. \A p \in Path : staged[p] # NotStaged => staged[p].base \in Commit \cup {NoCommit}
  BY DEF TypeOK, Entry
<1>4. /\ base'[c] = [p \in Path |-> IF staged[p] = NotStaged THEN Untouched ELSE staged[p].base]
      /\ content'[c] = [p \in Path |-> IF staged[p] = NotStaged THEN Deleted ELSE staged[p].text]
      /\ parent'[c] = ParentOfNext
      /\ \A d \in Commit : d # c => base'[d] = base[d] /\ content'[d] = content[d] /\ parent'[d] = parent[d]
  BY <1>1, <1>2, Typed
<1>5. MadeStay
  BY <1>1, <1>4 DEF MadeStay, IsMade
<1>6. Changes(c)' = S /\ Files(c)' = S
  <2>1. Changes(c)' = S
    BY <1>3, <1>4, CloneConstants DEF Changes
  <2> QED
    BY <2>1 DEF Files, LocalInv, StagedInv
<1>7. c \notin Range(rows) /\ c \notin Range(log) /\ seq[c] = 0
  <2>1. c \notin Range(rows) /\ c \notin Range(log)
    BY <1>1, LogMade DEF IsMade
  <2> QED
    BY <1>2, <2>1 DEF TablesInv, RowsInv, Stored
<1>8. /\ rows' \in Seq(Commit) /\ RowsOnce' /\ Range(rows)' = Range(rows) \cup {c}
      /\ \A d \in Range(rows) : Rowid(d)' = Rowid(d) /\ Rowid(d) < Rowid(c)'
      /\ Rowid(c)' \in Nat
  BY <1>1, <1>2, <1>7, RowAppended, Typed DEF TablesInv, RowsInv
<1>9. \A d \in Range(rows) \cup Range(log) :
        /\ d \in Commit /\ d # c /\ IsMade(d)' /\ Changes(d)' = Changes(d) /\ Files(d)' = Files(d)
        /\ base'[d] = base[d] /\ content'[d] = content[d] /\ parent'[d] = parent[d]
  BY <1>5, <1>7, LogMade, MadeSame
<1>10. /\ \A d : (Confirmed(d)' <=> Confirmed(d)) /\ (Absorbed(d)' <=> Absorbed(d))
       /\ \A d \in Range(rows) : Unpushed(d)' <=> Unpushed(d)
       /\ AllUnpushed' = AllUnpushed \cup {c}
  <2>1. \A d : (Confirmed(d)' <=> Confirmed(d)) /\ (Absorbed(d)' <=> Absorbed(d))
    BY <1>1 DEF Confirmed, Absorbed
  <2>2. \A d \in Range(rows) : Unpushed(d)' <=> Unpushed(d)
    BY <1>1, <1>8 DEF Unpushed, Stored
  <2>3. Unpushed(c)'
    BY <1>1, <1>7, <1>8 DEF Unpushed, Stored
  <2> QED
    <3>1. \A d : d \in AllUnpushed' <=> d \in Range(rows)' /\ Unpushed(d)'
      BY DEF AllUnpushed
    <3>2. \A d : d \in AllUnpushed <=> d \in Range(rows) /\ Unpushed(d)
      BY DEF AllUnpushed
    <3>3. \A d : d \in AllUnpushed' <=> d \in AllUnpushed \/ d = c
      BY <1>7, <1>8, <2>2, <2>3, <3>1, <3>2
    <3>4. AllUnpushed' = AllUnpushed \cup {c}
      BY <3>3, Zenon
    <3> QED
      BY <2>1, <2>2, <3>4, Zenon
<1>11. LogInv'
  <2>1. \A n \in DOMAIN log : Changes(log[n])' = Changes(log[n]) /\ base'[log[n]] = base[log[n]] /\ IsMade(log[n])'
    <3> SUFFICES ASSUME NEW n \in DOMAIN log, NEW d, d = log[n]
                 PROVE  Changes(d)' = Changes(d) /\ base'[d] = base[d] /\ IsMade(d)'
      BY <1>1 DEF Changes, IsMade
    <3> QED
      BY <1>9, Typed
  <2>2. \A n \in DOMAIN log : \A m \in 1 .. n - 1 : m \in DOMAIN log
    BY Typed
  <2>3. Once'
    BY <1>1 DEF TablesInv, LogInv, Once
  <2>4. LogLinear'
    BY <1>1, <2>1, <2>2 DEF TablesInv, LogInv, LogLinear
  <2> QED
    BY <1>1, <2>1, <2>3, <2>4 DEF LogInv, IsMade, Changes
<1>12. IsMade(c)'
  BY <1>1, <1>6 DEF IsMade
<1>13. RowsInv'
  <2>1. \A d \in Range(rows)' : IsMade(d)' /\ (~ Confirmed(d)' => d \in Mine)
    BY <1>8, <1>9, <1>10, <1>12 DEF TablesInv, RowsInv
  <2>2. \A d \in Commit : seq'[d] # 0 => Stored(d)'
    BY <1>1, <1>8 DEF TablesInv, RowsInv, Stored
  <2> QED
    BY <1>8, <2>1, <2>2 DEF RowsInv
<1>14. NumbersInv'
  <2>1. ASSUME NEW d \in Commit, Confirmed(d)
        PROVE  /\ d \in Range(rows) /\ seq[d] \in DOMAIN log /\ log[seq[d]] \in Range(log)
    BY <2>1, LogMade, Typed DEF Stored
  <2>2. NumbersAgree'
    <3> SUFFICES ASSUME NEW d \in Commit, Confirmed(d)
                 PROVE  /\ seq[d] \in DOMAIN log
                        /\ base'[log[seq[d]]] = base'[d] /\ content'[log[seq[d]]] = content'[d]
                        /\ log[seq[d]] # d => parent'[d] \in Range(log) /\ Absorbed(parent'[d])
      BY <1>1, <1>10 DEF NumbersAgree, Absorbed
    <3>1. d \in Range(rows) /\ seq[d] \in DOMAIN log /\ log[seq[d]] \in Range(log)
      BY <2>1
    <3> QED
      BY <1>9, <3>1 DEF TablesInv, NumbersInv, NumbersAgree
  <2> QED
    BY <1>1, <1>10, <2>2 DEF TablesInv, NumbersInv
<1>15. /\ ParentOfNext # NoCommit => Stored(ParentOfNext)
       /\ ParentOfNext # NoCommit /\ Absorbed(ParentOfNext) => ParentOfNext \in Range(log)
  <2>1. CASE mergeParent # NoCommit
    BY <2>1 DEF ParentOfNext, LocalInv, MergeParentInv
  <2>2. CASE mergeParent = NoCommit
    <3> DEFINE T == {d \in Range(rows) : ~ Absorbed(d)}
    <3>1. ParentOfNext = Newest(T)
      BY <2>2 DEF ParentOfNext, LatestCommitID
    <3>2. T # {} => Newest(T) \in T
      <4>1. T \subseteq Range(rows) /\ rows \in Seq(Commit) /\ RowsOnce
        BY Typed DEF TablesInv, RowsInv
      <4> HIDE DEF T
      <4> QED
        BY <4>1, NewestIs
    <3> QED
      BY <3>1, <3>2 DEF Newest, Stored
  <2> QED
    BY <2>1, <2>2
<1>16. ParentsInv'
  <2>1. Follows(c)'
    <3> SUFFICES ASSUME ParentOfNext # NoCommit
                 PROVE  /\ ParentOfNext \in Range(rows)' /\ Rowid(parent[c])' < Rowid(c)'
                        /\ Absorbed(ParentOfNext) => ParentOfNext \in Range(log)
      BY <1>1, <1>4 DEF Follows, Stored, Absorbed
    <3>1. PICK q \in Range(rows) : q = ParentOfNext
      BY <1>15 DEF Stored
    <3>2. Rowid(q)' < Rowid(c)' /\ q \in Range(rows)'
      BY <1>8
    <3> QED
      BY <1>4, <1>15, <3>1, <3>2 DEF Rowid
  <2>2. ASSUME NEW d \in AllUnpushed
        PROVE  Follows(d)'
    <3>1. d \in Range(rows) /\ parent'[d] = parent[d] /\ Rowid(d)' = Rowid(d)
      BY <1>8, <1>9, LogMade DEF Stored
    <3> SUFFICES ASSUME NEW q, q = parent[d], q # NoCommit
                 PROVE  /\ q \in Range(rows)' /\ Rowid(q)' < Rowid(d)'
                        /\ Absorbed(q) => q \in Range(log)
      BY <1>1, <3>1 DEF Follows, Stored, Absorbed, Rowid
    <3>2. q \in Range(rows) /\ Rowid(q) < Rowid(d) /\ (Absorbed(q) => q \in Range(log))
      BY DEF TablesInv, ParentsInv, Follows, Stored
    <3> QED
      BY <1>8, <3>1, <3>2
  <2> QED
    BY <1>10, <2>1, <2>2 DEF ParentsInv
<1>17. HeadInv'
  <2>1. ASSUME NEW p \in Path, head'[p] # NoCommit
        PROVE  Stored(head[p])' /\ p \in Files(head[p])'
    <3>1. CASE p \in S
      BY <1>1, <1>6, <1>8, <3>1 DEF Stored, Files, Changes
    <3>2. CASE p \notin S
      <4>1. head'[p] = head[p] /\ head[p] \in Range(rows) /\ p \in Files(head[p])
        BY <1>1, <2>1, <3>2 DEF TablesInv, HeadInv, Stored
      <4> QED
        BY <1>8, <1>9, <4>1 DEF Stored, Files, Changes
    <3> QED
      BY <3>1, <3>2
  <2>2. ASSUME NEW d \in Range(rows)', ~ Confirmed(d)', NEW p \in Files(d)', NEW b, b = base'[d][p], b # NoCommit
        PROVE  b \in Range(rows)' /\ p \in Files(b)' /\ Rowid(b)' < Rowid(d)'
    <3>1. CASE d = c
      <4>1. b = staged[p].base /\ p \in Path /\ staged[p] # NotStaged
        BY <1>4, <1>6, <2>2, <3>1
      <4>2. b \in Range(rows) /\ p \in Files(b)
        BY <2>2, <4>1 DEF LocalInv, StagedInv, Stored
      <4> QED
        BY <1>8, <1>9, <3>1, <4>2
    <3>2. CASE d \in Range(rows)
      <4>1. ~ Confirmed(d) /\ p \in Files(d) /\ b = base[d][p]
        BY <1>9, <1>10, <2>2, <3>2
      <4>2. b \in Range(rows) /\ p \in Files(b) /\ Rowid(b) < Rowid(d)
        BY <2>2, <3>2, <4>1 DEF TablesInv, HeadInv, StartsFromStored, Stored
      <4> QED
        BY <1>8, <1>9, <3>2, <4>2
    <3> QED
      BY <1>8, <3>1, <3>2
  <2>3. \A d \in Range(rows)' : ~ Confirmed(d)' => StartsFromStored(d)'
    BY <2>2 DEF StartsFromStored, Stored, Files, Changes, Rowid
  <2>4. ASSUME NEW d \in AllUnpushed', NEW p \in Files(d)'
        PROVE  /\ head'[p] # NoCommit
               /\ IF Confirmed(head[p])' THEN Overtaken(d, p)'
                  ELSE Unpushed(head[p])' /\ Rowid(d)' <= Rowid(head[p])'
    <3>1. CASE p \in S
      <4>1. head'[p] = c /\ ~ Confirmed(c)' /\ Unpushed(c)'
        BY <1>1, <1>7, <1>8, <3>1 DEF Confirmed, Unpushed, Stored
      <4>2. Rowid(d)' <= Rowid(c)'
        <5>1. d \in AllUnpushed \/ d = c
          BY <1>10, <2>4
        <5>2. d \in Range(rows) => Rowid(d)' \in Int
          BY <1>8, RowidIs, Typed DEF TablesInv, RowsInv
        <5> QED
          BY <1>8, <5>1, <5>2, LogMade DEF Stored
      <4> QED
        BY <1>2, <4>1, <4>2 DEF Confirmed, Unpushed, Stored, Rowid
    <3>2. CASE p \notin S
      <4>1. d \in AllUnpushed /\ d \in Range(rows) /\ p \in Files(d) /\ base'[d] = base[d]
        BY <1>6, <1>9, <1>10, <2>4, <3>2, LogMade DEF Stored
      <4>2. p \in Path
        BY <4>1, Typed
      <4>3. PICK h \in Range(rows) : h = head[p] /\ h = head'[p] /\ h # NoCommit
        BY <1>1, <3>2, <4>1, <4>2 DEF TablesInv, HeadInv, UnpushedBelowHead, Stored
      <4>4. IF Confirmed(h) THEN Overtaken(d, p) ELSE Unpushed(h) /\ Rowid(d) <= Rowid(h)
        BY <4>1, <4>3 DEF TablesInv, HeadInv, UnpushedBelowHead
      <4>5. Confirmed(h) => Overtaken(d, p)'
        BY <1>1, <4>1, <4>3, <4>4 DEF Overtaken
      <4>6. ~ Confirmed(h) => Unpushed(h)' /\ Rowid(d)' <= Rowid(h)'
        BY <1>8, <1>10, <4>1, <4>3, <4>4
      <4>7. Confirmed(h)' <=> Confirmed(h)
        BY <1>10
      <4> QED
        BY <4>3, <4>5, <4>6, <4>7 DEF Confirmed, Unpushed, Stored, Rowid
    <3> QED
      BY <3>1, <3>2
  <2>5. \A d \in AllUnpushed' : UnpushedBelowHead(d)'
    BY <2>4 DEF UnpushedBelowHead
  <2>6. ASSUME NEW p \in Path, NEW d \in Range(rows)', Confirmed(d)', p \in Files(d)'
        PROVE  head'[p] # NoCommit /\ (Confirmed(head[p])' => seq'[d] <= seq'[head'[p]])
    <3>1. CASE p \in S
      BY <1>1, <1>2, <1>7, <3>1 DEF Confirmed
    <3>2. CASE p \notin S
      <4>1. d \in Range(rows) /\ Confirmed(d) /\ p \in Files(d)
        BY <1>6, <1>8, <1>9, <1>10, <2>6, <3>2
      <4> QED
        BY <1>1, <3>2, <4>1 DEF TablesInv, HeadInv, HeadNotBehind, Confirmed
    <3> QED
      BY <3>1, <3>2
  <2>7. HeadNotBehind'
    BY <2>6 DEF HeadNotBehind
  <2> QED
    BY <2>1, <2>3, <2>5, <2>7 DEF HeadInv
<1>18. GapInv'
  <2>1. \A n \in DOMAIN log : Cause(n) => Cause(n)'
    <3> SUFFICES ASSUME NEW n \in DOMAIN log, Cause(n) PROVE Cause(n)'
      OBVIOUS
    <3>1. n \in Nat \ {0} /\ log'[n] = log[n] /\ Range(rows) \subseteq Range(rows)'
      BY <1>1, <1>8, Typed
    <3> QED
      BY <1>1, <3>1, CauseStays
  <2> QED
    BY <1>1, <2>1, NumbersInLog DEF GapInv
<1>19. \A p \in Files(c)' : content'[c][p] \in objects \cup {Deleted}
  BY <1>1, <1>4, <1>6
<1> QED
  BY <1>5, <1>7, <1>8, <1>11, <1>12, <1>13, <1>14, <1>16, <1>17, <1>18, <1>19 DEF TablesInv

\* Giving up all that is unpushed changes no number of the server's.
LEMMA AbsorbKeepsTables ==
  ASSUME TypeOK, TablesInv, AbsorbAllUnpushed, UNCHANGED <<commitVars, rows, stubs, head>>
  PROVE  TablesInv' /\ AllUnpushed' = {} /\ seq' \in [Commit -> Int]
<1>1. UNCHANGED <<base, content, parent, log, rows, stubs, head>>
  BY DEF commitVars
<1>2. /\ \A c \in Commit : ~ Unpushed(c) => seq'[c] = seq[c]
      /\ \A c \in Commit : Unpushed(c) => /\ seq[c] = 0 /\ seq'[c] < 0
                                          /\ seq'[c] = - Rowid(c) /\ Rowid(c) \in Nat
  <2>1. \A c \in Commit : Unpushed(c) => Rowid(c) \in Nat \ {0} /\ seq[c] = 0
    <3> SUFFICES ASSUME NEW c \in Commit, Unpushed(c) PROVE Rowid(c) \in Nat \ {0} /\ seq[c] = 0
      OBVIOUS
    <3>1. Rowid(c) \in DOMAIN rows /\ rows \in Seq(Commit)
      BY RowidIs, Typed DEF Unpushed, Stored, TablesInv, RowsInv
    <3> QED
      BY <3>1 DEF Unpushed
  <2>2. seq' = [c \in Commit |-> IF Unpushed(c) THEN - Rowid(c) ELSE seq[c]]
    BY DEF AbsorbAllUnpushed
  <2> QED
    BY <2>1, <2>2
<1>3. /\ \A c \in Commit : seq[c] > 0 => seq'[c] = seq[c]
      /\ \A c \in Commit : seq'[c] > 0 => seq'[c] = seq[c]
      /\ \A c \in Commit : seq[c] < 0 => seq'[c] < 0
      /\ \A c \in Commit : seq[c] \in Int /\ seq'[c] \in Int
  <2> SUFFICES ASSUME NEW c \in Commit
               PROVE  /\ seq[c] > 0 => seq'[c] = seq[c]
                      /\ seq'[c] > 0 => seq'[c] = seq[c]
                      /\ seq[c] < 0 => seq'[c] < 0
                      /\ seq[c] \in Int /\ seq'[c] \in Int
    OBVIOUS
  <2>1. seq[c] \in Int
    BY Typed
  <2>2. CASE Unpushed(c)
    <3>1. seq[c] = 0 /\ seq'[c] = - Rowid(c) /\ seq'[c] < 0 /\ Rowid(c) \in Nat
      BY <1>2, <2>2
    <3> QED
      BY <3>1
  <2>3. CASE ~ Unpushed(c)
    <3>1. seq'[c] = seq[c]
      BY <1>2, <2>3
    <3> QED
      BY <2>1, <3>1
  <2> QED
    BY <2>2, <2>3
<1>4. AllUnpushed' = {}
  <2>1. ASSUME NEW c \in AllUnpushed'
        PROVE  FALSE
    <3>1. c \in Commit /\ Stored(c) /\ seq'[c] = 0
      BY <1>1, <2>1, Typed DEF AllUnpushed, Unpushed, Stored
    <3>2. CASE Unpushed(c)
      BY <1>2, <3>1, <3>2
    <3>3. CASE ~ Unpushed(c)
      BY <1>2, <3>1, <3>3 DEF Unpushed
    <3> QED
      BY <3>2, <3>3
  <2> QED
    BY <2>1
<1>5. \A c \in Commit : Confirmed(c)' <=> Confirmed(c)
  BY <1>3 DEF Confirmed
<1>6. LogInv'
  BY <1>1 DEF TablesInv, LogInv, Once, LogLinear, IsMade, Changes
<1>7. \A c : Files(c)' = Files(c) /\ Rowid(c)' = Rowid(c) /\ (Stored(c)' <=> Stored(c)) /\ (IsMade(c)' <=> IsMade(c))
  BY <1>1 DEF Files, Changes, Rowid, Stored, IsMade
<1>8. RowsInv'
  <2>1. RowsOnce'
    BY <1>1 DEF TablesInv, RowsInv, RowsOnce
  <2>2. \A c \in Range(rows)' : IsMade(c)' /\ (~ Confirmed(c)' => c \in Mine)
    BY <1>1, <1>5, <1>7, Typed DEF TablesInv, RowsInv
  <2>3. ASSUME NEW c \in Commit, seq'[c] # 0
        PROVE  Stored(c)'
    <3>1. Unpushed(c) \/ seq[c] # 0
      BY <1>2, <2>3
    <3> QED
      BY <1>7, <3>1 DEF TablesInv, RowsInv, Unpushed
  <2> QED
    BY <2>1, <2>2, <2>3 DEF RowsInv
<1>9. NumbersInv'
  <2>1. \A c \in Commit : Confirmed(c)' => seq'[c] = seq[c] /\ Confirmed(c)
    BY <1>3, <1>5 DEF Confirmed
  <2>2. \A c \in Commit : Absorbed(c) => Absorbed(c)'
    BY <1>3 DEF Absorbed
  <2>3. NumbersAgree'
    <3> SUFFICES ASSUME NEW c \in Commit, Confirmed(c)
                 PROVE  /\ seq[c] \in DOMAIN log
                        /\ LET d == log[seq[c]]
                           IN  /\ base[d] = base[c] /\ content[d] = content[c]
                               /\ d # c => parent[c] \in Range(log) /\ seq'[parent[c]] < 0
      BY <1>1, <2>1 DEF NumbersAgree, Absorbed
    <3>2. \A d \in Range(log) : seq[d] < 0 => seq'[d] < 0
      BY <1>3, Typed
    <3>3. \A d \in Range(log) : Absorbed(d) <=> seq[d] < 0
      BY DEF Absorbed
    <3>5. /\ seq[c] \in DOMAIN log
          /\ LET d == log[seq[c]]
             IN  /\ base[d] = base[c] /\ content[d] = content[c]
                 /\ d # c => parent[c] \in Range(log) /\ Absorbed(parent[c])
      BY DEF TablesInv, NumbersInv, NumbersAgree
    <3> QED
      BY <3>2, <3>3, <3>5
  <2>4. ASSUME NEW c \in Commit, NEW d \in Commit, Confirmed(c)', seq'[c] = seq'[d]
        PROVE  c = d
    <3>1. Confirmed(c) /\ seq'[c] = seq[c] /\ seq'[d] = seq[d]
      BY <1>3, <2>1, <2>4 DEF Confirmed
    <3> QED
      BY <2>4, <3>1 DEF TablesInv, NumbersInv
  <2>5. \A c \in Commit : Confirmed(c)' /\ log'[seq'[c]] # c => c \notin Range(log)'
    BY <1>1, <2>1 DEF TablesInv, NumbersInv
  <2>6. (stubs \subseteq DOMAIN log)'
    BY <1>1 DEF TablesInv, NumbersInv
  <2> QED
    BY <2>3, <2>4, <2>5, <2>6 DEF NumbersInv
<1>10. ParentsInv'
  BY <1>4 DEF ParentsInv
<1>11. HeadInv'
  <2>1. \A p \in Path : head'[p] # NoCommit => Stored(head[p])' /\ p \in Files(head[p])'
    BY <1>1 DEF TablesInv, HeadInv, Stored, Files, Changes
  <2>2. \A c \in Range(rows)' : ~ Confirmed(c)' => StartsFromStored(c)'
    <3>1. \A c : StartsFromStored(c)' <=> StartsFromStored(c)
      BY <1>1 DEF StartsFromStored, Files, Changes, Stored, Rowid
    <3> QED
      BY <1>1, <1>5, <3>1, Typed DEF TablesInv, HeadInv
  <2>3. HeadNotBehind'
    <3> SUFFICES ASSUME NEW p \in Path, NEW c \in Range(rows), Confirmed(c)', p \in Files(c)
                 PROVE  head[p] # NoCommit /\ (Confirmed(head[p])' => seq'[c] <= seq'[head[p]])
      BY <1>1, <1>7 DEF HeadNotBehind
    <3>1. c \in Commit /\ Confirmed(c) /\ seq'[c] = seq[c]
      BY <1>3, <1>5, Typed DEF Confirmed
    <3>2. head[p] # NoCommit /\ (Confirmed(head[p]) => seq[c] <= seq[head[p]])
      BY <3>1 DEF TablesInv, HeadInv, HeadNotBehind
    <3>3. head[p] \in Commit
      BY <3>2, Typed
    <3> QED
      BY <1>1, <1>3, <3>1, <3>2, <3>3 DEF Confirmed
  <2> QED
    BY <1>4, <2>1, <2>2, <2>3 DEF HeadInv
<1>12. GapInv'
  <2>1. ASSUME NEW n \in DOMAIN log, Cause(n)
        PROVE  Cause(n)'
    <3>1. n \in Nat \ {0}
      BY Typed
    <3> QED
      BY <1>1, <1>3, <2>1, <3>1, CauseStays
  <2>2. ASSUME NEW c \in Commit, NEW n \in 1 .. seq'[c]
        PROVE  Cause(n)'
    <3>1. seq'[c] = seq[c]
      <4>1. CASE seq[c] > 0
        BY <1>3, <4>1
      <4>2. CASE ~ seq[c] > 0
        <5>1. seq'[c] \in Int /\ seq'[c] > 0
          BY <1>3, <2>2
        <5> QED
          BY <1>3, <5>1
      <4> QED
        BY <4>1, <4>2
    <3> QED
      BY <2>1, <2>2, <3>1, NumbersInLog
  <2> QED
    BY <1>1, <2>1, <2>2, NumbersInLog DEF GapInv
<1>13. seq' \in [Commit -> Int]
  BY <1>3 DEF AbsorbAllUnpushed
<1> QED
  BY <1>4, <1>6, <1>8, <1>9, <1>10, <1>11, <1>12, <1>13 DEF TablesInv

\* The commit that is sent next.
LEMMA NextIs ==
  ASSUME TypeOK, TablesInv, ChainInv, cmd.step \in {"send", "confirm"}
  PROVE  /\ NextToPush \in cmd.todo /\ NextToPush \in AllUnpushed /\ NextToPush \in Range(rows)
         /\ NextToPush \in Mine /\ NextToPush \in Commit /\ Stored(NextToPush) /\ seq[NextToPush] = 0
         /\ \A c \in cmd.todo : Rowid(NextToPush) <= Rowid(c)
<1>1. cmd.todo # {} /\ cmd.todo \subseteq AllUnpushed /\ AllUnpushed \subseteq Range(rows)
  BY DEF ChainInv, AllUnpushed
<1>2. rows \in Seq(Commit) /\ RowsOnce
  BY Typed DEF TablesInv, RowsInv
<1>3. NextToPush \in cmd.todo /\ \A c \in cmd.todo : Rowid(NextToPush) <= Rowid(c)
  BY <1>1, <1>2, OldestIs DEF NextToPush
<1> QED
  BY <1>1, <1>3, LogMade

\* A pushed commit gets the number that the server has for it, which is above all
\* others, and stays the head where it is one.
LEMMA ConfirmKeepsTables ==
  ASSUME TypeOK, TablesInv, ChainInv, AnswerInv, ConfirmSeq
  PROVE  /\ TablesInv' /\ AllUnpushed' = AllUnpushed \ {NextToPush}
         /\ seq' = [seq EXCEPT ![NextToPush] = cmd.number] /\ cmd.number \in DOMAIN log
<1> DEFINE c == NextToPush
           N == cmd.number
<1>1. /\ cmd.step = "confirm" /\ seq' = [seq EXCEPT ![NextToPush] = cmd.number]
      /\ UNCHANGED <<base, content, parent, log, rows, stubs, head>>
  BY DEF ConfirmSeq, commitVars
<1>2. /\ c \in AllUnpushed /\ c \in Range(rows) /\ c \in Mine /\ c \in Commit /\ Stored(c) /\ seq[c] = 0
  BY <1>1, NextIs
<1>3. /\ N \in DOMAIN log
      /\ \A e \in Commit : seq[e] < N
      /\ base[log[N]] = base[c] /\ content[log[N]] = content[c]
      /\ log[N] # c => c \notin Range(log) /\ parent[c] \in Range(log) /\ Absorbed(parent[c])
      /\ \A p \in Files(c) :
           /\ ~ Confirmed(head[p])
           /\ head[p] = c => \A e \in AllUnpushed \ {c} : p \in Files(e) =>
                \A n \in DOMAIN log : n >= N => log[n] # base[e][p]
  BY <1>1 DEF AnswerInv
<1>4. N \in Nat /\ N > 0
  BY <1>3, Typed
<1>5. seq'[c] = N /\ (\A e : e \in Commit /\ e # c => seq'[e] = seq[e]) /\ \A e \in Commit : seq[e] \in Int
  BY <1>1, <1>2, Typed
<1> HIDE DEF c, N
<1>6. \A e \in Commit : (Confirmed(e)' <=> Confirmed(e) \/ e = c) /\ (Absorbed(e)' <=> Absorbed(e))
  BY <1>2, <1>4, <1>5 DEF Confirmed, Absorbed
<1>7. \A e : /\ Files(e)' = Files(e) /\ Rowid(e)' = Rowid(e) /\ (Stored(e)' <=> Stored(e))
             /\ (IsMade(e)' <=> IsMade(e)) /\ (StartsFromStored(e)' <=> StartsFromStored(e))
  BY <1>1 DEF Files, Changes, Rowid, Stored, IsMade, StartsFromStored
<1>8. AllUnpushed' = AllUnpushed \ {c}
  <2>1. \A e : e \in AllUnpushed' <=> e \in Range(rows) /\ seq'[e] = 0
    BY <1>1 DEF AllUnpushed, Unpushed, Stored
  <2>2. \A e : e \in AllUnpushed <=> e \in Range(rows) /\ seq[e] = 0
    BY DEF AllUnpushed, Unpushed, Stored
  <2>3. ASSUME NEW e
        PROVE  e \in AllUnpushed' <=> e \in AllUnpushed /\ e # c
    <3>1. CASE e = c
      BY <1>4, <1>5, <2>1, <3>1
    <3>2. CASE e # c
      <4>1. e \in Range(rows) => seq'[e] = seq[e]
        BY <1>5, <3>2, Typed
      <4> QED
        BY <2>1, <2>2, <3>2, <4>1
    <3> QED
      BY <3>1, <3>2
  <2> QED
    BY <2>3, Zenon
<1>9. LogInv'
  BY <1>1 DEF TablesInv, LogInv, Once, LogLinear, IsMade, Changes
<1>10. RowsInv'
  <2>1. RowsOnce'
    BY <1>1 DEF TablesInv, RowsInv, RowsOnce
  <2>2. \A e \in Range(rows)' : IsMade(e)' /\ (~ Confirmed(e)' => e \in Mine)
    BY <1>1, <1>6, <1>7, Typed DEF TablesInv, RowsInv
  <2>3. \A e \in Commit : seq'[e] # 0 => Stored(e)'
    BY <1>2, <1>5, <1>7 DEF TablesInv, RowsInv
  <2> QED
    BY <2>1, <2>2, <2>3 DEF RowsInv
<1>11. NumbersInv'
  <2>1. Range(log) \subseteq Commit
    BY Typed
  <2>2. ASSUME NEW e \in Commit, Confirmed(e)'
        PROVE  /\ seq'[e] \in DOMAIN log
               /\ base[log[seq'[e]]] = base[e] /\ content[log[seq'[e]]] = content[e]
               /\ log[seq'[e]] # e => parent[e] \in Range(log) /\ Absorbed(parent[e]) /\ e \notin Range(log)
    <3>1. CASE e = c
      BY <1>3, <1>5, <3>1
    <3>2. CASE e # c
      BY <1>5, <1>6, <2>2, <3>2 DEF TablesInv, NumbersInv, NumbersAgree
    <3> QED
      BY <3>1, <3>2
  <2>3. \A e \in Commit : parent[e] \in Range(log) /\ Absorbed(parent[e]) => Absorbed(parent[e])'
    BY <1>1, <1>6, <2>1 DEF Absorbed
  <2>4. NumbersAgree'
    BY <1>1, <2>2, <2>3 DEF NumbersAgree
  <2>5. ASSUME NEW e \in Commit, NEW f \in Commit, Confirmed(e)', seq'[e] = seq'[f]
        PROVE  e = f
    <3>1. CASE e = c \/ f = c
      BY <1>3, <1>4, <1>5, <2>5, <3>1
    <3>2. CASE e # c /\ f # c
      BY <1>5, <1>6, <2>5, <3>2 DEF TablesInv, NumbersInv
    <3> QED
      BY <3>1, <3>2
  <2>6. (stubs \subseteq DOMAIN log)'
    BY <1>1 DEF TablesInv, NumbersInv
  <2>7. \A e \in Commit : Confirmed(e)' /\ log'[seq'[e]] # e => e \notin Range(log)'
    BY <1>1, <2>2
  <2> QED
    BY <2>4, <2>5, <2>6, <2>7 DEF NumbersInv
<1>12. ParentsInv'
  <2> SUFFICES ASSUME NEW e \in AllUnpushed, e # c, parent[e] # NoCommit
               PROVE  /\ Stored(parent[e]) /\ Rowid(parent[e]) < Rowid(e)
                      /\ Absorbed(parent[e])' => parent[e] \in Range(log)
    BY <1>1, <1>8 DEF ParentsInv, Follows, Stored, Rowid
  <2>1. Stored(parent[e]) /\ Rowid(parent[e]) < Rowid(e) /\ (Absorbed(parent[e]) => parent[e] \in Range(log))
    BY DEF TablesInv, ParentsInv, Follows
  <2>2. parent[e] \in Commit
    BY <2>1, Typed DEF Stored
  <2> QED
    BY <1>1, <1>6, <2>1, <2>2 DEF Absorbed
<1>13. HeadInv'
  <2>1. \A p \in Path : head'[p] # NoCommit => Stored(head[p])' /\ p \in Files(head[p])'
    BY <1>1 DEF TablesInv, HeadInv, Stored, Files, Changes
  <2>2. \A e \in Range(rows)' : ~ Confirmed(e)' => StartsFromStored(e)'
    BY <1>1, <1>6, <1>7, Typed DEF TablesInv, HeadInv
  <2>3. ASSUME NEW e \in AllUnpushed, e # c, NEW p \in Files(e)
        PROVE  /\ head[p] # NoCommit
               /\ IF Confirmed(head[p])' THEN Overtaken(e, p)'
                  ELSE Unpushed(head[p])' /\ Rowid(e) <= Rowid(head[p])
    <3>1. /\ head[p] # NoCommit
          /\ IF Confirmed(head[p]) THEN Overtaken(e, p) ELSE Unpushed(head[p]) /\ Rowid(e) <= Rowid(head[p])
      BY DEF TablesInv, HeadInv, UnpushedBelowHead
    <3>2. p \in Path /\ head[p] \in Commit
      BY <3>1, Typed
    <3>3. CASE head[p] = c
      <4>1. p \in Files(c)
        BY <3>1, <3>2, <3>3 DEF TablesInv, HeadInv
      <4>2. \A n \in DOMAIN log : n >= N => log[n] # base[e][p]
        BY <1>3, <2>3, <3>3, <4>1
      <4>3. Overtaken(e, p)'
        BY <1>1, <1>5, <3>3, <4>2 DEF Overtaken
      <4> QED
        BY <1>1, <1>6, <3>1, <3>2, <3>3, <4>3 DEF Confirmed
    <3>4. CASE head[p] # c
      <4>1. seq'[head[p]] = seq[head[p]]
        BY <1>5, <3>2, <3>4
      <4> QED
        BY <1>1, <3>1, <4>1 DEF Confirmed, Unpushed, Stored, Overtaken
    <3> QED
      BY <3>3, <3>4
  <2>4. \A e \in AllUnpushed' : UnpushedBelowHead(e)'
    <3> SUFFICES ASSUME NEW e \in AllUnpushed, e # c PROVE UnpushedBelowHead(e)'
      BY <1>8
    <3> QED
      BY <1>1, <1>7, <2>3 DEF UnpushedBelowHead, Confirmed, Unpushed, Stored, Rowid
  <2>5. ASSUME NEW p \in Path, NEW d \in Range(rows), Confirmed(d)', p \in Files(d)
        PROVE  head[p] # NoCommit /\ (Confirmed(head[p])' => seq'[d] <= seq'[head[p]])
    <3>1. d \in Commit
      BY Typed
    <3>2. CASE d = c
      <4>1. head[p] # NoCommit /\ ~ Confirmed(head[p])
        BY <1>2, <1>3, <2>5, <3>2 DEF TablesInv, HeadInv, UnpushedBelowHead
      <4>2. head[p] \in Commit
        BY <4>1, Typed
      <4>3. Confirmed(head[p])' => head[p] = c
        BY <1>1, <1>5, <4>1, <4>2 DEF Confirmed
      <4> QED
        BY <1>4, <1>5, <3>2, <4>1, <4>3
    <3>3. CASE d # c
      <4>1. Confirmed(d) /\ seq'[d] = seq[d]
        BY <1>5, <1>6, <2>5, <3>1, <3>3
      <4>2. head[p] # NoCommit /\ (Confirmed(head[p]) => seq[d] <= seq[head[p]])
        BY <2>5, <4>1 DEF TablesInv, HeadInv, HeadNotBehind
      <4>3. head[p] \in Commit
        BY <4>2, Typed
      <4>4. CASE head[p] = c
        BY <1>3, <1>4, <1>5, <3>1, <4>1, <4>2, <4>4
      <4>5. CASE head[p] # c
        BY <1>1, <1>5, <4>1, <4>2, <4>3, <4>5 DEF Confirmed
      <4> QED
        BY <4>4, <4>5
    <3> QED
      BY <3>2, <3>3
  <2>6. HeadNotBehind'
    BY <1>1, <1>7, <2>5 DEF HeadNotBehind, Confirmed
  <2> QED
    BY <2>1, <2>2, <2>4, <2>6 DEF HeadInv
<1>14. GapInv'
  <2>1. ASSUME NEW n \in DOMAIN log, Cause(n)
        PROVE  Cause(n)'
    <3>1. n \in Nat \ {0} /\ \A e \in Commit : seq[e] > 0 => seq'[e] = seq[e]
      BY <1>2, <1>5, Typed
    <3> QED
      BY <1>1, <2>1, <3>1, CauseStays
  <2>2. ASSUME NEW n \in 1 .. N
        PROVE  Cause(n)'
    <3>1. CASE n = N
      BY <1>2, <1>5, <3>1 DEF Cause, Accounted
    <3>2. CASE n # N
      <4>1. seq'[c] > n
        BY <1>4, <1>5, <2>2, <3>2
      <4> QED
        BY <1>2, <4>1 DEF Cause
    <3> QED
      BY <3>1, <3>2
  <2>3. ASSUME NEW e \in Commit, NEW n \in 1 .. seq'[e]
        PROVE  Cause(n)'
    <3>1. CASE e = c
      BY <1>5, <2>2, <2>3, <3>1
    <3>2. CASE e # c
      BY <1>5, <2>1, <2>3, <3>2, NumbersInLog
    <3> QED
      BY <3>1, <3>2
  <2> QED
    BY <1>1, <2>1, <2>3, NumbersInLog DEF GapInv
<1> QED
  BY <1>1, <1>3, <1>8, <1>9, <1>10, <1>11, <1>12, <1>13, <1>14 DEF TablesInv, c, N

\* A pulled commit gets its own number, above all others, and becomes the head of
\* what it changes; an unpushed commit that it overtakes starts from an earlier one.
LEMMA OvertakenByPull ==
  ASSUME TypeOK, TablesInv, NEW n \in DOMAIN log, ~ Stored(log[n]), NumberedTo(n),
         NEW e \in AllUnpushed, NEW p \in Files(e), p \in Files(log[n]),
         NEW k \in DOMAIN log, k >= n
  PROVE  log[k] # base[e][p]
<1>1. /\ DOMAIN log = 1 .. Len(log) /\ Len(log) \in Nat
      /\ \A m \in DOMAIN log : log[m] \in Commit /\ log[m] \in Range(log) /\ log[m] # NoCommit
  BY Typed, CloneConstants
<1> DEFINE Late == {m \in DOMAIN log : m >= n /\ Stored(log[m]) /\ p \in Files(log[m])}
<1>2. ASSUME NEW m \in Late
      PROVE  \E j \in Late : j < m
  <2>1. m \in DOMAIN log /\ m > n /\ Stored(log[m]) /\ p \in Files(log[m])
    <3>1. m # n
      BY <1>2
    <3> QED
      BY <1>1, <1>2, <3>1
  <2>2. ~ Confirmed(log[m])
    <3> SUFFICES ASSUME Confirmed(log[m]) PROVE FALSE
      OBVIOUS
    <3>1. seq[log[m]] \in DOMAIN log /\ log[seq[log[m]]] = log[m]
      BY <1>1, <2>1, LogMade DEF TablesInv, NumbersInv
    <3>2. seq[log[m]] = m
      BY <2>1, <3>1 DEF TablesInv, LogInv, Once
    <3> QED
      BY <1>1, <2>1, <3>2 DEF NumberedTo
  <2>3. StartsFromStored(log[m])
    BY <2>1, <2>2 DEF TablesInv, HeadInv, Stored
  <2>4. p \in Changes(log[m]) /\ p \in Changes(log[n]) /\ n \in 1 .. m - 1
    BY <1>1, <2>1, Typed
  <2>5. base[log[m]][p] # NoCommit /\ \A i \in 1 .. m - 1 : log[i] = base[log[m]][p] => n <= i
    BY <2>1, <2>4 DEF TablesInv, LogInv, LogLinear
  <2>6. PICK j \in 1 .. m - 1 : log[j] = base[log[m]][p]
    BY <2>1, <2>4, <2>5 DEF TablesInv, LogInv, LogLinear
  <2>7. Stored(log[j]) /\ p \in Files(log[j])
    BY <2>1, <2>3, <2>5, <2>6 DEF StartsFromStored
  <2>8. j \in DOMAIN log /\ j >= n /\ j < m
    BY <1>1, <2>1, <2>5, <2>6
  <2> QED
    BY <2>7, <2>8
<1>3. Late = {}
  <2>1. Late \subseteq Nat
    BY <1>1
  <2> HIDE DEF Late
  <2> SUFFICES ASSUME Late # {} PROVE FALSE
    OBVIOUS
  <2>2. PICK m \in Late : \A y \in Late : m <= y
    BY <2>1, MinIsLeast
  <2>3. PICK j \in Late : j < m
    BY <1>2, <2>2
  <2> QED
    BY <2>1, <2>2, <2>3
<1> SUFFICES ASSUME log[k] = base[e][p] PROVE FALSE
  OBVIOUS
<1>4. StartsFromStored(e)
  BY LogMade DEF TablesInv, HeadInv, Stored
<1>5. Stored(log[k]) /\ p \in Files(log[k])
  BY <1>1, <1>4 DEF StartsFromStored
<1> QED
  BY <1>3, <1>5

\* Storing the next commit of a pull keeps the tables: its number is above all others.
LEMMA StoreKeepsTables ==
  ASSUME TypeOK, TablesInv, NEW n \in DOMAIN log, ~ Stored(log[n]),
         WriteCommit(log[n], Files(log[n])), seq' = [seq EXCEPT ![log[n]] = n],
         NumberedTo(n), \A m \in 1 .. n - 1 : Cause(m),
         UNCHANGED <<commitVars, stubs>>
  PROVE  /\ TablesInv' /\ AllUnpushed' = AllUnpushed /\ NumberedTo(n + 1)'
         /\ rows' \in Seq(Commit) /\ Range(rows)' = Range(rows) \cup {log[n]}
<1>4. PICK c \in Commit : log[n] = c
  BY Typed
<1>1. /\ c \in Commit /\ c \in Range(log) /\ n \in Nat /\ n > 0 /\ c # NoCommit /\ c \notin Range(rows)
      /\ UNCHANGED <<base, content, parent, log, stubs>> /\ rows' = Append(rows, c)
      /\ head' = [p \in Path |-> IF p \in Files(c) THEN c ELSE head[p]]
  BY <1>4, Typed, CloneConstants DEF commitVars, WriteCommit, Stored
<1>2. seq[c] = 0 /\ seq'[c] = n /\ \A e : e \in Commit /\ e # c => seq'[e] = seq[e]
  BY <1>1, <1>4, Typed DEF TablesInv, RowsInv, Stored
<1>3. \A e \in Commit : seq[e] \in Int /\ seq[e] < n
  BY Typed DEF NumberedTo
<1>5. /\ rows' \in Seq(Commit) /\ RowsOnce' /\ Range(rows)' = Range(rows) \cup {c}
      /\ \A d \in Range(rows) : Rowid(d)' = Rowid(d) /\ Rowid(d) < Rowid(c)'
      /\ Rowid(c)' \in Nat
  <2>1. rows \in Seq(Commit) /\ RowsOnce
    BY Typed DEF TablesInv, RowsInv
  <2> QED
    BY <1>1, <2>1, RowAppended
<1>6. /\ \A e : Files(e)' = Files(e) /\ Changes(e)' = Changes(e) /\ (IsMade(e)' <=> IsMade(e))
      /\ \A e \in Range(rows) : e \in Commit /\ e # c
  BY <1>1, Typed DEF Files, Changes, IsMade
<1>7. \A e \in Commit : (Confirmed(e)' <=> Confirmed(e) \/ e = c) /\ (Absorbed(e)' <=> Absorbed(e))
  BY <1>1, <1>2 DEF Confirmed, Absorbed
<1>8. AllUnpushed' = AllUnpushed
  <2>1. \A e : e \in AllUnpushed' <=> e \in Range(rows)' /\ seq'[e] = 0
    BY DEF AllUnpushed, Unpushed, Stored
  <2>2. \A e : e \in AllUnpushed <=> e \in Range(rows) /\ seq[e] = 0
    BY DEF AllUnpushed, Unpushed, Stored
  <2>3. ASSUME NEW e PROVE e \in AllUnpushed' <=> e \in AllUnpushed
    <3>1. CASE e = c
      BY <1>1, <1>2, <2>1, <2>2, <3>1
    <3>2. CASE e # c
      <4>1. e \in Range(rows) => seq'[e] = seq[e]
        BY <1>2, <1>6, <3>2
      <4> QED
        BY <1>5, <2>1, <2>2, <3>2, <4>1
    <3> QED
      BY <3>1, <3>2
  <2> QED
    BY <2>3, Zenon
<1>9. LogInv'
  BY <1>1 DEF TablesInv, LogInv, Once, LogLinear, IsMade, Changes
<1>10. RowsInv'
  <2>1. \A e \in Range(rows)' : IsMade(e)' /\ (~ Confirmed(e)' => e \in Mine)
    BY <1>1, <1>5, <1>6, <1>7, LogMade DEF TablesInv, RowsInv
  <2>2. \A e \in Commit : seq'[e] # 0 => Stored(e)'
    BY <1>2, <1>5 DEF TablesInv, RowsInv, Stored
  <2> QED
    BY <1>5, <2>1, <2>2 DEF RowsInv
<1>11. NumbersInv'
  <2>1. Range(log) \subseteq Commit
    BY Typed
  <2>2. ASSUME NEW e \in Commit, Confirmed(e)'
        PROVE  /\ seq'[e] \in DOMAIN log
               /\ base[log[seq'[e]]] = base[e] /\ content[log[seq'[e]]] = content[e]
               /\ log[seq'[e]] # e => parent[e] \in Range(log) /\ Absorbed(parent[e]) /\ e \notin Range(log)
    <3>1. CASE e = c
      BY <1>2, <1>4, <3>1
    <3>2. CASE e # c
      BY <1>2, <1>7, <2>2, <3>2 DEF TablesInv, NumbersInv, NumbersAgree
    <3> QED
      BY <3>1, <3>2
  <2>3. \A e \in Commit : parent[e] \in Range(log) /\ Absorbed(parent[e]) => Absorbed(parent[e])'
    BY <1>1, <1>7, <2>1 DEF Absorbed
  <2>4. NumbersAgree'
    BY <1>1, <2>2, <2>3 DEF NumbersAgree
  <2>5. ASSUME NEW e \in Commit, NEW f \in Commit, Confirmed(e)', seq'[e] = seq'[f]
        PROVE  e = f
    <3>1. CASE e = c \/ f = c
      BY <1>1, <1>2, <1>3, <2>5, <3>1
    <3>2. CASE e # c /\ f # c
      BY <1>2, <1>7, <2>5, <3>2 DEF TablesInv, NumbersInv
    <3> QED
      BY <3>1, <3>2
  <2>6. (stubs \subseteq DOMAIN log)'
    BY <1>1 DEF TablesInv, NumbersInv
  <2>7. \A e \in Commit : Confirmed(e)' /\ log'[seq'[e]] # e => e \notin Range(log)'
    BY <1>1, <2>2
  <2> QED
    BY <2>4, <2>5, <2>6, <2>7 DEF NumbersInv
<1>12. ParentsInv'
  <2> SUFFICES ASSUME NEW e \in AllUnpushed PROVE Follows(e)'
    BY <1>8 DEF ParentsInv
  <2> SUFFICES ASSUME NEW q, q = parent[e], q # NoCommit
               PROVE  /\ q \in Range(rows)' /\ Rowid(q)' < Rowid(e)'
                      /\ seq'[q] < 0 => q \in Range(log)
    BY <1>1 DEF Follows, Stored, Rowid, Absorbed
  <2>1. q \in Range(rows) /\ Rowid(q) < Rowid(e) /\ (seq[q] < 0 => q \in Range(log))
    BY DEF TablesInv, ParentsInv, Follows, Stored, Absorbed
  <2>2. e \in Range(rows)
    BY LogMade DEF Stored
  <2> QED
    BY <1>2, <1>5, <1>6, <2>1, <2>2
<1>13. HeadInv'
  <2>1. \A p \in Path : head'[p] # NoCommit => Stored(head[p])' /\ p \in Files(head[p])'
    <3> SUFFICES ASSUME NEW p \in Path, NEW h, h = head'[p], h # NoCommit
                 PROVE  h \in Range(rows)' /\ p \in Files(h)'
      BY DEF Stored, Files, Changes
    <3>1. CASE p \in Files(c)
      BY <1>1, <1>5, <1>6, <3>1
    <3>2. CASE p \notin Files(c)
      BY <1>1, <1>5, <1>6, <3>2 DEF TablesInv, HeadInv, Stored
    <3> QED
      BY <3>1, <3>2
  <2>2. ASSUME NEW e \in Range(rows)', ~ Confirmed(e)', NEW p \in Files(e), NEW b, b = base[e][p], b # NoCommit
        PROVE  b \in Range(rows)' /\ p \in Files(b) /\ Rowid(b)' < Rowid(e)'
    <3>1. e \in Range(rows) /\ ~ Confirmed(e)
      BY <1>1, <1>5, <1>6, <1>7, <2>2
    <3>2. b \in Range(rows) /\ p \in Files(b) /\ Rowid(b) < Rowid(e)
      BY <2>2, <3>1 DEF TablesInv, HeadInv, StartsFromStored, Stored
    <3> QED
      BY <1>5, <3>1, <3>2
  <2>3. ASSUME NEW e \in Range(rows)', ~ Confirmed(e)'
        PROVE  StartsFromStored(e)'
    <3>1. base' = base /\ Files(e)' = Files(e)
      BY <1>1, <1>6
    <3> SUFFICES ASSUME NEW p \in Files(e), NEW b, b = base[e][p], b # NoCommit
                 PROVE  b \in Range(rows)' /\ p \in Files(b)' /\ Rowid(b)' < Rowid(e)'
      BY <3>1 DEF StartsFromStored, Stored, Files, Changes, Rowid
    <3> QED
      BY <1>6, <2>2, <2>3
  <2>4. ASSUME NEW e \in AllUnpushed, NEW p \in Files(e)
        PROVE  /\ head'[p] # NoCommit
               /\ IF Confirmed(head[p])' THEN Overtaken(e, p)'
                  ELSE Unpushed(head[p])' /\ Rowid(e)' <= Rowid(head[p])'
    <3>1. p \in Path /\ e \in Range(rows)
      BY LogMade, Typed DEF Stored
    <3>2. CASE p \in Files(c)
      <4>1. head'[p] = c /\ Confirmed(head[p])'
        BY <1>1, <1>2, <3>1, <3>2 DEF Confirmed
      <4>2. Overtaken(e, p)'
        BY <1>1, <1>2, <1>4, <2>4, <3>2, <4>1, OvertakenByPull DEF Overtaken
      <4> QED
        BY <1>1, <4>1, <4>2
    <3>3. CASE p \notin Files(c)
      <4>1. PICK h \in Range(rows) : h = head[p] /\ h = head'[p] /\ h # NoCommit
        BY <1>1, <3>1, <3>3 DEF TablesInv, HeadInv, UnpushedBelowHead, Stored
      <4>2. IF Confirmed(h) THEN Overtaken(e, p) ELSE Unpushed(h) /\ Rowid(e) <= Rowid(h)
        BY <4>1 DEF TablesInv, HeadInv, UnpushedBelowHead
      <4>3. seq'[h] = seq[h] /\ Rowid(h)' = Rowid(h) /\ Rowid(e)' = Rowid(e) /\ h \in Range(rows)'
        BY <1>2, <1>5, <1>6, <3>1
      <4>4. Confirmed(h) => Overtaken(e, p)'
        BY <1>1, <4>1, <4>2, <4>3 DEF Overtaken
      <4>5. /\ Confirmed(h)' <=> Confirmed(h)
            /\ Unpushed(h) => Unpushed(h)'
        BY <4>3 DEF Confirmed, Unpushed, Stored
      <4> QED
        BY <4>1, <4>2, <4>3, <4>4, <4>5 DEF Confirmed, Unpushed, Stored, Rowid
    <3> QED
      BY <3>2, <3>3
  <2>5. \A e \in AllUnpushed' : UnpushedBelowHead(e)'
    BY <1>6, <1>8, <2>4 DEF UnpushedBelowHead
  <2>6. ASSUME NEW p \in Path, NEW d \in Range(rows)', Confirmed(d)', p \in Files(d)
        PROVE  head'[p] # NoCommit /\ (Confirmed(head[p])' => seq'[d] <= seq'[head'[p]])
    <3>1. d \in Commit
      BY <1>1, <1>5, <1>6
    <3>2. CASE p \in Files(c)
      <4>1. seq'[d] <= n
        BY <1>2, <1>3, <3>1, <1>1
      <4> QED
        BY <1>1, <1>2, <3>2, <4>1
    <3>3. CASE p \notin Files(c)
      <4>1. d # c /\ d \in Range(rows) /\ Confirmed(d) /\ head'[p] = head[p] /\ seq'[d] = seq[d]
        BY <1>1, <1>2, <1>5, <1>7, <2>6, <3>1, <3>3
      <4>2. head[p] # NoCommit /\ (Confirmed(head[p]) => seq[d] <= seq[head[p]])
        BY <2>6, <4>1 DEF TablesInv, HeadInv, HeadNotBehind
      <4>3. head[p] \in Range(rows)
        BY <4>2 DEF TablesInv, HeadInv, Stored
      <4>4. seq'[head[p]] = seq[head[p]]
        BY <1>2, <1>6, <4>3
      <4> QED
        BY <4>1, <4>2, <4>4 DEF Confirmed
    <3> QED
      BY <3>2, <3>3
  <2>7. HeadNotBehind'
    BY <1>6, <2>6 DEF HeadNotBehind
  <2> QED
    BY <2>1, <2>3, <2>5, <2>7 DEF HeadInv
<1>14. GapInv'
  <2>1. ASSUME NEW m \in DOMAIN log, Cause(m)
        PROVE  Cause(m)'
    <3>1. m \in Nat \ {0} /\ \A e \in Commit : seq[e] > 0 => seq'[e] = seq[e]
      BY <1>2, Typed
    <3> QED
      BY <1>1, <1>5, <2>1, <3>1, CauseStays
  <2>2. ASSUME NEW m \in 1 .. n
        PROVE  Cause(m)'
    <3>1. CASE m = n
      BY <1>1, <1>2, <3>1 DEF Cause, Accounted
    <3>2. CASE m # n
      <4>1. m \in 1 .. n - 1 /\ m \in DOMAIN log
        BY <1>1, <2>2, <3>2, Typed
      <4> QED
        BY <2>1, <4>1
    <3> QED
      BY <3>1, <3>2
  <2>3. ASSUME NEW e \in Commit, NEW m \in 1 .. seq'[e]
        PROVE  Cause(m)'
    <3>1. CASE e = c
      BY <1>2, <2>2, <2>3, <3>1
    <3>2. CASE e # c
      BY <1>2, <2>1, <2>3, <3>2, NumbersInLog
    <3> QED
      BY <3>1, <3>2
  <2> QED
    BY <1>1, <2>1, <2>3, NumbersInLog DEF GapInv
<1>15. NumberedTo(n + 1)'
  <2> SUFFICES ASSUME NEW e \in Commit PROVE seq'[e] < n + 1
    BY DEF NumberedTo
  <2> QED
    BY <1>1, <1>2, <1>3
<1> QED
  BY <1>4, <1>5, <1>8, <1>9, <1>10, <1>11, <1>12, <1>13, <1>14, <1>15 DEF TablesInv

\* The confirmed version of a path with the highest number.
LEMMA LatestConfirmedIs ==
  ASSUME TypeOK, TablesInv, NEW p
  PROVE  LET versions == {d \in Range(rows) : Confirmed(d) /\ p \in Files(d)}
         IN  IF versions = {}
               THEN LatestConfirmed(p) = NoCommit
               ELSE /\ LatestConfirmed(p) \in versions
                    /\ \A d \in versions : seq[d] <= seq[LatestConfirmed(p)]
<1> DEFINE versions == {d \in Range(rows) : Confirmed(d) /\ p \in Files(d)}
<1>1. CASE versions = {}
  BY <1>1 DEF LatestConfirmed
<1>2. CASE versions # {}
  <2>1. PICK d \in versions : \A e \in versions : seq[e] <= seq[d]
    <3> DEFINE numbers == {seq[e] : e \in versions}
    <3>1. numbers \subseteq Int /\ numbers # {} /\ \A x \in numbers : x <= Len(log)
      BY <1>2, Typed, NumbersInLog
    <3>2. Max(numbers) \in numbers /\ \A x \in numbers : x <= Max(numbers)
      <4>1. Len(log) \in Int
        BY Typed
      <4> HIDE DEF numbers
      <4> QED
        BY <3>1, <4>1, MaxIsGreatest
    <3> QED
      BY <3>2
  <2>2. \A e \in versions : e \in Commit /\ seq[e] \in Int /\ Confirmed(e) /\ (e # d => seq[e] # seq[d])
    BY Typed DEF TablesInv, NumbersInv
  <2>3. \A e \in versions \ {d} : LaterThan(d, e)
    BY <2>1, <2>2 DEF LaterThan
  <2> DEFINE l == CHOOSE x \in versions : \A e \in versions \ {x} : LaterThan(x, e)
  <2>4. l \in versions /\ \A e \in versions \ {l} : LaterThan(l, e)
    <3> HIDE DEF versions
    <3> QED
      BY <2>3, Zenon
  <2>5. \A e \in versions : ~ Unpushed(e)
    BY DEF Confirmed, Unpushed
  <2>6. \A e \in versions : seq[e] <= seq[l]
    <3> TAKE e \in versions
    <3>1. CASE e = l
      BY <2>2, <3>1
    <3>2. CASE e # l
      BY <2>2, <2>4, <2>5, <3>2 DEF LaterThan
    <3> QED
      BY <3>1, <3>2
  <2>7. LatestConfirmed(p) = l
    BY <1>2 DEF LatestConfirmed
  <2> QED
    BY <1>2, <2>4, <2>6, <2>7
<1> QED
  BY <1>1, <1>2

\* Where nothing is unpushed, a head can go to the latest confirmed version.
LEMMA RepointKeepsTables ==
  ASSUME TypeOK, TablesInv, AllUnpushed = {}, NEW p \in Path,
         head' = [head EXCEPT ![p] = LatestConfirmed(p)],
         UNCHANGED <<commitVars, rows, seq, stubs>>
  PROVE  TablesInv' /\ AllUnpushed' = {}
<1>1. UNCHANGED <<base, content, parent, log, rows, seq, stubs>>
  BY DEF commitVars
<1>2. head'[p] = LatestConfirmed(p) /\ \A q \in Path : q # p => head'[q] = head[q]
  BY Typed
<1>3. AllUnpushed' = {}
  BY <1>1 DEF AllUnpushed, Unpushed, Stored
<1>4. LogInv'
  BY <1>1 DEF TablesInv, LogInv, Once, LogLinear, IsMade, Changes
<1>5. RowsInv'
  BY <1>1 DEF TablesInv, RowsInv, RowsOnce, IsMade, Changes, Confirmed, Stored
<1>6. NumbersInv'
  BY <1>1 DEF TablesInv, NumbersInv, NumbersAgree, Confirmed, Absorbed
<1>7. GapInv'
  BY <1>1 DEF TablesInv, GapInv, Cause, Accounted
<1>8. HeadInv'
  <2>1. \A c : /\ (StartsFromStored(c)' <=> StartsFromStored(c)) /\ Files(c)' = Files(c)
               /\ (Stored(c)' <=> Stored(c)) /\ (Confirmed(c)' <=> Confirmed(c))
    BY <1>1 DEF StartsFromStored, Files, Changes, Stored, Rowid, Confirmed
  <2>2. ASSUME NEW q \in Path
        PROVE  /\ head'[q] # NoCommit => Stored(head'[q]) /\ q \in Files(head'[q])
               /\ \A c \in Range(rows) : Confirmed(c) /\ q \in Files(c) =>
                    head'[q] # NoCommit /\ (Confirmed(head'[q]) => seq[c] <= seq[head'[q]])
    <3>1. CASE q = p
      <4> DEFINE l == LatestConfirmed(p)
                 versions == {d \in Range(rows) : Confirmed(d) /\ p \in Files(d)}
      <4>1. IF versions = {} THEN l = NoCommit ELSE l \in versions /\ \A d \in versions : seq[d] <= seq[l]
        BY LatestConfirmedIs
      <4>2. \A d \in versions : d # NoCommit
        BY Typed, CloneConstants
      <4> HIDE DEF l
      <4>3. head'[q] = l
        BY <1>2, <3>1 DEF l
      <4> QED
        BY <3>1, <4>1, <4>2, <4>3 DEF Stored
    <3>2. CASE q # p
      BY <1>2, <3>2 DEF TablesInv, HeadInv, HeadNotBehind
    <3> QED
      BY <3>1, <3>2
  <2>3. HeadNotBehind'
    BY <1>1, <2>1, <2>2 DEF HeadNotBehind, Confirmed
  <2>4. \A q \in Path : head'[q] # NoCommit => Stored(head[q])' /\ q \in Files(head[q])'
    BY <1>1, <2>2 DEF Stored, Files, Changes
  <2>5. \A c \in Range(rows)' : ~ Confirmed(c)' => StartsFromStored(c)'
    BY <1>1, <2>1 DEF TablesInv, HeadInv
  <2> QED
    BY <1>3, <2>3, <2>4, <2>5 DEF HeadInv
<1> QED
  BY <1>3, <1>4, <1>5, <1>6, <1>7, <1>8 DEF TablesInv, ParentsInv

\* What a file has at a commit is what some stored commit leaves there.
LEMMA FileAtCommitIs ==
  ASSUME TypeOK, TablesInv, NEW c, NEW p, FileAtCommit(c, p) # Deleted
  PROVE  \E d \in Range(rows) : p \in Files(d) /\ FileAtCommit(c, p) = content[d][p]
<1> DEFINE versions == {d \in HistoryScope(c) : p \in Files(d)}
<1>1. versions # {}
  BY DEF FileAtCommit
<1>2. versions \subseteq Range(rows) /\ \A d \in versions : Confirmed(d) \/ Unpushed(d)
  BY DEF HistoryScope
<1>3. \E d \in versions : \A e \in versions \ {d} : LaterThan(d, e)
  <2> DEFINE own == {d \in versions : Unpushed(d)}
  <2>1. rows \in Seq(Commit) /\ RowsOnce
    BY Typed DEF TablesInv, RowsInv
  <2>2. CASE own # {}
    <3>1. own \subseteq Range(rows)
      BY <1>2
    <3>2. Newest(own) \in own /\ \A e \in own : Rowid(e) <= Rowid(Newest(own))
      <4> HIDE DEF own
      <4> QED
        BY <2>1, <2>2, <3>1, NewestIs
    <3>3. PICK d \in own : \A e \in own : Rowid(e) <= Rowid(d)
      BY <3>2
    <3>4. ASSUME NEW e \in versions \ {d}
          PROVE  LaterThan(d, e)
      <4>1. CASE Confirmed(e)
        BY <3>3, <4>1 DEF LaterThan
      <4>2. CASE Unpushed(e)
        <5>1. Rowid(e) <= Rowid(d) /\ Rowid(e) # Rowid(d)
          BY <1>2, <2>1, <3>3, <4>2, RowidsDiffer
        <5>2. Rowid(e) \in Int /\ Rowid(d) \in Int
          <6>1. \A x \in Range(rows) : Rowid(x) \in DOMAIN rows
            BY <2>1, RowidIs
          <6> QED
            BY <1>2, <2>1, <6>1
        <5> QED
          BY <3>3, <4>2, <5>1, <5>2 DEF LaterThan
      <4> QED
        BY <1>2, <4>1, <4>2
    <3> QED
      BY <3>3, <3>4
  <2>3. CASE own = {}
    <3>1. \A d \in versions : Confirmed(d) /\ d \in Commit /\ seq[d] \in Int /\ seq[d] <= Len(log)
      BY <1>2, <2>3, Typed, NumbersInLog
    <3> DEFINE numbers == {seq[e] : e \in versions}
    <3>2. numbers \subseteq Int /\ numbers # {} /\ \A x \in numbers : x <= Len(log)
      BY <1>1, <3>1
    <3>3. Max(numbers) \in numbers /\ \A x \in numbers : x <= Max(numbers)
      <4>1. Len(log) \in Int
        BY Typed
      <4> HIDE DEF numbers
      <4> QED
        BY <3>2, <4>1, MaxIsGreatest
    <3>4. PICK d \in versions : \A e \in versions : seq[e] <= seq[d]
      BY <3>3
    <3>5. \A e \in versions \ {d} : seq[e] # seq[d]
      BY <3>1 DEF TablesInv, NumbersInv
    <3>6. \A e \in versions \ {d} : LaterThan(d, e)
      BY <3>1, <3>4, <3>5 DEF LaterThan
    <3> QED
      BY <3>6
  <2> QED
    BY <2>2, <2>3
<1> DEFINE l == CHOOSE d \in versions : \A e \in versions \ {d} : LaterThan(d, e)
<1>4. l \in versions
  <2> HIDE DEF versions
  <2> QED
    BY <1>3, Zenon
<1>5. FileAtCommit(c, p) = content[l][p]
  BY <1>1 DEF FileAtCommit
<1> QED
  BY <1>2, <1>4, <1>5

\* A fresh clone has, and numbers, what it may read of the log.
LEMMA CloneKeepsTables ==
  ASSUME TypeOK, TablesInv, RunClone
  PROVE  TypeOK' /\ TablesInv' /\ AllUnpushed' = {} /\ LocalInv'
<1> DEFINE numbers == {n \in DOMAIN log : Files(log[n]) # {}}
           visible == {log[n] : n \in numbers}
<1>1. /\ \A c \in visible : parent[c] \in visible \cup {NoCommit}
      /\ seq' = [c \in Commit |-> IF c \in visible THEN CHOOSE n \in numbers : log[n] = c ELSE 0]
      /\ rows' \in [1 .. Cardinality(visible) -> visible]
      /\ Range(rows') = visible
      /\ \A i, j \in DOMAIN rows' : i < j => seq'[rows'[i]] < seq'[rows'[j]]
      /\ stubs' = DOMAIN log \ numbers
      /\ head' = [p \in Path |-> IF p \in Readable THEN Latest(p) ELSE NoCommit]
      /\ objects' = (UNION {{content[c][p] : p \in Files(c)} : c \in visible}) \ {Deleted}
      /\ disk' = [p \in Path |-> IF head'[p] = NoCommit THEN Deleted ELSE content[head'[p]][p]]
      /\ staged' = NothingStaged /\ mergeParent' = NoCommit /\ unresolved' = {}
      /\ cmd = Idle /\ UNCHANGED <<base, content, parent, log, cmd>>
  BY DEF RunClone, commitVars
<1>2. /\ DOMAIN log = 1 .. Len(log) /\ Len(log) \in Nat /\ numbers \subseteq DOMAIN log
      /\ \A n \in DOMAIN log : log[n] \in Commit /\ log[n] \in Range(log)
      /\ visible \subseteq Commit /\ visible \subseteq Range(log)
  BY Typed
<1>7. Cardinality(visible) \in Nat
  <2>1. IsFiniteSet(DOMAIN log)
    BY <1>2, FS_Interval
  <2>2. IsFiniteSet(numbers)
    BY <1>2, <2>1, FS_Subset
  <2>3. [n \in numbers |-> log[n]] \in Surjection(numbers, visible)
    BY DEF Surjection
  <2>4. IsFiniteSet(visible)
    <3> HIDE DEF numbers, visible
    <3> QED
      BY <2>2, <2>3, FS_Surjection
  <2> QED
    BY <2>4, FS_CardinalityType
<1>24. /\ \A n : n \in numbers <=> n \in DOMAIN log /\ Files(log[n]) # {}
       /\ \A c : c \in visible <=> \E n \in numbers : log[n] = c
  BY Zenon
<1>25. \A x : x \in objects' <=> x # Deleted /\ \E c \in visible : \E p \in Files(c) : x = content[c][p]
  <2> HIDE DEF visible
  <2> DEFINE all == {{content[c][p] : p \in Files(c)} : c \in visible}
  <2>1. objects' = (UNION all) \ {Deleted}
    BY <1>1, Zenon
  <2>2. ASSUME NEW x \in UNION all
        PROVE  \E c \in visible : \E p \in Files(c) : x = content[c][p]
    <3>1. PICK T \in all : x \in T
      BY <2>2
    <3>2. PICK c \in visible : T = {content[c][p] : p \in Files(c)}
      BY <3>1
    <3> QED
      BY <3>1, <3>2
  <2>3. ASSUME NEW c \in visible, NEW p \in Files(c)
        PROVE  content[c][p] \in UNION all
    <3>1. {content[c][q] : q \in Files(c)} \in all
      BY Zenon
    <3>2. content[c][p] \in {content[c][q] : q \in Files(c)}
      BY Zenon
    <3> QED
      BY <3>1, <3>2
  <2>4. \A x : x \in objects' <=> x \in UNION all /\ x # Deleted
    <3> HIDE DEF all
    <3> QED
      BY <2>1
  <2>5. ASSUME NEW x, x \in objects'
        PROVE  x # Deleted /\ \E c \in visible : \E p \in Files(c) : x = content[c][p]
    <3> HIDE DEF all
    <3> QED
      BY <2>2, <2>4, <2>5
  <2>6. ASSUME NEW c \in visible, NEW p \in Files(c), content[c][p] # Deleted
        PROVE  content[c][p] \in objects'
    <3> HIDE DEF all
    <3> QED
      BY <2>3, <2>4, <2>6
  <2> QED
    BY <2>5, <2>6
<1> HIDE DEF numbers, visible
<1>3. \A m, n \in DOMAIN log : log[m] = log[n] => m = n
  BY DEF TablesInv, LogInv, Once
<1>4. \A c \in visible : seq'[c] \in numbers /\ log[seq'[c]] = c
  <2> SUFFICES ASSUME NEW c \in visible PROVE seq'[c] \in numbers /\ log[seq'[c]] = c
    OBVIOUS
  <2>1. \E n \in numbers : log[n] = c
    BY <1>24
  <2>2. seq'[c] = CHOOSE n \in numbers : log[n] = c
    BY <1>1, <1>2, Zenon
  <2> QED
    BY <2>1, <2>2, Zenon
<1>5. \A c \in Commit : c \notin visible => seq'[c] = 0
  BY <1>1
<1>6. \A n \in numbers : log[n] \in visible /\ seq'[log[n]] = n
  <2> SUFFICES ASSUME NEW n \in numbers PROVE log[n] \in visible /\ seq'[log[n]] = n
    OBVIOUS
  <2>1. log[n] \in visible
    BY <1>24
  <2> QED
    BY <1>2, <1>3, <1>4, <2>1
<1>8. rows' \in Seq(Commit) /\ DOMAIN rows' = 1 .. Cardinality(visible) /\ \A i \in DOMAIN rows' : rows'[i] \in visible
  <2>1. rows' \in [1 .. Cardinality(visible) -> Commit]
    <3> QED
      BY <1>1, <1>2
  <2> QED
    BY <1>1, <1>7, <2>1
<1>9. RowsOnce'
  <2> SUFFICES ASSUME NEW i \in DOMAIN rows', NEW j \in DOMAIN rows', rows'[i] = rows'[j]
               PROVE  i = j
    BY DEF RowsOnce
  <2>1. i \in Int /\ j \in Int /\ seq'[rows'[i]] \in Int
    <3>1. rows'[i] \in visible
      BY <1>8
    <3>2. seq'[rows'[i]] \in DOMAIN log
      BY <1>2, <1>4, <3>1
    <3> QED
      BY <1>2, <1>7, <1>8, <3>2
  <2>2. ~ (i < j) /\ ~ (j < i)
    <3>1. \A k, l \in DOMAIN rows' : k < l => seq'[rows'[k]] < seq'[rows'[l]]
      BY <1>1
    <3> QED
      BY <2>1, <3>1
  <2> QED
    BY <2>1, <2>2
<1>10. Range(rows)' = visible
  BY <1>1
<1>11. \A c \in Commit : (Confirmed(c)' <=> c \in visible) /\ ~ Absorbed(c)' /\ seq'[c] \in Int
  BY <1>2, <1>4, <1>5 DEF Confirmed, Absorbed
<1>12. AllUnpushed' = {}
  BY <1>2, <1>4, <1>10 DEF AllUnpushed, Unpushed
<1>13. \A c : Files(c)' = Files(c) /\ Changes(c)' = Changes(c) /\ (IsMade(c)' <=> IsMade(c))
  BY <1>1 DEF Files, Changes, IsMade
<1>14. ASSUME NEW p \in Readable
       PROVE  /\ p \in Path /\ head'[p] = Latest(p)
              /\ \/ Latest(p) = NoCommit /\ \A n \in DOMAIN log : p \notin Files(log[n])
                 \/ \E n \in numbers : /\ Latest(p) = log[n] /\ p \in Files(log[n])
                                       /\ \A k \in DOMAIN log : p \in Files(log[k]) => k <= n
  <2>1. p \in Path /\ \A c : p \in Files(c) <=> p \in Changes(c)
    BY CloneConstants DEF Files
  <2>2. log \in Seq(Commit)
    BY Typed
  <2>3. \/ Latest(p) = NoCommit /\ \A n \in DOMAIN log : p \notin Changes(log[n])
        \/ \E n \in DOMAIN log : /\ Latest(p) = log[n] /\ p \in Changes(log[n])
                                 /\ \A k \in DOMAIN log : p \in Changes(log[k]) => k <= n
    BY <2>2, LatestIs
  <2>4. \A n \in DOMAIN log : p \in Files(log[n]) => n \in numbers
    BY <1>24
  <2>5. head'[p] = Latest(p)
    BY <1>1, <2>1
  <2> QED
    BY <2>1, <2>3, <2>4, <2>5
<1>15. ASSUME NEW p \in Path
       PROVE  /\ head'[p] \in Commit \cup {NoCommit}
              /\ head'[p] # NoCommit => p \in Readable /\ head'[p] \in visible /\ p \in Files(head'[p])
  <2>1. CASE p \in Readable
    BY <1>2, <1>6, <1>14, <2>1
  <2>2. CASE p \notin Readable
    BY <1>1, <2>2
  <2> QED
    BY <2>1, <2>2
<1>16. TypeOK'
  <2>1. /\ base \in [Commit -> [Path -> Commit \cup {NoCommit, Untouched}]] /\ log \in Seq(Commit)
        /\ content \in [Commit -> [Path -> Contents]] /\ parent \in [Commit -> Commit \cup {NoCommit}]
    BY Typed
  <2>2. seq' \in [Commit -> Int]
    BY <1>1, <1>11
  <2>3. stubs' \subseteq Nat
    BY <1>1, <1>2
  <2>4. head' \in [Path -> Commit \cup {NoCommit}]
    BY <1>1, <1>15
  <2>5. objects' \subseteq Text
    <3>1. \A c \in visible : \A p \in Files(c) : content[c][p] \in Contents
      BY <1>2, <2>1, Typed
    <3> QED
      BY <1>25, <3>1 DEF Contents
  <2>6. disk' \in [Path -> Contents]
    <3>1. \A p \in Path : head'[p] # NoCommit => content[head'[p]][p] \in Contents
      BY <1>15, <2>1
    <3> QED
      BY <1>1, <3>1 DEF Contents
  <2>7. staged' \in [Path -> Entry \cup {NotStaged}]
    BY <1>1 DEF NothingStaged
  <2>8. cmd' \in Step
    BY <1>1 DEF TypeOK
  <2>9. StoreTypeOK'
    BY <1>1, <1>8, <2>1, <2>2, <2>3, <2>4, <2>5 DEF StoreTypeOK, Contents
  <2> QED
    BY <1>1, <2>6, <2>7, <2>8, <2>9 DEF TypeOK, Contents, Entry, Step
<1>17. LogInv'
  BY <1>1 DEF TablesInv, LogInv, Once, LogLinear, IsMade, Changes
<1>18. RowsInv'
  <2>1. \A c \in Range(rows)' : IsMade(c)' /\ Confirmed(c)'
    BY <1>2, <1>10, <1>11, <1>13, LogMade
  <2>2. \A c \in Commit : seq'[c] # 0 => Stored(c)'
    BY <1>5, <1>10 DEF Stored
  <2> QED
    BY <1>9, <2>1, <2>2 DEF RowsInv
<1>19. NumbersInv'
  <2>1. \A c \in Commit : Confirmed(c)' => seq'[c] \in DOMAIN log /\ log[seq'[c]] = c
    BY <1>2, <1>4, <1>11
  <2>2. NumbersAgree'
    BY <1>1, <2>1 DEF NumbersAgree
  <2>3. \A c, d \in Commit : Confirmed(c)' /\ seq'[c] = seq'[d] => c = d
    <3> SUFFICES ASSUME NEW c \in Commit, NEW d \in Commit, Confirmed(c)', seq'[c] = seq'[d] PROVE c = d
      OBVIOUS
    <3>1. Confirmed(d)'
      BY DEF Confirmed
    <3> QED
      BY <2>1, <3>1
  <2>4. (stubs \subseteq DOMAIN log)'
    BY <1>1
  <2> QED
    BY <1>1, <2>1, <2>2, <2>3, <2>4 DEF NumbersInv
<1>20. HeadInv'
  <2>1. \A p \in Path : head'[p] # NoCommit => Stored(head[p])' /\ p \in Files(head[p])'
    BY <1>10, <1>13, <1>15 DEF Stored, Files, Changes
  <2>2. \A c \in Range(rows)' : Confirmed(c)'
    BY <1>2, <1>10, <1>11
  <2>3. ASSUME NEW p \in Path, NEW c \in Range(rows)', p \in Files(c)
        PROVE  head'[p] # NoCommit /\ seq'[c] <= seq'[head'[p]]
    <3>1. p \in Readable /\ c \in visible /\ seq'[c] \in DOMAIN log /\ log[seq'[c]] = c
      BY <1>2, <1>4, <1>10, <2>3, Typed
    <3>2. PICK n \in numbers : head'[p] = log[n] /\ \A k \in DOMAIN log : p \in Files(log[k]) => k <= n
      BY <1>14, <2>3, <3>1
    <3>3. log[n] # NoCommit /\ seq'[log[n]] = n
      BY <1>2, <1>6, CloneConstants
    <3> QED
      BY <2>3, <3>1, <3>2, <3>3
  <2>4. HeadNotBehind'
    BY <1>13, <2>3 DEF HeadNotBehind
  <2> QED
    BY <1>12, <2>1, <2>2, <2>4 DEF HeadInv
<1>21. GapInv'
  <2>1. \A n \in DOMAIN log : Accounted(n)'
    <3> SUFFICES ASSUME NEW n \in DOMAIN log PROVE n \in stubs' \/ log[n] \in Range(rows)'
      BY <1>1 DEF Accounted
    <3> QED
      BY <1>1, <1>6, <1>10
  <2>2. \A c \in Commit : \A n \in 1 .. seq'[c] : n \in DOMAIN log
    BY <1>2, <1>4, <1>5
  <2>3. \A m \in stubs' : \A n \in 1 .. m : n \in DOMAIN log
    BY <1>1, <1>2
  <2> QED
    BY <2>1, <2>2, <2>3 DEF GapInv, Cause
<1>22. TablesInv'
  BY <1>12, <1>17, <1>18, <1>19, <1>20, <1>21 DEF TablesInv, ParentsInv
<1>23. LocalInv'
  <2>1. StagedInv' /\ MergeParentInv'
    BY <1>1 DEF StagedInv, MergeParentInv, NothingStaged
  <2>2. DiskInv'
    BY <1>1, <1>15 DEF DiskInv
  <2>3. \A c \in Range(rows)' : \A p \in Files(c)' : content'[c][p] \in objects' \cup {Deleted}
    BY <1>1, <1>10, <1>13, <1>25
  <2>4. ContentLocal'
    BY <1>1, <2>3 DEF ContentLocal, NothingStaged
  <2> QED
    BY <2>1, <2>2, <2>4 DEF LocalInv
<1> QED
  BY <1>12, <1>16, <1>22, <1>23

\* A clone's own commit that matches the server's latest versions has not been
\* overtaken.
LEMMA HeadUnconfirmed ==
  ASSUME TypeOK, TablesInv, NEW c \in AllUnpushed, BasesMatch(c), NEW p \in Files(c)
  PROVE  head[p] # NoCommit /\ ~ Confirmed(head[p])
<1>1. /\ head[p] # NoCommit
      /\ Confirmed(head[p]) => Overtaken(c, p)
  BY LogMade DEF TablesInv, HeadInv, UnpushedBelowHead
<1> SUFFICES ASSUME Confirmed(head[p]) PROVE FALSE
  BY <1>1
<1>2. p \in Path /\ base[c][p] = Latest(p)
  BY Typed DEF BasesMatch
<1>3. PICK h \in Commit : h = head[p]
  BY <1>1, <1>2, Typed
<1>4. Confirmed(h) /\ p \in Files(h)
  BY <1>1, <1>2, <1>3 DEF TablesInv, HeadInv
<1>5. seq[h] \in DOMAIN log /\ base[log[seq[h]]] = base[h]
  BY <1>4 DEF TablesInv, NumbersInv, NumbersAgree
<1>6. p \in Changes(log[seq[h]])
  BY <1>4, <1>5 DEF Files, Changes
<1>7. log \in Seq(Commit)
  BY Typed
<1>8. PICK n \in DOMAIN log : Latest(p) = log[n] /\ seq[h] <= n
  BY <1>5, <1>6, <1>7, LatestIs
<1>9. n >= seq[h]
  BY <1>5, <1>8, Typed
<1> QED
  BY <1>1, <1>2, <1>3, <1>8, <1>9 DEF Overtaken

\* What a commit starts from exists already.
LEMMA BasesMade ==
  ASSUME TypeOK, TablesInv, NEW c \in AllUnpushed, NEW p \in Files(c), NEW d \in Commit, d = base[c][p]
  PROVE  IsMade(d) /\ p \in Files(d) /\ Stored(d) /\ Rowid(d) < Rowid(c)
<1>1. StartsFromStored(c) /\ d # NoCommit
  BY LogMade, CloneConstants DEF TablesInv, HeadInv, Stored
<1>2. p \in Files(d) /\ Stored(d) /\ Rowid(d) < Rowid(c)
  BY <1>1 DEF StartsFromStored
<1> QED
  BY <1>2, LogMade DEF Stored

\* The index and the working tree are as good with more rows and objects.
LEMMA LocalGrows ==
  ASSUME TypeOK, TablesInv, LocalInv, MadeStay, UNCHANGED <<staged, mergeParent, disk>>,
         objects \subseteq objects', Range(log) \subseteq Range(log)', Range(rows) \subseteq Range(rows)',
         \A c \in Range(rows)' \ Range(rows) : \A p \in Files(c)' : content'[c][p] \in objects' \cup {Deleted}
  PROVE  LocalInv'
<1>1. \A c \in Range(rows) : Files(c)' = Files(c) /\ content'[c] = content[c]
  BY LogMade, MadeSame
<1>2. StagedInv'
  <2> SUFFICES ASSUME NEW p \in Path, staged[p] # NotStaged
               PROVE  /\ p \in Readable
                      /\ \A b : b = staged[p].base /\ b # NoCommit => b \in Range(rows)' /\ p \in Files(b)'
    BY DEF StagedInv, Stored, Files, Changes
  <2> QED
    BY <1>1 DEF LocalInv, StagedInv, Stored
<1>3. DiskInv'
  BY DEF LocalInv, DiskInv
<1>4. MergeParentInv'
  BY DEF LocalInv, MergeParentInv, Stored
<1>5. ContentLocal'
  <2>1. \A c \in Range(rows)' : \A p \in Files(c)' : content'[c][p] \in objects' \cup {Deleted}
    BY <1>1 DEF LocalInv, ContentLocal
  <2>2. \A p \in Path : staged[p] # NotStaged => staged[p].text \in objects' \cup {Deleted}
    BY DEF LocalInv, ContentLocal
  <2> QED
    BY <2>1, <2>2 DEF ContentLocal
<1> QED
  BY <1>2, <1>3, <1>4, <1>5 DEF LocalInv

\* What was unpushed, and what the log had, is the same once the log has grown.
LEMMA NumbersGrow ==
  ASSUME TypeOK, TablesInv, MadeStay, UNCHANGED <<rows, seq, stubs>>,
         NEW d \in Commit, log' = Append(log, d)
  PROVE  /\ AllUnpushed' = AllUnpushed
         /\ \A c \in AllUnpushed : /\ base'[c] = base[c] /\ content'[c] = content[c] /\ parent'[c] = parent[c]
                                   /\ Files(c)' = Files(c) /\ c \in Commit /\ IsMade(c)
         /\ \A n \in DOMAIN log : /\ n \in DOMAIN log' /\ log'[n] = log[n] /\ Files(log[n])' = Files(log[n])
                                  /\ content'[log[n]] = content[log[n]] /\ base'[log[n]] = base[log[n]]
                                  /\ (Cause(n) => Cause(n)')
         /\ DOMAIN log' = 1 .. Len(log) + 1 /\ log'[Len(log) + 1] = d /\ Range(log)' = Range(log) \cup {d}
<1>1. /\ DOMAIN log = 1 .. Len(log) /\ Len(log) \in Nat /\ DOMAIN log' = 1 .. Len(log) + 1
      /\ \A n \in DOMAIN log : log'[n] = log[n] /\ log[n] \in Commit /\ IsMade(log[n])
      /\ log'[Len(log) + 1] = d /\ Range(log)' = Range(log) \cup {d}
  BY Typed, LogAppended, LogMade
<1>2. AllUnpushed' = AllUnpushed
  BY DEF AllUnpushed, Unpushed, Stored
<1>3. \A c \in AllUnpushed : /\ base'[c] = base[c] /\ content'[c] = content[c] /\ parent'[c] = parent[c]
                             /\ Files(c)' = Files(c) /\ c \in Commit /\ IsMade(c)
  BY LogMade, MadeSame DEF Stored
<1>4. ASSUME NEW n \in DOMAIN log
      PROVE  /\ Files(log[n])' = Files(log[n])
             /\ content'[log[n]] = content[log[n]] /\ base'[log[n]] = base[log[n]]
             /\ (Cause(n) => Cause(n)')
  <2>1. PICK e \in Commit : e = log[n] /\ IsMade(e)
    BY <1>1
  <2>2. Files(e)' = Files(e) /\ content'[e] = content[e] /\ base'[e] = base[e]
    BY <2>1, MadeSame
  <2>3. Files(log[n])' = Files(log[n])
    BY <1>1, <2>1, <2>2 DEF Files, Changes
  <2>4. n \in Nat \ {0}
    BY <1>1
  <2>5. Cause(n) => Cause(n)'
    BY <1>1, <2>4, CauseStays
  <2> QED
    BY <2>1, <2>2, <2>3, <2>5
<1> QED
  BY <1>1, <1>2, <1>3, <1>4

-----------------------------------------------------------------------------
(* The server's log grows.                                                 *)

\* Another clone's commit starts from the latest versions.
LEMMA OthersKeepTables ==
  ASSUME TypeOK, TablesInv, NEW c \in Commit, OthersPush(c)
  PROVE  TypeOK' /\ TablesInv' /\ MadeStay /\ ~ IsMade(c) /\ log' = Append(log, c) /\ UNCHANGED <<localVars, cmd>>
<1>1. PICK f \in [Path -> Contents \cup {Untouched}] :
        /\ \E p \in Path : f[p] # Untouched
        /\ base' = [base EXCEPT ![c] = [p \in Path |-> IF f[p] = Untouched THEN Untouched ELSE Latest(p)]]
        /\ content' = [content EXCEPT ![c] = [p \in Path |-> IF f[p] = Untouched THEN Deleted ELSE f[p]]]
  BY DEF OthersPush
<1>2. PICK q \in Range(log) \cup {NoCommit} : parent' = [parent EXCEPT ![c] = q]
  BY DEF OthersPush
<1>3. ~ IsMade(c) /\ log' = Append(log, c) /\ UNCHANGED <<localVars, cmd>>
  BY DEF OthersPush, IsMade
<1>4. UNCHANGED <<rows, seq, stubs, head, objects, staged, mergeParent, unresolved, disk, cmd>>
  BY <1>3 DEF localVars, storeVars, indexVars
<1>5. \A p \in Path : Latest(p) \in Commit \cup {NoCommit}
  <2> SUFFICES ASSUME NEW p \in Path PROVE Latest(p) \in Commit \cup {NoCommit}
    OBVIOUS
  <2>1. log \in Seq(Commit) /\ \A n \in DOMAIN log : log[n] \in Commit
    BY Typed
  <2> QED
    BY <2>1, LatestIs
<1>6. /\ base'[c] = [p \in Path |-> IF f[p] = Untouched THEN Untouched ELSE Latest(p)]
      /\ content'[c] = [p \in Path |-> IF f[p] = Untouched THEN Deleted ELSE f[p]]
      /\ \A d \in Commit : d # c => base'[d] = base[d] /\ content'[d] = content[d] /\ parent'[d] = parent[d]
  BY <1>1, <1>2, Typed
<1>7. TypeOK'
  <2>1. base'[c] \in [Path -> Commit \cup {NoCommit, Untouched}]
    BY <1>5, <1>6
  <2>2. base' \in [Commit -> [Path -> Commit \cup {NoCommit, Untouched}]]
    <3> DEFINE T == [Path -> Commit \cup {NoCommit, Untouched}]
               t == [p \in Path |-> IF f[p] = Untouched THEN Untouched ELSE Latest(p)]
    <3>1. base \in [Commit -> T] /\ t \in T /\ base' = [base EXCEPT ![c] = t]
      BY <1>1, <1>6, <2>1, Typed
    <3> HIDE DEF T, t
    <3>2. base' \in [Commit -> T]
      BY <3>1
    <3> QED
      BY <3>2 DEF T
  <2>3. content' \in [Commit -> [Path -> Contents]]
    <3> DEFINE t == [p \in Path |-> IF f[p] = Untouched THEN Deleted ELSE f[p]]
    <3>1. t \in [Path -> Contents]
      BY DEF Contents
    <3>2. content \in [Commit -> [Path -> Contents]] /\ content' = [content EXCEPT ![c] = t]
      BY <1>1, Typed
    <3> HIDE DEF t
    <3> QED
      BY <3>1, <3>2
  <2>4. parent' \in [Commit -> Commit \cup {NoCommit}] /\ log' \in Seq(Commit)
    BY <1>2, <1>3, Typed
  <2> QED
    BY <1>4, <2>2, <2>3, <2>4 DEF TypeOK, StoreTypeOK, Contents, Entry, Step
<1>8. MadeStay
  BY <1>3, <1>6 DEF MadeStay
<1>9. IsMade(c)' /\ \A p \in Changes(c)' : base'[c][p] = Latest(p)
  <2>1. \A p \in Path : f[p] # Untouched => base'[c][p] = Latest(p) /\ base'[c][p] # Untouched
    BY <1>5, <1>6, CloneConstants
  <2>2. \A p \in Path : f[p] = Untouched => base'[c][p] = Untouched
    BY <1>6
  <2> QED
    BY <1>1, <2>1, <2>2 DEF IsMade, Changes
<1>10. c \notin Range(log)
  BY <1>3, LogMade
<1>11. \A d \in Commit : Confirmed(d) => d # c
  BY <1>3, LogMade
<1>12. \A d \in AllUnpushed : \A p \in Files(d) : Confirmed(head[p]) => c # base[d][p]
  BY <1>3, BasesMade
<1>13. TablesInv'
  BY <1>3, <1>4, <1>7, <1>8, <1>9, <1>10, <1>11, <1>12, LogGrows
<1> QED
  BY <1>3, <1>7, <1>8, <1>13

\* A push by another clone, between any two steps of a command.
LEMMA OthersKeep ==
  ASSUME Inv, NEW c \in Commit, OthersPush(c)
  PROVE  Inv'
<1>1. TypeOK /\ TablesInv /\ LocalInv /\ CommandInv
  BY DEF Inv
<1>2. TypeOK' /\ TablesInv' /\ MadeStay /\ ~ IsMade(c) /\ log' = Append(log, c) /\ UNCHANGED <<localVars, cmd>>
  BY <1>1, OthersKeepTables
<1>3. UNCHANGED <<rows, seq, stubs, head, objects, staged, mergeParent, unresolved, disk, cmd>>
  BY <1>2 DEF localVars, storeVars, indexVars
<1>4. /\ AllUnpushed' = AllUnpushed
      /\ \A e \in AllUnpushed : /\ base'[e] = base[e] /\ content'[e] = content[e] /\ parent'[e] = parent[e]
                                /\ Files(e)' = Files(e) /\ e \in Commit /\ IsMade(e)
      /\ \A n \in DOMAIN log : /\ n \in DOMAIN log' /\ log'[n] = log[n] /\ Files(log[n])' = Files(log[n])
                               /\ content'[log[n]] = content[log[n]] /\ base'[log[n]] = base[log[n]]
                               /\ (Cause(n) => Cause(n)')
      /\ DOMAIN log' = 1 .. Len(log) + 1 /\ log'[Len(log) + 1] = c /\ Range(log)' = Range(log) \cup {c}
  BY <1>1, <1>2, <1>3, NumbersGrow
<1>5. LocalInv'
  <2>1. objects \subseteq objects' /\ Range(log) \subseteq Range(log)' /\ Range(rows)' = Range(rows)
    BY <1>3, <1>4
  <2> QED
    BY <1>1, <1>2, <1>3, <2>1, LocalGrows
<1>6. ChainInv'
  <2>1. \A x : Rowid(x)' = Rowid(x)
    BY <1>3 DEF Rowid
  <2> QED
    BY <1>1, <1>3, <1>4, <2>1 DEF CommandInv, ChainInv
<1>7. AnswerInv'
  <2> SUFFICES ASSUME cmd.step = "confirm" PROVE AnswerInv'
    BY <1>3 DEF AnswerInv
  <2> DEFINE N == cmd.number
  <2>1. PICK e \in AllUnpushed : e = NextToPush /\ e \in Commit /\ IsMade(e)
    BY <1>1, <1>4, NextIs DEF CommandInv
  <2>2. NextToPush' = e
    BY <1>3, <2>1 DEF NextToPush, Oldest
  <2>3. /\ N \in DOMAIN log /\ \A x \in Commit : seq[x] < N
        /\ base[log[N]] = base[e] /\ content[log[N]] = content[e]
        /\ log[N] # e => e \notin Range(log) /\ parent[e] \in Range(log) /\ Absorbed(parent[e])
        /\ \A p \in Files(e) :
             /\ ~ Confirmed(head[p])
             /\ head[p] = e => \A x \in AllUnpushed \ {e} : p \in Files(x) =>
                  \A n \in DOMAIN log : n >= N => log[n] # base[x][p]
    BY <1>1, <2>1 DEF CommandInv, AnswerInv
  <2>4. \A x \in AllUnpushed : \A p \in Files(x) : c # base[x][p]
    BY <1>1, <1>2, BasesMade
  <2>5. \A p \in Files(e) : \A x \in AllUnpushed \ {e} : p \in Files(x) /\ head[p] = e =>
          \A n \in DOMAIN log' : n >= N => log'[n] # base'[x][p]
    <3> SUFFICES ASSUME NEW p \in Files(e), NEW x \in AllUnpushed \ {e}, p \in Files(x), head[p] = e,
                        NEW n \in DOMAIN log', n >= N
                 PROVE  log'[n] # base'[x][p]
      OBVIOUS
    <3>1. n \in DOMAIN log \/ log'[n] = c
      <4>1. DOMAIN log = 1 .. Len(log) /\ Len(log) \in Nat
        BY <1>1, Typed
      <4>2. DOMAIN log' = 1 .. Len(log) + 1 /\ log'[Len(log) + 1] = c
        BY <1>4
      <4> QED
        BY <4>1, <4>2
    <3> QED
      BY <1>4, <2>3, <2>4, <3>1
  <2>6. e \notin Range(log) => e \notin Range(log)'
    BY <1>2, <1>4, <2>1
  <2>7. parent'[e] = parent[e] /\ (Absorbed(parent[e]) => Absorbed(parent[e])')
    BY <1>3, <1>4, <2>1 DEF Absorbed
  <2>8. /\ N \in DOMAIN log' /\ \A x \in Commit : seq'[x] < N
        /\ base'[log'[N]] = base'[e] /\ content'[log'[N]] = content'[e]
        /\ log'[N] # e => e \notin Range(log)' /\ parent'[e] \in Range(log)' /\ Absorbed(parent[e])'
        /\ \A p \in Files(e)' :
             /\ ~ Confirmed(head[p])'
             /\ head'[p] = e => \A x \in AllUnpushed' \ {e} : p \in Files(x)' =>
                  \A n \in DOMAIN log' : n >= N => log'[n] # base'[x][p]
    <3>1. base'[log'[N]] = base'[e] /\ content'[log'[N]] = content'[e] /\ N \in DOMAIN log'
      BY <1>4, <2>1, <2>3
    <3>2. log'[N] # e => e \notin Range(log)' /\ parent'[e] \in Range(log)' /\ Absorbed(parent[e])'
      BY <1>4, <2>3, <2>6, <2>7
    <3>3. \A p \in Files(e) : ~ Confirmed(head[p])'
      BY <1>3, <2>3 DEF Confirmed
    <3> QED
      BY <1>3, <1>4, <2>1, <2>3, <2>5, <3>1, <3>2, <3>3
  <2> QED
    BY <1>3, <2>2, <2>8 DEF AnswerInv
<1>8. AbsorbsOlder'
  BY <1>1, <1>3 DEF CommandInv, AbsorbsOlder, Confirmed, Unpushed, Stored, Rowid
<1>9. PullInv'
  <2> SUFFICES ASSUME cmd.step \in PullStep PROVE PullInv'
    BY <1>3 DEF PullInv
  <2>1. /\ cmd.from \in Nat \ {0} /\ cmd.upto \in Nat /\ cmd.next \in Nat
        /\ cmd.upto <= Len(log) /\ DOMAIN log = 1 .. Len(log) /\ Len(log) \in Nat
    BY <1>1, Typed DEF TypeOK, Step, PullStep, CommandInv, PullInv
  <2>2. Fetched' = Fetched /\ Fetched \subseteq DOMAIN log /\ \A n \in Fetched : Files(log[n])' = Files(log[n])
    BY <1>3, <1>4, <2>1 DEF Fetched
  <2>3. Visible' = Visible /\ NewFiles' = NewFiles
    BY <2>2 DEF Visible, NewFiles
  <2>4. \A k : (StubbedTo(k) => StubbedTo(k)') /\ (NumberedTo(k) => NumberedTo(k)')
    BY <1>3, <2>3 DEF StubbedTo, NumberedTo
  <2>5. \A k \in Int : k <= cmd.upto + 1 /\ StoredTo(k) => StoredTo(k)'
    BY <1>3, <1>4, <2>1, <2>3 DEF StoredTo, Stored
  <2>6. FetchedLocal => FetchedLocal'
    BY <1>3, <1>4, <2>2 DEF FetchedLocal
  <2>7. \A n \in 1 .. cmd.from - 1 : Cause(n) => Cause(n)'
    BY <1>1, <1>4, <2>1 DEF CommandInv, PullInv
  <2>8. Len(log') = Len(log) + 1
    BY <1>1, <1>2, LogAppended, Typed
  <2> QED
    BY <1>1, <1>3, <2>1, <2>3, <2>4, <2>5, <2>6, <2>7, <2>8 DEF CommandInv, PullInv, PullStep
<1>10. ResetInv'
  BY <1>1, <1>3, <1>4 DEF CommandInv, ResetInv
<1> QED
  BY <1>2, <1>5, <1>6, <1>7, <1>8, <1>9, <1>10 DEF Inv, CommandInv

-----------------------------------------------------------------------------
(* push.                                                                   *)

\* The fields that the command in progress has.
LEMMA StepIs ==
  ASSUME TypeOK
  PROVE  /\ cmd.step \in {"send", "confirm"} =>
              cmd \in [step : {"send", "confirm"}, todo : SUBSET Commit, number : Nat]
         /\ cmd.step \in PullStep =>
              cmd \in [step : PullStep, from : Nat \ {0}, upto : Nat, next : Nat,
                       ours : Commit \cup {NoCommit}, paths : SUBSET Path]
         /\ cmd.step \in {"repoint", "restore"} =>
              cmd \in [step : {"repoint", "restore"}, todo : SUBSET Path, affected : SUBSET Path]
BY DEF TypeOK, Step, PullStep

\* A command that has ended has nothing to keep.
LEMMA NoCommand ==
  ASSUME cmd'.step \in {"idle", "clear", "clearMerge"}
  PROVE  CommandInv'
BY DEF CommandInv, ChainInv, AnswerInv, AbsorbsOlder, PullInv, ResetInv, PullStep

\* LocalInv reads no number and no stub.
LEMMA LocalSame ==
  ASSUME LocalInv, UNCHANGED <<commitVars, rows, objects, indexVars, disk>>
  PROVE  LocalInv'
<1>1. UNCHANGED <<base, content, parent, log, rows, objects, staged, mergeParent, unresolved, disk>>
  BY DEF commitVars, indexVars
<1> QED
  BY <1>1 DEF LocalInv, StagedInv, DiskInv, MergeParentInv, ContentLocal, Stored, Files, Changes

\* A step that leaves the tables alone.
LEMMA TablesUntouched ==
  ASSUME TypeOK, TablesInv, UNCHANGED <<commitVars, rows, seq, stubs, head>>
  PROVE  TablesInv' /\ AllUnpushed' = AllUnpushed /\ \A c : Rowid(c)' = Rowid(c)
<1>1. UNCHANGED <<log, rows, seq, stubs>>
  BY DEF commitVars
<1>2. TablesInv'
  <2>1. (stubs \subseteq DOMAIN log)'
    BY <1>1 DEF TablesInv, NumbersInv
  <2>2. GapInv'
    BY <1>1 DEF TablesInv, GapInv, Cause, Accounted
  <2> QED
    BY <2>1, <2>2, TablesSame DEF TablesInv
<1> QED
  BY <1>2 DEF AllUnpushed, Unpushed, Stored, Rowid

\* The chain holds the newest unpushed commit, and the parents of what it holds.
LEMMA ChainIs ==
  ASSUME TypeOK, TablesInv, UnpushedChain # {}
  PROVE  /\ UnpushedChain \subseteq AllUnpushed
         /\ \A c \in UnpushedChain : parent[c] \in AllUnpushed => parent[c] \in UnpushedChain
         /\ \A c \in AllUnpushed : \E d \in UnpushedChain : Rowid(c) <= Rowid(d)
<1> DEFINE Closed(S) == NewestUnpushed \in S /\ \A c \in S : parent[c] \in AllUnpushed => parent[c] \in S
<1>1. UnpushedChain = {c \in AllUnpushed : \A S \in SUBSET AllUnpushed : Closed(S) => c \in S}
  BY DEF UnpushedChain
<1>2. AllUnpushed \subseteq Range(rows) /\ AllUnpushed # {} /\ rows \in Seq(Commit) /\ RowsOnce
  BY <1>1, Typed DEF AllUnpushed, TablesInv, RowsInv
<1>3. NewestUnpushed \in AllUnpushed /\ \A c \in AllUnpushed : Rowid(c) <= Rowid(NewestUnpushed)
  BY <1>2, NewestIs DEF NewestUnpushed
<1>4. NewestUnpushed \in UnpushedChain
  BY <1>1, <1>3
<1>5. ASSUME NEW c \in UnpushedChain, parent[c] \in AllUnpushed
      PROVE  parent[c] \in UnpushedChain
  <2>1. ASSUME NEW S \in SUBSET AllUnpushed, Closed(S)
        PROVE  parent[c] \in S
    <3>1. c \in S
      BY <1>1, <2>1
    <3> QED
      BY <1>5, <2>1, <3>1
  <2> QED
    BY <1>1, <1>5, <2>1
<1> QED
  BY <1>1, <1>3, <1>4, <1>5

\* A push starts with a chain that is closed under unpushed parents.
LEMMA RunPushKeeps ==
  ASSUME Inv, RunPush
  PROVE  Inv'
<1>1. TypeOK /\ TablesInv /\ LocalInv
  BY DEF Inv
<1>2. /\ UNCHANGED <<base, content, parent, log, rows, seq, stubs, head, objects, staged, mergeParent, unresolved, disk>>
      /\ cmd' = [step |-> "send", todo |-> UnpushedChain, number |-> 0] /\ UnpushedChain # {}
  BY DEF RunPush, commitVars, localVars, storeVars, indexVars
<1>3. TablesInv' /\ AllUnpushed' = AllUnpushed /\ \A c : Rowid(c)' = Rowid(c)
  BY <1>1, <1>2, TablesUntouched DEF commitVars
<1>4. LocalInv'
  BY <1>1, <1>2, LocalSame DEF commitVars, indexVars
<1>5. /\ UnpushedChain \subseteq AllUnpushed
      /\ \A c \in UnpushedChain : parent[c] \in AllUnpushed => parent[c] \in UnpushedChain
      /\ \A c \in AllUnpushed : \E d \in UnpushedChain : Rowid(c) <= Rowid(d)
  BY <1>1, <1>2, ChainIs
<1>6. cmd' \in Step
  <2>1. UnpushedChain \in SUBSET Commit
    BY <1>1, <1>5, LogMade
  <2> QED
    BY <1>2, <2>1 DEF Step
<1>7. TypeOK'
  BY <1>1, <1>2, <1>6 DEF TypeOK, StoreTypeOK
<1>8. ChainInv'
  BY <1>2, <1>3, <1>5 DEF ChainInv
<1>9. CommandInv'
  BY <1>2, <1>8 DEF CommandInv, AnswerInv, AbsorbsOlder, PullInv, ResetInv, PullStep
<1> QED
  BY <1>3, <1>4, <1>7, <1>9 DEF Inv

\* The commit that the server appends starts from the latest versions, under whichever id.
LEMMA PushOneKeepsTables ==
  ASSUME TypeOK, TablesInv, ChainInv, PushOne
  PROVE  /\ TypeOK' /\ TablesInv' /\ MadeStay /\ AllUnpushed' = AllUnpushed /\ UNCHANGED localVars
         /\ Range(log) \subseteq Range(log)'
         /\ cmd' = Idle \/ (cmd'.step = "confirm" /\ ChainInv' /\ AnswerInv')
<1>1. cmd.step = "send" /\ UNCHANGED localVars
      /\ UNCHANGED <<rows, seq, stubs, head, objects, staged, mergeParent, unresolved, disk>>
  BY DEF PushOne, localVars, storeVars, indexVars
<1>2. PICK c \in AllUnpushed : /\ c = NextToPush /\ c \in Commit /\ c \in Mine /\ c \in cmd.todo /\ c \in Range(rows)
                               /\ seq[c] = 0 /\ Stored(c) /\ IsMade(c)
                               /\ \A e \in cmd.todo : Rowid(c) <= Rowid(e)
  BY <1>1, NextIs, LogMade
<1>3. BasesMatch(c)
  BY <1>2 DEF PushOne
<1>4. PICK d \in Commit :
        /\ IF ParentSent(c) = parent[c] THEN d = c ELSE d \notin Mine /\ Changes(d) = {}
        /\ log' = Append(log, d)
        /\ base' = [base EXCEPT ![d] = base[c]]
        /\ content' = [content EXCEPT ![d] = content[c]]
        /\ parent' = [parent EXCEPT ![d] = ParentSent(c)]
  BY <1>2 DEF PushOne
<1>5. \/ cmd' = Idle
      \/ cmd' = [cmd EXCEPT !.step = "confirm", !.number = Len(log) + 1]
  BY DEF PushOne
<1>6. cmd \in [step : {"send", "confirm"}, todo : SUBSET Commit, number : Nat]
  BY <1>1, StepIs
<1>7. ParentSent(c) \in Commit \cup {NoCommit}
  BY <1>2, Typed DEF ParentSent
<1>8. /\ base'[d] = base[c] /\ content'[d] = content[c] /\ parent'[d] = ParentSent(c)
      /\ \A e \in Commit : e # d => base'[e] = base[e] /\ content'[e] = content[e] /\ parent'[e] = parent[e]
  BY <1>4, Typed
<1>9. TypeOK'
  <2>1. cmd' \in Step
    <3>1. Len(log) + 1 \in Nat
      BY Typed
    <3>2. cmd' = Idle \/ cmd' \in [step : {"send", "confirm"}, todo : SUBSET Commit, number : Nat]
      BY <1>5, <1>6, <3>1
    <3> QED
      BY <3>2 DEF Step, Idle
  <2>2. /\ base' \in [Commit -> [Path -> Commit \cup {NoCommit, Untouched}]]
        /\ content' \in [Commit -> [Path -> Contents]]
    <3> DEFINE T == [Path -> Commit \cup {NoCommit, Untouched}]
               C == [Path -> Contents]
    <3>1. base \in [Commit -> T] /\ content \in [Commit -> C]
      BY Typed
    <3> HIDE DEF T, C
    <3>2. base' \in [Commit -> T] /\ content' \in [Commit -> C]
      BY <1>2, <1>4, <3>1
    <3> QED
      BY <3>2 DEF T, C
  <2>3. parent' \in [Commit -> Commit \cup {NoCommit}] /\ log' \in Seq(Commit)
    BY <1>4, <1>7, Typed
  <2> QED
    BY <1>1, <2>1, <2>2, <2>3 DEF TypeOK, StoreTypeOK, Contents, Entry
<1>10. MadeStay
  <2> SUFFICES ASSUME NEW e \in Commit, IsMade(e)
               PROVE  base'[e] = base[e] /\ content'[e] = content[e] /\ parent'[e] = parent[e]
    BY DEF MadeStay
  <2> QED
    BY <1>4, <1>8 DEF IsMade
<1>11. c \notin Range(log)
  BY <1>2, <1>3, MatchesOnce DEF TablesInv
<1>12. d # c => ~ IsMade(d) /\ ParentSent(c) # parent[c]
  BY <1>4 DEF IsMade
<1>13. d \notin Range(log) /\ \A e \in Commit : Confirmed(e) => e # d
  BY <1>2, <1>11, <1>12, LogMade DEF Confirmed
<1>14. IsMade(d)' /\ Changes(d)' = Changes(c) /\ \A p \in Changes(d)' : base'[d][p] = Latest(p)
  <2>1. Changes(d)' = Changes(c)
    BY <1>8 DEF Changes
  <2> QED
    BY <1>2, <1>3, <1>8, <2>1 DEF IsMade, BasesMatch
<1>15. ASSUME NEW e \in AllUnpushed, NEW p \in Files(e), d = base[e][p]
       PROVE  d = c /\ p \in Files(c) /\ Rowid(c) < Rowid(e)
  <2>1. IsMade(d) /\ p \in Files(d) /\ Stored(d) /\ Rowid(d) < Rowid(e)
    BY <1>15, BasesMade
  <2> QED
    BY <1>12, <2>1
<1>16. \A p \in Files(c) : head[p] # NoCommit /\ ~ Confirmed(head[p])
  BY <1>3, HeadUnconfirmed
<1>17. TablesInv'
  <2>1. \A e \in AllUnpushed : \A p \in Files(e) : Confirmed(head[p]) => d # base[e][p]
    BY <1>15, <1>16
  <2> QED
    BY <1>1, <1>4, <1>9, <1>10, <1>13, <1>14, <2>1, LogGrows
<1>18. /\ AllUnpushed' = AllUnpushed
       /\ \A e \in AllUnpushed : /\ base'[e] = base[e] /\ content'[e] = content[e] /\ parent'[e] = parent[e]
                                 /\ Files(e)' = Files(e) /\ e \in Commit /\ IsMade(e)
       /\ DOMAIN log' = 1 .. Len(log) + 1 /\ log'[Len(log) + 1] = d /\ Range(log)' = Range(log) \cup {d}
  BY <1>1, <1>4, <1>10, NumbersGrow
<1>19. ASSUME cmd' = [cmd EXCEPT !.step = "confirm", !.number = Len(log) + 1]
       PROVE  cmd'.step = "confirm" /\ ChainInv' /\ AnswerInv'
  <2>1. cmd'.step = "confirm" /\ cmd'.todo = cmd.todo /\ cmd'.number = Len(log) + 1
    BY <1>6, <1>19
  <2>2. /\ cmd.todo # {} /\ cmd.todo \subseteq AllUnpushed
        /\ \A e \in cmd.todo : parent[e] \in AllUnpushed => parent[e] \in cmd.todo
        /\ \A e \in AllUnpushed : \E x \in cmd.todo : Rowid(e) <= Rowid(x)
    BY <1>1 DEF ChainInv
  <2>3. \A e : Rowid(e)' = Rowid(e)
    BY <1>1 DEF Rowid
  <2>4. ChainInv'
    BY <1>18, <2>1, <2>2, <2>3 DEF ChainInv
  <2>5. NextToPush' = c
    BY <1>1, <1>2, <2>1 DEF NextToPush, Oldest
  <2> DEFINE N == Len(log) + 1
  <2>6. N \in DOMAIN log' /\ log'[N] = d /\ \A e \in Commit : seq'[e] < N
    <3>1. \A e \in Commit : seq[e] \in Int /\ seq[e] <= Len(log) /\ Len(log) \in Nat
      BY Typed, NumbersInLog
    <3> QED
      BY <1>1, <1>18, <3>1, Typed
  <2>7. base'[d] = base'[c] /\ content'[d] = content'[c]
    BY <1>8, <1>18
  <2>8. d # c => c \notin Range(log)' /\ parent'[c] \in Range(log)' /\ Absorbed(parent[c])'
    <3> SUFFICES ASSUME d # c, NEW q, q = parent[c]
                 PROVE  c \notin Range(log)' /\ q \in Range(log) /\ seq[q] < 0
      BY <1>1, <1>18 DEF Absorbed
    <3>1. q # NoCommit /\ ~ Confirmed(q)
      BY <1>12 DEF ParentSent
    <3>2. q \in Range(rows) /\ Rowid(q) < Rowid(c) /\ (seq[q] < 0 => q \in Range(log))
      BY <3>1 DEF TablesInv, ParentsInv, Follows, Stored, Absorbed
    <3>3. ~ Unpushed(q)
      <4> SUFFICES ASSUME Unpushed(q) PROVE FALSE
        OBVIOUS
      <4>1. q \in cmd.todo
        BY <1>2, <2>2, <3>2 DEF AllUnpushed
      <4>2. Rowid(c) <= Rowid(q)
        BY <1>2, <4>1
      <4>3. Rowid(c) \in Int /\ Rowid(q) \in Int
        <5>1. rows \in Seq(Commit) /\ RowsOnce /\ DOMAIN rows = 1 .. Len(rows)
          BY Typed, SeqFacts DEF TablesInv, RowsInv
        <5>2. Rowid(c) \in DOMAIN rows /\ Rowid(q) \in DOMAIN rows
          BY <1>2, <3>2, <5>1, RowidIs
        <5> QED
          BY <5>1, <5>2
      <4> QED
        BY <3>2, <4>2, <4>3
    <3>4. seq[q] < 0
      <4>1. seq[q] \in Int
        BY <3>2, Typed
      <4> QED
        BY <3>1, <3>2, <3>3, <4>1 DEF Confirmed, Unpushed, Stored
    <3> QED
      BY <1>11, <1>18, <3>2, <3>4
  <2>9. ASSUME NEW p \in Files(c), head[p] = c, NEW e \in AllUnpushed \ {c}, p \in Files(e)
        PROVE  d # base[e][p]
    <3> SUFFICES ASSUME d = base[e][p] PROVE FALSE
      OBVIOUS
    <3>1. Rowid(c) < Rowid(e)
      BY <1>15, <2>9
    <3>2. Rowid(e) <= Rowid(head[p])
      BY <1>16, <2>9 DEF TablesInv, HeadInv, UnpushedBelowHead
    <3>3. Rowid(c) \in Int /\ Rowid(e) \in Int
      <4>1. rows \in Seq(Commit) /\ RowsOnce /\ DOMAIN rows = 1 .. Len(rows)
        BY Typed, SeqFacts DEF TablesInv, RowsInv
      <4>2. Rowid(c) \in DOMAIN rows /\ Rowid(e) \in DOMAIN rows
        BY <1>2, <4>1, RowidIs DEF AllUnpushed
      <4> QED
        BY <4>1, <4>2
    <3> QED
      BY <2>9, <3>1, <3>2, <3>3
  <2>10. ASSUME NEW p \in Files(c)
         PROVE  /\ ~ Confirmed(head[p])'
                /\ head'[p] = c => \A e \in AllUnpushed \ {c} : p \in Files(e) =>
                     \A n \in DOMAIN log' : n >= N => log'[n] # base[e][p]
    <3>1. ~ Confirmed(head[p])'
      BY <1>1, <1>16 DEF Confirmed
    <3>2. \A n \in DOMAIN log' : n >= N => log'[n] = d
      <4>1. DOMAIN log' = 1 .. Len(log) + 1 /\ log'[Len(log) + 1] = d /\ Len(log) \in Nat
        BY <1>18, Typed
      <4> QED
        BY <4>1
    <3> QED
      BY <1>1, <2>9, <3>1, <3>2
  <2>11. AnswerInv'
    BY <1>2, <1>18, <2>1, <2>5, <2>6, <2>7, <2>8, <2>10 DEF AnswerInv
  <2> QED
    BY <2>1, <2>4, <2>11
<1> QED
  BY <1>1, <1>5, <1>9, <1>10, <1>17, <1>18, <1>19

\* The answer names the number and what the server has under it; or it is lost.
LEMMA PushOneKeeps ==
  ASSUME Inv, PushOne
  PROVE  Inv'
<1>1. TypeOK /\ TablesInv /\ LocalInv /\ ChainInv
  BY DEF Inv, CommandInv
<1>2. /\ TypeOK' /\ TablesInv' /\ MadeStay /\ UNCHANGED localVars /\ Range(log) \subseteq Range(log)'
      /\ cmd' = Idle \/ (cmd'.step = "confirm" /\ ChainInv' /\ AnswerInv')
  BY <1>1, PushOneKeepsTables
<1>3. LocalInv'
  <2>1. UNCHANGED <<rows, objects, staged, mergeParent, disk>>
    BY <1>2 DEF localVars, storeVars, indexVars
  <2>2. objects \subseteq objects' /\ Range(rows)' = Range(rows)
    BY <2>1
  <2> QED
    BY <1>1, <1>2, <2>1, <2>2, LocalGrows
<1>4. CommandInv'
  <2>1. CASE cmd' = Idle
    BY <2>1, NoCommand DEF Idle
  <2>2. CASE cmd'.step = "confirm" /\ ChainInv' /\ AnswerInv'
    BY <2>2 DEF CommandInv, AbsorbsOlder, PullInv, ResetInv, PullStep
  <2> QED
    BY <1>2, <2>1, <2>2
<1> QED
  BY <1>2, <1>3, <1>4 DEF Inv

\* The rest of the chain is still closed, and follows what was confirmed.
LEMMA ConfirmKeeps ==
  ASSUME Inv, ConfirmSeq
  PROVE  Inv'
<1>1. TypeOK /\ TablesInv /\ LocalInv /\ ChainInv /\ AnswerInv
  BY DEF Inv, CommandInv
<1>2. /\ cmd.step = "confirm"
      /\ cmd' = IF cmd.todo = {NextToPush} THEN [step |-> "absorb"]
                ELSE [cmd EXCEPT !.step = "send", !.todo = @ \ {NextToPush}]
      /\ UNCHANGED <<base, content, parent, log, rows, stubs, head, objects, staged, mergeParent, unresolved, disk>>
  BY DEF ConfirmSeq, commitVars, indexVars
<1>3. /\ TablesInv' /\ AllUnpushed' = AllUnpushed \ {NextToPush}
      /\ seq' = [seq EXCEPT ![NextToPush] = cmd.number] /\ cmd.number \in DOMAIN log
  BY <1>1, ConfirmKeepsTables
<1>4. PICK c \in AllUnpushed : /\ c = NextToPush /\ c \in Commit /\ c \in Mine /\ c \in cmd.todo /\ c \in Range(rows)
                               /\ \A e \in cmd.todo : Rowid(c) <= Rowid(e)
  BY <1>1, <1>2, NextIs
<1>5. cmd \in [step : {"send", "confirm"}, todo : SUBSET Commit, number : Nat]
  BY <1>1, <1>2, StepIs
<1>6. seq'[c] = cmd.number /\ cmd.number > 0
  BY <1>1, <1>3, <1>4, Typed
<1>7. TypeOK'
  <2>1. seq' \in [Commit -> Int]
    <3>1. cmd.number \in Int /\ seq \in [Commit -> Int]
      BY <1>1, <1>5, Typed
    <3> QED
      BY <1>3, <3>1
  <2>2. cmd' \in Step
    BY <1>2, <1>5 DEF Step
  <2> QED
    BY <1>1, <1>2, <2>1, <2>2 DEF TypeOK, StoreTypeOK
<1>8. LocalInv'
  BY <1>1, <1>2, LocalSame DEF commitVars, indexVars
<1>9. /\ cmd.todo \subseteq AllUnpushed
      /\ \A e \in cmd.todo : parent[e] \in AllUnpushed => parent[e] \in cmd.todo
      /\ \A e \in AllUnpushed : \E x \in cmd.todo : Rowid(e) <= Rowid(x)
  BY <1>1, <1>2 DEF ChainInv
<1>10. /\ \A e \in AllUnpushed : Rowid(e) \in Int /\ (e # c => Rowid(e) # Rowid(c))
       /\ \A e : Rowid(e)' = Rowid(e)
  <2>1. rows \in Seq(Commit) /\ RowsOnce /\ DOMAIN rows = 1 .. Len(rows)
    BY <1>1, Typed, SeqFacts DEF TablesInv, RowsInv
  <2>2. \A e \in AllUnpushed : e \in Range(rows) /\ Rowid(e) \in DOMAIN rows
    BY <2>1, RowidIs DEF AllUnpushed
  <2> QED
    BY <1>2, <1>4, <2>1, <2>2, RowidsDiffer DEF Rowid
<1>11. CASE cmd.todo = {NextToPush}
  <2>1. cmd'.step = "absorb"
    BY <1>2, <1>11
  <2>2. Confirmed(c)'
    BY <1>6 DEF Confirmed
  <2>3. ASSUME NEW e \in Range(rows)', Unpushed(e)'
        PROVE  Rowid(e)' < Rowid(c)'
    <3>1. e \in AllUnpushed /\ e # c
      BY <1>3, <1>4, <2>3 DEF AllUnpushed
    <3>2. Rowid(e) <= Rowid(c)
      BY <1>4, <1>9, <1>11, <3>1
    <3> QED
      BY <1>10, <3>1, <3>2
  <2>4. AbsorbsOlder'
    BY <1>4, <2>2, <2>3 DEF AbsorbsOlder
  <2>5. CommandInv'
    BY <2>1, <2>4 DEF CommandInv, ChainInv, AnswerInv, PullInv, ResetInv, PullStep
  <2> QED
    BY <1>3, <1>7, <1>8, <2>5 DEF Inv
<1>12. CASE cmd.todo # {NextToPush}
  <2>1. cmd'.step = "send" /\ cmd'.todo = cmd.todo \ {c}
    BY <1>2, <1>4, <1>5, <1>12
  <2>2. PICK x \in cmd.todo : x # c
    BY <1>4, <1>12
  <2>3. ASSUME NEW e \in AllUnpushed \ {c}
        PROVE  \E y \in cmd.todo \ {c} : Rowid(e) <= Rowid(y)
    <3>1. PICK y \in cmd.todo : Rowid(e) <= Rowid(y)
      BY <1>9
    <3>2. CASE y = c
      <4>1. Rowid(e) <= Rowid(x)
        BY <1>4, <1>9, <1>10, <2>2, <3>1, <3>2
      <4> QED
        BY <2>2, <4>1
    <3> QED
      BY <3>1, <3>2
  <2>4. ChainInv'
    BY <1>2, <1>3, <1>4, <1>9, <1>10, <2>1, <2>2, <2>3 DEF ChainInv
  <2>5. CommandInv'
    BY <2>1, <2>4 DEF CommandInv, AnswerInv, AbsorbsOlder, PullInv, ResetInv, PullStep
  <2> QED
    BY <1>3, <1>7, <1>8, <2>5 DEF Inv
<1> QED
  BY <1>11, <1>12

\* Absorbing what is left of the unpushed commits.
LEMMA AbsorbKeeps ==
  ASSUME Inv, AbsorbTheRest
  PROVE  Inv'
<1>1. TypeOK /\ TablesInv /\ LocalInv
  BY DEF Inv
<1>2. /\ UNCHANGED <<base, content, parent, log, rows, stubs, head, objects, staged, mergeParent, unresolved, disk>>
      /\ AbsorbAllUnpushed /\ cmd' = Idle
  BY DEF AbsorbTheRest, commitVars, indexVars
<1>3. TablesInv' /\ seq' \in [Commit -> Int]
  BY <1>1, <1>2, AbsorbKeepsTables DEF commitVars
<1>4. TypeOK'
  BY <1>1, <1>2, <1>3 DEF TypeOK, StoreTypeOK, Step, Idle
<1>5. LocalInv'
  BY <1>1, <1>2, LocalSame DEF commitVars, indexVars
<1>6. CommandInv'
  BY <1>2, NoCommand DEF Idle
<1> QED
  BY <1>3, <1>4, <1>5, <1>6 DEF Inv

-----------------------------------------------------------------------------
(* add, rm, commit, reset, checkout.                                       *)

\* What is left to show where the tables stay, but for the contents.
LEMMA QuietKeeps ==
  ASSUME Inv, UNCHANGED <<commitVars, rows, seq, stubs, head>>,
         objects \subseteq objects', objects' \subseteq Text,
         staged' \in [Path -> Entry \cup {NotStaged}], disk' \in [Path -> Contents],
         unresolved' \subseteq Path, cmd' \in Step, CommandInv',
         \A p \in Path :
           \/ staged'[p] \in {staged[p], NotStaged}
           \/ /\ p \in Readable /\ staged'[p].text \in objects' \cup {Deleted}
              /\ staged'[p].base # NoCommit => Stored(staged'[p].base) /\ p \in Files(staged'[p].base),
         \A p \in Path : disk'[p] \in {disk[p], Deleted} \/ p \in Readable,
         mergeParent' \in {mergeParent, NoCommit} \/ (mergeParent' \in Range(log) /\ Stored(mergeParent'))
  PROVE  Inv'
<1>1. TypeOK /\ TablesInv /\ LocalInv
  BY DEF Inv
<1>2. UNCHANGED <<base, content, parent, log, rows, seq, stubs, head>>
  BY DEF commitVars
<1>3. TablesInv'
  BY <1>1, TablesUntouched
<1>4. TypeOK'
  <2>1. mergeParent' \in Commit \cup {NoCommit}
    BY <1>1, Typed DEF TypeOK
  <2>2. StoreTypeOK'
    BY <1>1, <1>2 DEF TypeOK, StoreTypeOK, Contents
  <2> QED
    BY <2>1, <2>2 DEF TypeOK, Entry, Contents, Step
<1>5. StagedInv'
  <2> SUFFICES ASSUME NEW p \in Path, staged'[p] # NotStaged
               PROVE  /\ p \in Readable
                      /\ staged'[p].base # NoCommit =>
                           staged'[p].base \in Range(rows) /\ p \in Files(staged'[p].base)
    BY <1>2 DEF StagedInv, Stored, Files, Changes
  <2> QED
    BY <1>1 DEF LocalInv, StagedInv, Stored
<1>6. DiskInv'
  BY <1>1 DEF LocalInv, DiskInv
<1>7. MergeParentInv'
  BY <1>1, <1>2 DEF LocalInv, MergeParentInv, Stored
<1>8. ContentLocal'
  <2>1. \A c \in Range(rows)' : \A p \in Files(c)' : content'[c][p] \in objects' \cup {Deleted}
    BY <1>1, <1>2 DEF LocalInv, ContentLocal, Files, Changes
  <2>2. \A p \in Path : staged'[p] # NotStaged => staged'[p].text \in objects' \cup {Deleted}
    BY <1>1 DEF LocalInv, ContentLocal
  <2> QED
    BY <2>1, <2>2 DEF ContentLocal
<1> QED
  BY <1>3, <1>4, <1>5, <1>6, <1>7, <1>8 DEF Inv, LocalInv

\* The text of a head is a content, and there is one only for a path that can be read.
LEMMA HeadTextIs ==
  ASSUME TypeOK, TablesInv, NEW p \in Path
  PROVE  HeadText(p) \in Contents /\ (HeadText(p) # Deleted => p \in Readable)
<1>1. head[p] # NoCommit => head[p] \in Commit /\ p \in Readable
  BY Typed DEF TablesInv, HeadInv
<1>2. head[p] # NoCommit => content[head[p]][p] \in Contents
  BY <1>1, Typed
<1> QED
  BY <1>1, <1>2 DEF HeadText, Contents

\* A staged version starts from the head.
LEMMA StageOneIs ==
  ASSUME TypeOK, TablesInv, NEW p \in Readable, NEW x \in Contents, NEW e, e = [text |-> x, base |-> head[p]]
  PROVE  /\ e \in Entry /\ StageOne(p, x) \in {staged[p], e} /\ StageOne(p, x) \in Entry \cup {NotStaged}
         /\ (x # HeadText(p) => StageOne(p, x) = e) /\ (x = HeadText(p) => StageOne(p, x) = staged[p])
         /\ e.text = x
         /\ e.base # NoCommit => Stored(e.base) /\ p \in Files(e.base)
<1>1. p \in Path
  BY CloneConstants
<1>2. e.text = x /\ e.base = head[p] /\ head[p] \in Commit \cup {NoCommit} /\ e \in Entry
  BY <1>1, Typed DEF Entry
<1>3. e.base # NoCommit => Stored(e.base) /\ p \in Files(e.base)
  BY <1>1, <1>2 DEF TablesInv, HeadInv
<1>4. staged[p] \in Entry \cup {NotStaged}
  BY <1>1 DEF TypeOK
<1> QED
  BY <1>2, <1>3, <1>4 DEF StageOne

\* The user writes or removes a file.
LEMMA EditKeeps ==
  ASSUME Inv, NEW p \in Path, NEW x \in Contents, Edit(p, x)
  PROVE  Inv'
<1>1. TypeOK
  BY DEF Inv
<1>2. /\ UNCHANGED <<commitVars, rows, seq, stubs, head, objects, staged, mergeParent, unresolved, cmd>>
      /\ cmd = Idle /\ p \in Readable /\ disk' = [disk EXCEPT ![p] = x]
  BY DEF Edit, storeVars, indexVars
<1>3. CommandInv'
  BY <1>2, NoCommand DEF Idle
<1>4. disk' \in [Path -> Contents] /\ \A q \in Path : disk'[q] = disk[q] \/ q \in Readable
  BY <1>1, <1>2 DEF TypeOK
<1> QED
  BY <1>1, <1>2, <1>3, <1>4, QuietKeeps DEF TypeOK, StoreTypeOK

\* add stores the object, and stages what starts from the head.
LEMMA AddKeeps ==
  ASSUME Inv, NEW p \in Path, RunAdd(p)
  PROVE  Inv'
<1>1. TypeOK /\ TablesInv /\ LocalInv
  BY DEF Inv
<1> DEFINE x == disk[p]
<1>2. /\ UNCHANGED <<commitVars, rows, seq, stubs, head, mergeParent, unresolved, disk, cmd>>
      /\ cmd = Idle /\ x # Deleted /\ staged' = [staged EXCEPT ![p] = StageOne(p, x)]
      /\ objects' = IF x = HeadText(p) THEN objects ELSE objects \cup {x}
  BY DEF RunAdd
<1>3. p \in Readable /\ x \in Contents /\ x \in Text
  BY <1>1, <1>2 DEF LocalInv, DiskInv, TypeOK, Contents
<1>4. PICK e : e = [text |-> x, base |-> head[p]]
  OBVIOUS
<1>5. /\ e \in Entry /\ StageOne(p, x) \in {staged[p], e} /\ StageOne(p, x) \in Entry \cup {NotStaged}
      /\ (x # HeadText(p) => StageOne(p, x) = e) /\ (x = HeadText(p) => StageOne(p, x) = staged[p])
      /\ e.text = x
      /\ e.base # NoCommit => Stored(e.base) /\ p \in Files(e.base)
  BY <1>1, <1>3, <1>4, StageOneIs
<1> HIDE DEF x
<1>6. staged' \in [Path -> Entry \cup {NotStaged}] /\ \A q \in Path : q # p => staged'[q] = staged[q]
  BY <1>1, <1>2, <1>5 DEF TypeOK
<1>7. staged'[p] = staged[p] \/ (staged'[p] = e /\ e.text \in objects')
  BY <1>1, <1>2, <1>5 DEF TypeOK
<1>8. objects \subseteq objects' /\ objects' \subseteq Text
  BY <1>1, <1>2, <1>3 DEF TypeOK, StoreTypeOK
<1>9. CommandInv'
  BY <1>2, NoCommand DEF Idle
<1>10. \A q \in Path :
         \/ staged'[q] \in {staged[q], NotStaged}
         \/ /\ q \in Readable /\ staged'[q].text \in objects' \cup {Deleted}
            /\ staged'[q].base # NoCommit => Stored(staged'[q].base) /\ q \in Files(staged'[q].base)
  BY <1>3, <1>5, <1>6, <1>7
<1> QED
  BY <1>1, <1>2, <1>6, <1>8, <1>9, <1>10, QuietKeeps DEF TypeOK

\* rm stages a deletion of what the head has.
LEMMA RmKeeps ==
  ASSUME Inv, NEW p \in Path, RunRm(p)
  PROVE  Inv'
<1>1. TypeOK /\ TablesInv /\ LocalInv
  BY DEF Inv
<1>2. /\ UNCHANGED <<commitVars, rows, seq, stubs, head, objects, mergeParent, unresolved, cmd>>
      /\ cmd = Idle /\ HeadText(p) # Deleted
      /\ disk' = [disk EXCEPT ![p] = Deleted]
      /\ staged' = [staged EXCEPT ![p] = [text |-> Deleted, base |-> head[p]]]
  BY DEF RunRm, storeVars
<1>3. p \in Readable
  BY <1>1, <1>2, HeadTextIs
<1>4. PICK e : e = [text |-> Deleted, base |-> head[p]]
  OBVIOUS
<1>5. /\ e \in Entry /\ e.text = Deleted
      /\ e.base # NoCommit => Stored(e.base) /\ p \in Files(e.base)
  BY <1>1, <1>3, <1>4, StageOneIs DEF Contents
<1>6. /\ staged' \in [Path -> Entry \cup {NotStaged}]
      /\ staged'[p] = e /\ \A q \in Path : q # p => staged'[q] = staged[q]
  BY <1>1, <1>2, <1>4, <1>5 DEF TypeOK
<1>7. disk' \in [Path -> Contents] /\ \A q \in Path : disk'[q] \in {disk[q], Deleted}
  BY <1>1, <1>2 DEF TypeOK, Contents
<1>8. objects' = objects /\ objects \subseteq Text
  BY <1>1, <1>2 DEF TypeOK, StoreTypeOK
<1>9. CommandInv'
  BY <1>2, NoCommand DEF Idle
<1>10. \A q \in Path :
         \/ staged'[q] \in {staged[q], NotStaged}
         \/ /\ q \in Readable /\ staged'[q].text \in objects' \cup {Deleted}
            /\ staged'[q].base # NoCommit => Stored(staged'[q].base) /\ q \in Files(staged'[q].base)
  BY <1>3, <1>5, <1>6
<1> QED
  BY <1>1, <1>2, <1>6, <1>7, <1>8, <1>9, <1>10, QuietKeeps DEF TypeOK

\* checkout stages content that some stored commit left.
LEMMA CheckoutKeeps ==
  ASSUME Inv, NEW c \in Commit, NEW p \in Path, RunCheckout(c, p)
  PROVE  Inv'
<1>1. TypeOK /\ TablesInv /\ LocalInv
  BY DEF Inv
<1>2. PICK x : x = FileAtCommit(c, p)
  OBVIOUS
<1>3. /\ UNCHANGED <<commitVars, rows, seq, stubs, head, objects, mergeParent, unresolved, cmd>>
      /\ cmd = Idle /\ x # Deleted
      /\ disk' = [disk EXCEPT ![p] = x]
      /\ staged' = [staged EXCEPT ![p] = StageOne(p, x)]
  BY <1>2 DEF RunCheckout, storeVars
<1>4. PICK d \in Range(rows) : p \in Files(d) /\ x = content[d][p]
  BY <1>1, <1>2, <1>3, FileAtCommitIs
<1>5. p \in Readable /\ x \in objects /\ x \in Contents
  <2>1. d \in Commit /\ p \in Readable
    BY <1>1, <1>4, Typed
  <2>2. x \in objects
    BY <1>1, <1>3, <1>4 DEF LocalInv, ContentLocal
  <2> QED
    BY <1>1, <1>4, <2>1, <2>2, Typed
<1>6. PICK e : e = [text |-> x, base |-> head[p]]
  OBVIOUS
<1>7. /\ e \in Entry /\ StageOne(p, x) \in {staged[p], e} /\ StageOne(p, x) \in Entry \cup {NotStaged}
      /\ e.text = x
      /\ e.base # NoCommit => Stored(e.base) /\ p \in Files(e.base)
  BY <1>1, <1>5, <1>6, StageOneIs
<1>8. /\ staged' \in [Path -> Entry \cup {NotStaged}]
      /\ staged'[p] \in {staged[p], e} /\ \A q \in Path : q # p => staged'[q] = staged[q]
  BY <1>1, <1>3, <1>7 DEF TypeOK
<1>9. disk' \in [Path -> Contents] /\ \A q \in Path : disk'[q] = disk[q] \/ q \in Readable
  BY <1>1, <1>3, <1>5 DEF TypeOK
<1>10. objects' = objects /\ objects \subseteq Text
  BY <1>1, <1>3 DEF TypeOK, StoreTypeOK
<1>11. CommandInv'
  BY <1>3, NoCommand DEF Idle
<1>12. \A q \in Path :
         \/ staged'[q] \in {staged[q], NotStaged}
         \/ /\ q \in Readable /\ staged'[q].text \in objects' \cup {Deleted}
            /\ staged'[q].base # NoCommit => Stored(staged'[q].base) /\ q \in Files(staged'[q].base)
  BY <1>5, <1>7, <1>8, <1>10
<1> QED
  BY <1>1, <1>3, <1>8, <1>9, <1>10, <1>11, <1>12, QuietKeeps DEF TypeOK

\* A commit becomes the head of all it changes, before the index is cleared.
LEMMA CommitKeeps ==
  ASSUME Inv, NEW c \in Mine, RunCommit(c)
  PROVE  Inv'
<1>1. TypeOK /\ TablesInv /\ LocalInv
  BY DEF Inv
<1>2. /\ base' = [base EXCEPT ![c] = [p \in Path |-> IF staged[p] = NotStaged THEN Untouched ELSE staged[p].base]]
      /\ content' = [content EXCEPT ![c] = [p \in Path |-> IF staged[p] = NotStaged THEN Deleted ELSE staged[p].text]]
      /\ parent' = [parent EXCEPT ![c] = ParentOfNext]
      /\ rows' = Append(rows, c)
      /\ head' = [p \in Path |-> IF p \in {q \in Path : staged[q] # NotStaged} THEN c ELSE head[p]]
      /\ cmd' = [step |-> "clear"]
      /\ UNCHANGED <<log, seq, stubs, objects, staged, mergeParent, unresolved, disk>>
  BY DEF RunCommit, WriteCommit, indexVars
<1>3. c \in Commit
  BY CloneConstants
<1>4. \A p \in Path : staged[p] # NotStaged => staged[p].base \in Commit \cup {NoCommit} /\ staged[p].text \in Contents
  BY <1>1 DEF TypeOK, Entry
<1>5. ParentOfNext \in Commit \cup {NoCommit}
  <2>1. CASE mergeParent # NoCommit
    BY <1>1, <2>1 DEF ParentOfNext, TypeOK
  <2>2. CASE mergeParent = NoCommit
    <3> DEFINE S == {d \in Range(rows) : ~ Absorbed(d)}
    <3>1. ParentOfNext = Newest(S)
      BY <2>2 DEF ParentOfNext, LatestCommitID
    <3>2. S \subseteq Range(rows) /\ rows \in Seq(Commit) /\ RowsOnce /\ Range(rows) \subseteq Commit
      BY <1>1, Typed DEF TablesInv, RowsInv
    <3> HIDE DEF S
    <3>3. S # {} => Newest(S) \in S
      BY <3>2, NewestIs
    <3> QED
      BY <3>1, <3>2, <3>3 DEF Newest
  <2> QED
    BY <2>1, <2>2
<1>6. TypeOK'
  <2>1. base' \in [Commit -> [Path -> Commit \cup {NoCommit, Untouched}]]
    <3> DEFINE T == [Path -> Commit \cup {NoCommit, Untouched}]
               t == [p \in Path |-> IF staged[p] = NotStaged THEN Untouched ELSE staged[p].base]
    <3>1. base \in [Commit -> T] /\ t \in T /\ base' = [base EXCEPT ![c] = t]
      BY <1>1, <1>2, <1>4, Typed
    <3> HIDE DEF T, t
    <3>2. base' \in [Commit -> T]
      BY <3>1
    <3> QED
      BY <3>2 DEF T
  <2>2. content' \in [Commit -> [Path -> Contents]]
    <3> DEFINE t == [p \in Path |-> IF staged[p] = NotStaged THEN Deleted ELSE staged[p].text]
    <3>1. t \in [Path -> Contents] /\ content \in [Commit -> [Path -> Contents]] /\ content' = [content EXCEPT ![c] = t]
      BY <1>1, <1>2, <1>4, Typed DEF Contents
    <3> HIDE DEF t
    <3> QED
      BY <3>1
  <2>3. /\ parent' \in [Commit -> Commit \cup {NoCommit}] /\ rows' \in Seq(Commit)
        /\ head' \in [Path -> Commit \cup {NoCommit}]
    BY <1>1, <1>2, <1>3, <1>5, Typed
  <2>4. cmd' \in Step
    BY <1>2 DEF Step
  <2>5. StoreTypeOK'
    BY <1>1, <1>2, <2>1, <2>2, <2>3 DEF TypeOK, StoreTypeOK, Contents
  <2> QED
    BY <1>1, <1>2, <2>4, <2>5 DEF TypeOK, Entry, Contents
<1>7. /\ TablesInv' /\ MadeStay /\ Range(rows)' = Range(rows) \cup {c}
      /\ \A p \in Files(c)' : content'[c][p] \in objects \cup {Deleted}
  BY <1>1, <1>6, CommitKeepsTables
<1>8. LocalInv'
  <2>1. objects \subseteq objects' /\ Range(log) \subseteq Range(log)' /\ Range(rows) \subseteq Range(rows)'
    BY <1>2, <1>7
  <2> QED
    BY <1>1, <1>2, <1>7, <2>1, LocalGrows
<1>9. CommandInv'
  BY <1>2, NoCommand
<1> QED
  BY <1>6, <1>7, <1>8, <1>9 DEF Inv

\* Steps that clear the index, or end the command.
LEMMA ClearKeeps ==
  ASSUME Inv, ClearIndex \/ ClearMergeState \/ Rejected \/ Fails
  PROVE  Inv'
<1>1. TypeOK
  BY DEF Inv
<1>2. /\ UNCHANGED <<commitVars, rows, seq, stubs, head, objects, unresolved, disk>>
      /\ staged' \in {staged, NothingStaged} /\ mergeParent' \in {mergeParent, NoCommit}
      /\ cmd' \in {Idle, [step |-> "clearMerge"]}
  BY DEF ClearIndex, ClearMergeState, Rejected, Fails, localVars, storeVars, indexVars
<1>3. cmd' \in Step /\ CommandInv'
  <2>1. cmd'.step \in {"idle", "clear", "clearMerge"}
    BY <1>2 DEF Idle
  <2> QED
    BY <1>2, <2>1, NoCommand DEF Step, Idle
<1>4. staged' \in [Path -> Entry \cup {NotStaged}] /\ \A p \in Path : staged'[p] \in {staged[p], NotStaged}
  BY <1>1, <1>2 DEF TypeOK, NothingStaged
<1>5. objects' \subseteq Text /\ unresolved' \subseteq Path /\ disk' \in [Path -> Contents]
  BY <1>1, <1>2 DEF TypeOK, StoreTypeOK
<1> QED
  BY <1>2, <1>3, <1>4, <1>5, QuietKeeps

\* merge --abort restores content of heads or of the newest unpushed commit.
LEMMA MergeAbortKeeps ==
  ASSUME Inv, RunMergeAbort
  PROVE  Inv'
<1>1. TypeOK /\ TablesInv
  BY DEF Inv
<1>2. /\ UNCHANGED <<commitVars, rows, seq, stubs, head, objects, cmd>>
      /\ cmd = Idle /\ unresolved' = {} /\ staged' = NothingStaged /\ mergeParent' = NoCommit
      /\ disk' = [p \in Path |-> IF p \in unresolved /\ AbortText(p) # Deleted THEN AbortText(p) ELSE disk[p]]
  BY DEF RunMergeAbort, storeVars
<1>3. \A p \in Path : AbortText(p) \in Contents /\ (AbortText(p) # Deleted => p \in Readable)
  <2> TAKE p \in Path
  <2>1. CASE NewestUnpushed # NoCommit /\ p \in Files(NewestUnpushed)
                                       /\ content[NewestUnpushed][p] # Deleted
    <3>1. AllUnpushed # {}
      BY <2>1 DEF NewestUnpushed, Newest
    <3>2. AllUnpushed \subseteq Range(rows) /\ rows \in Seq(Commit) /\ RowsOnce
      BY <1>1, Typed DEF AllUnpushed, TablesInv, RowsInv
    <3>3. NewestUnpushed \in AllUnpushed
      BY <3>1, <3>2, NewestIs DEF NewestUnpushed
    <3>4. NewestUnpushed \in Commit
      BY <1>1, <3>3, LogMade
    <3> QED
      BY <1>1, <2>1, <3>4, Typed DEF AbortText
  <2>2. CASE ~ (NewestUnpushed # NoCommit /\ p \in Files(NewestUnpushed)
                                          /\ content[NewestUnpushed][p] # Deleted)
    <3>1. AbortText(p) = HeadText(p)
      BY <2>2 DEF AbortText
    <3> QED
      BY <1>1, <3>1, HeadTextIs
  <2> QED
    BY <2>1, <2>2
<1>4. disk' \in [Path -> Contents] /\ \A p \in Path : disk'[p] = disk[p] \/ p \in Readable
  BY <1>1, <1>2, <1>3 DEF TypeOK
<1>5. staged' \in [Path -> Entry \cup {NotStaged}] /\ \A p \in Path : staged'[p] = NotStaged
  BY <1>2 DEF NothingStaged
<1>6. CommandInv' /\ cmd' \in Step
  BY <1>1, <1>2, NoCommand DEF Idle, TypeOK
<1>7. objects' \subseteq Text /\ unresolved' \subseteq Path
  BY <1>1, <1>2 DEF TypeOK, StoreTypeOK
<1> QED
  BY <1>2, <1>4, <1>5, <1>6, <1>7, QuietKeeps

\* A fresh clone has nothing of the old one.
LEMMA CloneKeeps ==
  ASSUME Inv, RunClone
  PROVE  Inv'
<1>1. TypeOK' /\ TablesInv' /\ LocalInv'
  BY CloneKeepsTables DEF Inv
<1>2. CommandInv'
  BY NoCommand DEF RunClone, Idle
<1> QED
  BY <1>1, <1>2 DEF Inv

\* reset absorbs every unpushed commit first.
LEMMA ResetKeeps ==
  ASSUME Inv, RunReset
  PROVE  Inv'
<1>1. TypeOK /\ TablesInv /\ LocalInv
  BY DEF Inv
<1> DEFINE affected == UNION {Files(c) : c \in UnpushedChain}
<1>2. /\ UNCHANGED <<base, content, parent, log, rows, stubs, head, objects, staged, mergeParent, unresolved, disk>>
      /\ AbsorbAllUnpushed
      /\ cmd' = [step |-> "repoint", todo |-> affected, affected |-> affected]
  BY DEF RunReset, commitVars, indexVars
<1>3. affected \in SUBSET Path
  BY <1>1, Typed
<1> HIDE DEF affected
<1>4. TablesInv' /\ AllUnpushed' = {} /\ seq' \in [Commit -> Int]
  BY <1>1, <1>2, AbsorbKeepsTables DEF commitVars
<1>5. TypeOK'
  <2>1. cmd' \in Step
    BY <1>2, <1>3 DEF Step
  <2> QED
    BY <1>1, <1>2, <1>4, <2>1 DEF TypeOK, StoreTypeOK
<1>6. LocalInv'
  BY <1>1, <1>2, LocalSame DEF commitVars, indexVars
<1>7. CommandInv'
  BY <1>2, <1>4 DEF CommandInv, ChainInv, AnswerInv, AbsorbsOlder, PullInv, ResetInv, PullStep
<1> QED
  BY <1>4, <1>5, <1>6, <1>7 DEF Inv

\* A head that reset moves is the last confirmed version.
LEMMA RepointKeeps ==
  ASSUME Inv, NEW p \in Path, RepointHead(p)
  PROVE  Inv'
<1>1. TypeOK /\ TablesInv /\ LocalInv /\ ResetInv
  BY DEF Inv, CommandInv
<1>2. /\ UNCHANGED <<base, content, parent, log, rows, seq, stubs, objects, staged, mergeParent, unresolved, disk>>
      /\ cmd.step = "repoint" /\ p \in cmd.todo
      /\ head' = [head EXCEPT ![p] = LatestConfirmed(p)]
      /\ cmd' = IF cmd.todo = {p} THEN [cmd EXCEPT !.step = "restore", !.todo = cmd.affected]
                                  ELSE [cmd EXCEPT !.todo = @ \ {p}]
  BY DEF RepointHead, commitVars, indexVars
<1>3. AllUnpushed = {}
  BY <1>1, <1>2 DEF ResetInv
<1>4. TablesInv' /\ AllUnpushed' = {}
  BY <1>1, <1>2, <1>3, RepointKeepsTables DEF commitVars
<1>5. cmd \in [step : {"repoint", "restore"}, todo : SUBSET Path, affected : SUBSET Path]
  BY <1>1, <1>2, StepIs
<1>6. cmd' \in Step /\ cmd'.step \in {"repoint", "restore"}
  <2>1. cmd' \in [step : {"repoint", "restore"}, todo : SUBSET Path, affected : SUBSET Path]
    BY <1>2, <1>5
  <2> QED
    BY <2>1 DEF Step
<1>7. LatestConfirmed(p) \in Commit \cup {NoCommit}
  <2> DEFINE versions == {d \in Range(rows) : Confirmed(d) /\ p \in Files(d)}
  <2>1. LatestConfirmed(p) = NoCommit \/ LatestConfirmed(p) \in versions
    BY <1>1, LatestConfirmedIs
  <2> QED
    BY <1>1, <2>1, Typed
<1>8. TypeOK'
  BY <1>1, <1>2, <1>6, <1>7 DEF TypeOK, StoreTypeOK
<1>9. LocalInv'
  BY <1>1, <1>2, LocalSame DEF commitVars, indexVars
<1>10. CommandInv'
  BY <1>4, <1>6 DEF CommandInv, ChainInv, AnswerInv, AbsorbsOlder, PullInv, ResetInv, PullStep
<1> QED
  BY <1>4, <1>8, <1>9, <1>10 DEF Inv

\* reset writes a path's head to the working tree.
LEMMA RestoreKeeps ==
  ASSUME Inv, NEW p \in Path, RestoreFile(p)
  PROVE  Inv'
<1>1. TypeOK /\ TablesInv /\ ResetInv
  BY DEF Inv, CommandInv
<1>2. /\ UNCHANGED <<commitVars, rows, seq, stubs, head, objects, staged, mergeParent, unresolved>>
      /\ cmd.step = "restore" /\ p \in cmd.todo
      /\ disk' = [disk EXCEPT ![p] = HeadText(p)]
      /\ cmd' = IF cmd.todo = {p} THEN Idle ELSE [cmd EXCEPT !.todo = @ \ {p}]
  BY DEF RestoreFile, storeVars, indexVars
<1>3. cmd \in [step : {"repoint", "restore"}, todo : SUBSET Path, affected : SUBSET Path]
  BY <1>1, <1>2, StepIs
<1>4. AllUnpushed' = {}
  BY <1>1, <1>2, TablesUntouched DEF ResetInv
<1>5. cmd' \in Step /\ CommandInv'
  <2>1. cmd' = Idle \/ cmd' \in [step : {"repoint", "restore"}, todo : SUBSET Path, affected : SUBSET Path]
    BY <1>2, <1>3
  <2> QED
    BY <1>4, <2>1 DEF Step, Idle, CommandInv, ChainInv, AnswerInv, AbsorbsOlder, PullInv, ResetInv, PullStep
<1>6. disk' \in [Path -> Contents] /\ \A q \in Path : disk'[q] \in {disk[q], Deleted} \/ q \in Readable
  BY <1>1, <1>2, HeadTextIs DEF TypeOK
<1>7. objects' = objects /\ objects \subseteq Text
  BY <1>1, <1>2 DEF TypeOK, StoreTypeOK
<1> QED
  BY <1>1, <1>2, <1>5, <1>6, <1>7, QuietKeeps DEF TypeOK

-----------------------------------------------------------------------------
(* pull.                                                                   *)

\* The cursor is within the log, and each number up to it has a cause.
LEMMA CursorIs ==
  ASSUME TypeOK, TablesInv
  PROVE  /\ MaxConfirmedSeq \in Nat /\ MaxConfirmedSeq <= Len(log)
         /\ \A c \in Commit : seq[c] <= MaxConfirmedSeq
         /\ \A m \in stubs : m <= MaxConfirmedSeq
         /\ MaxConfirmedSeq \in {0} \cup {seq[c] : c \in Commit} \cup stubs
         /\ \A n \in 1 .. MaxConfirmedSeq : Cause(n)
<1> DEFINE numbers == {0} \cup {seq[c] : c \in Commit} \cup stubs
<1>1. Len(log) \in Nat /\ DOMAIN log = 1 .. Len(log) /\ \A c \in Commit : seq[c] \in Int
  BY Typed
<1>2. \A m \in stubs : m \in Nat /\ m <= Len(log)
  BY <1>1, NumbersInLog
<1>3. numbers \subseteq Int /\ numbers # {} /\ \A x \in numbers : x <= Len(log)
  BY <1>1, <1>2, NumbersInLog
<1>4. Max(numbers) \in numbers /\ \A x \in numbers : x <= Max(numbers)
  <2>1. Len(log) \in Int
    BY <1>1
  <2> HIDE DEF numbers
  <2> QED
    BY <1>3, <2>1, MaxIsGreatest
<1>5. MaxConfirmedSeq = Max(numbers)
  BY DEF MaxConfirmedSeq
<1>6. PICK m \in numbers : m = MaxConfirmedSeq /\ \A x \in numbers : x <= m
  BY <1>4, <1>5
<1>7. m \in Nat /\ m <= Len(log)
  BY <1>1, <1>3, <1>6
<1>8. \A n \in 1 .. m : Cause(n)
  <2>1. CASE m = 0
    BY <2>1
  <2>2. CASE m \in stubs
    BY <2>2, NumbersInLog
  <2>3. CASE \E c \in Commit : m = seq[c]
    BY <2>3, NumbersInLog
  <2> QED
    BY <1>6, <2>1, <2>2, <2>3
<1> QED
  BY <1>6, <1>7, <1>8

\* The numbers that a pull works on lie within the log.
LEMMA PullFacts ==
  ASSUME TypeOK, PullInv, cmd.step \in PullStep
  PROVE  /\ cmd.from \in Nat \ {0} /\ cmd.upto \in Nat /\ cmd.next \in Nat
         /\ cmd.ours \in Commit \cup {NoCommit} /\ cmd.paths \subseteq Path
         /\ cmd.from <= cmd.upto /\ cmd.next \in cmd.from .. cmd.upto + 1
         /\ Fetched \subseteq DOMAIN log /\ Visible \subseteq Fetched /\ Fetched = cmd.from .. cmd.upto
         /\ \A n \in Fetched : log[n] \in Commit /\ log[n] \in Range(log) /\ (n \in Visible <=> Files(log[n]) # {})
<1>1. cmd \in [step : PullStep, from : Nat \ {0}, upto : Nat, next : Nat,
               ours : Commit \cup {NoCommit}, paths : SUBSET Path]
  BY StepIs
<1>2. /\ cmd.from \in Nat \ {0} /\ cmd.upto \in Nat /\ cmd.next \in Nat
      /\ cmd.ours \in Commit \cup {NoCommit} /\ cmd.paths \subseteq Path
  BY <1>1
<1>3. DOMAIN log = 1 .. Len(log) /\ Len(log) \in Nat /\ cmd.upto <= Len(log)
  BY Typed DEF PullInv
<1>4. Fetched \subseteq DOMAIN log
  BY <1>2, <1>3 DEF Fetched
<1>5. cmd.from <= cmd.upto /\ cmd.next \in cmd.from .. cmd.upto + 1
  BY DEF PullInv
<1> QED
  BY <1>2, <1>4, <1>5, Typed DEF Fetched, Visible

\* What a pull works on stays as it is while it runs.
LEMMA PullSame ==
  ASSUME TypeOK, UNCHANGED commitVars, cmd'.from = cmd.from, cmd'.upto = cmd.upto
  PROVE  /\ Fetched' = Fetched /\ Visible' = Visible /\ NewFiles' = NewFiles
         /\ \A n : Files(log[n])' = Files(log[n])
<1>1. UNCHANGED <<base, content, parent, log>>
  BY DEF commitVars
<1>2. \A n : Files(log[n])' = Files(log[n])
  BY <1>1 DEF Files, Changes
<1>3. Fetched' = Fetched
  BY DEF Fetched
<1>4. Visible' = Visible
  BY <1>2, <1>3 DEF Visible
<1>5. NewFiles' = NewFiles
  BY <1>2, <1>3 DEF NewFiles
<1> QED
  BY <1>2, <1>3, <1>4, <1>5

\* A pull starts after the cursor.
LEMMA RunPullKeeps ==
  ASSUME Inv, RunPull
  PROVE  Inv'
<1>1. TypeOK /\ TablesInv /\ LocalInv
  BY DEF Inv
<1>2. PICK k : k = MaxConfirmedSeq
  OBVIOUS
<1>3. /\ UNCHANGED <<base, content, parent, log, rows, seq, stubs, head, objects, staged, mergeParent, unresolved, disk>>
      /\ k < Len(log)
      /\ cmd' = [step |-> "stub", from |-> k + 1, upto |-> Len(log), next |-> k + 1, ours |-> NoCommit, paths |-> {}]
  BY <1>2 DEF RunPull, commitVars, localVars, storeVars, indexVars
<1>4. k \in Nat /\ (\A c \in Commit : seq[c] <= k) /\ \A n \in 1 .. k : Cause(n)
  BY <1>1, <1>2, CursorIs
<1>5. TablesInv'
  BY <1>1, <1>3, TablesUntouched DEF commitVars
<1>6. LocalInv'
  BY <1>1, <1>3, LocalSame DEF commitVars, indexVars
<1>7. Len(log) \in Nat
  BY <1>1, Typed
<1>8. TypeOK'
  <2>1. cmd' \in Step
    BY <1>3, <1>4, <1>7 DEF Step
  <2> QED
    BY <1>1, <1>3, <2>1 DEF TypeOK, StoreTypeOK
<1>9. PullInv'
  <2>1. \A n \in 1 .. k : Cause(n)'
    BY <1>3, <1>4 DEF Cause, Accounted
  <2>2. \A c \in Commit : seq'[c] < k + 1
    <3> TAKE c \in Commit
    <3>1. seq[c] \in Int /\ seq[c] <= k
      BY <1>1, <1>4, Typed
    <3> QED
      BY <1>3, <1>4, <3>1
  <2>3. /\ cmd'.step = "stub" /\ cmd'.from = k + 1 /\ cmd'.upto = Len(log) /\ cmd'.next = k + 1
        /\ cmd'.from - 1 = k
    BY <1>3, <1>4
  <2> QED
    BY <1>3, <1>4, <1>7, <2>1, <2>2, <2>3 DEF PullInv, NumberedTo, StubbedTo
<1>10. CommandInv'
  BY <1>3, <1>9 DEF CommandInv, ChainInv, AnswerInv, AbsorbsOlder, ResetInv
<1> QED
  BY <1>5, <1>6, <1>8, <1>10 DEF Inv

\* A number that may not be read gets a stub.
LEMMA StubKeeps ==
  ASSUME Inv, RecordRedactedStub
  PROVE  Inv'
<1>1. TypeOK /\ TablesInv /\ LocalInv /\ PullInv
  BY DEF Inv, CommandInv
<1>2. PICK k : k = cmd.next
  OBVIOUS
<1>3. /\ UNCHANGED <<base, content, parent, log, rows, seq, head, objects, staged, mergeParent, unresolved, disk>>
      /\ cmd.step = "stub" /\ cmd.step \in PullStep /\ k <= cmd.upto
      /\ stubs' = IF k \in Visible THEN stubs ELSE stubs \cup {k}
      /\ cmd' = [cmd EXCEPT !.next = @ + 1]
  BY <1>2 DEF RecordRedactedStub, commitVars, indexVars, PullStep
<1>4. /\ cmd.from \in Nat \ {0} /\ cmd.upto \in Nat /\ k \in Nat /\ k \in cmd.from .. cmd.upto
      /\ Fetched \subseteq DOMAIN log /\ k \in DOMAIN log
  BY <1>1, <1>2, <1>3, PullFacts
<1>5. cmd \in [step : PullStep, from : Nat \ {0}, upto : Nat, next : Nat,
               ours : Commit \cup {NoCommit}, paths : SUBSET Path]
  BY <1>1, <1>3, StepIs
<1>6. cmd'.from = cmd.from /\ cmd'.upto = cmd.upto /\ cmd'.next = k + 1 /\ cmd'.step = "stub" /\ cmd' \in Step
  <2>1. /\ cmd'.from = cmd.from /\ cmd'.upto = cmd.upto /\ cmd'.next = k + 1 /\ cmd'.step = "stub"
        /\ cmd' \in [step : PullStep, from : Nat \ {0}, upto : Nat, next : Nat,
                     ours : Commit \cup {NoCommit}, paths : SUBSET Path]
    BY <1>2, <1>3, <1>5
  <2> QED
    BY <2>1 DEF Step, PullStep
<1>7. TablesInv'
  <2> DEFINE S == IF k \in Visible THEN {} ELSE {k}
  <2>1. S \subseteq DOMAIN log /\ stubs' = stubs \cup S
    BY <1>3, <1>4
  <2>2. ASSUME NEW m \in S, NEW n \in 1 .. m - 1
        PROVE  \E j \in stubs' : j > n
    <3>1. m = k /\ k \in stubs' /\ k > n
      BY <1>3, <1>4
    <3> QED
      BY <3>1
  <2> HIDE DEF S
  <2> QED
    BY <1>1, <1>3, <2>1, <2>2, TablesKept DEF commitVars
<1>8. TypeOK'
  <2>1. stubs' \subseteq Nat
    BY <1>1, <1>3, <1>4 DEF TypeOK, StoreTypeOK
  <2> QED
    BY <1>1, <1>3, <1>6, <2>1 DEF TypeOK, StoreTypeOK
<1>9. LocalInv'
  BY <1>1, <1>3, LocalSame DEF commitVars, indexVars
<1>10. PullInv'
  <2>1. Visible' = Visible
    BY <1>1, <1>3, <1>6, PullSame DEF commitVars
  <2>2. \A n \in 1 .. cmd.from - 1 : Cause(n)'
    <3> SUFFICES ASSUME NEW n \in 1 .. cmd.from - 1 PROVE Cause(n)'
      OBVIOUS
    <3>1. Cause(n)
      BY <1>1, <1>3 DEF PullInv
    <3>2. n \in Nat \ {0} /\ stubs \subseteq stubs' /\ Range(rows) \subseteq Range(rows)'
      BY <1>3, <1>4
    <3> QED
      BY <1>1, <1>3, <3>1, <3>2, CauseStays
  <2>3. \A n \in cmd.from .. (k + 1) - 1 : n \notin Visible => n \in stubs'
    <3> SUFFICES ASSUME NEW n \in cmd.from .. (k + 1) - 1, n \notin Visible PROVE n \in stubs'
      OBVIOUS
    <3>1. n = k \/ n \in cmd.from .. k - 1
      BY <1>4
    <3>2. n \in cmd.from .. k - 1 => n \in stubs
      BY <1>1, <1>2, <1>3 DEF PullInv, StubbedTo
    <3> QED
      BY <1>3, <3>1, <3>2
  <2>4. cmd.upto <= Len(log) /\ cmd.from <= cmd.upto /\ \A c \in Commit : seq[c] < cmd.from
    BY <1>1, <1>3 DEF PullInv, NumberedTo
  <2> QED
    BY <1>3, <1>4, <1>6, <2>1, <2>2, <2>3, <2>4 DEF PullInv, NumberedTo, StubbedTo
<1>11. CommandInv'
  BY <1>6, <1>10 DEF CommandInv, ChainInv, AnswerInv, AbsorbsOlder, ResetInv
<1> QED
  BY <1>7, <1>8, <1>9, <1>11 DEF Inv

\* A step of a pull after the stubs, that leaves the tables alone.
LEMMA PullStays ==
  ASSUME TypeOK, TablesInv, PullInv, UNCHANGED <<commitVars, rows, seq, stubs, head>>, objects \subseteq objects',
         cmd.step \in PullStep \ {"stub"}, cmd'.from = cmd.from, cmd'.upto = cmd.upto
  PROVE  /\ cmd'.upto <= Len(log') /\ cmd'.from <= cmd'.upto
         /\ \A n \in 1 .. cmd'.from - 1 : Cause(n)'
         /\ StubbedTo(cmd.upto + 1)' /\ Visible' # {} /\ Visible' = Visible /\ NewFiles' = NewFiles
         /\ (\A n : Files(log[n])' = Files(log[n]))
         /\ FetchedLocal => FetchedLocal'
<1>1. UNCHANGED <<base, content, parent, log, rows, seq, stubs>>
  BY DEF commitVars
<1>2. /\ Fetched' = Fetched /\ Visible' = Visible /\ NewFiles' = NewFiles
      /\ \A n : Files(log[n])' = Files(log[n])
  BY PullSame
<1>3. /\ cmd.upto <= Len(log) /\ cmd.from <= cmd.upto /\ \A n \in 1 .. cmd.from - 1 : Cause(n)
      /\ StubbedTo(cmd.upto + 1) /\ Visible # {}
  BY DEF PullInv
<1>4. \A n \in 1 .. cmd'.from - 1 : Cause(n)'
  BY <1>1, <1>3 DEF Cause, Accounted
<1>5. StubbedTo(cmd.upto + 1)'
  BY <1>1, <1>2, <1>3 DEF StubbedTo
<1>6. FetchedLocal => FetchedLocal'
  BY <1>1, <1>2 DEF FetchedLocal
<1> QED
  BY <1>1, <1>2, <1>3, <1>4, <1>5, <1>6

\* All stubs are recorded before anything is downloaded.
LEMMA StubsDoneKeeps ==
  ASSUME Inv, StubsRecorded
  PROVE  Inv'
<1>1. TypeOK /\ TablesInv /\ PullInv
  BY DEF Inv, CommandInv
<1>2. /\ UNCHANGED <<commitVars, rows, seq, stubs, head, objects, staged, mergeParent, unresolved, disk>>
      /\ cmd.step = "stub" /\ cmd.step \in PullStep /\ cmd.next > cmd.upto
      /\ IF Visible = {} THEN cmd' = Idle ELSE cmd' = [cmd EXCEPT !.step = "download", !.next = cmd.from]
  BY DEF StubsRecorded, PullTo, localVars, storeVars, indexVars, PullStep
<1>3. cmd.from \in Nat \ {0} /\ cmd.upto \in Nat /\ cmd.from <= cmd.upto /\ cmd.next = cmd.upto + 1
  <2>1. /\ cmd.from \in Nat \ {0} /\ cmd.upto \in Nat /\ cmd.next \in Nat
        /\ cmd.from <= cmd.upto /\ cmd.next \in cmd.from .. cmd.upto + 1
    BY <1>1, <1>2, PullFacts
  <2> QED
    BY <1>2, <2>1
<1>4. cmd \in [step : PullStep, from : Nat \ {0}, upto : Nat, next : Nat,
               ours : Commit \cup {NoCommit}, paths : SUBSET Path]
  BY <1>1, <1>2, StepIs
<1>5. cmd' \in Step /\ CommandInv'
  <2>1. CASE Visible = {}
    BY <1>2, <2>1, NoCommand DEF Idle, Step
  <2>2. CASE Visible # {}
    <3>1. /\ cmd'.step = "download" /\ cmd'.from = cmd.from /\ cmd'.upto = cmd.upto /\ cmd'.next = cmd.from
          /\ cmd' \in [step : PullStep, from : Nat \ {0}, upto : Nat, next : Nat,
                       ours : Commit \cup {NoCommit}, paths : SUBSET Path]
      BY <1>2, <1>4, <2>2 DEF PullStep
    <3>2. Visible' = Visible
      BY <1>1, <1>2, <3>1, PullSame
    <3>3. \A n \in 1 .. cmd.from - 1 : Cause(n)'
      BY <1>1, <1>2 DEF PullInv, Cause, Accounted, commitVars
    <3>4. \A n \in cmd.from .. (cmd.upto + 1) - 1 : n \notin Visible' => n \in stubs'
      BY <1>1, <1>2, <1>3, <3>2 DEF PullInv, StubbedTo
    <3>5. /\ cmd.upto <= Len(log') /\ (\A c \in Commit : seq'[c] < cmd.from)
          /\ cmd.from \in cmd.from .. cmd.upto + 1
      BY <1>1, <1>2, <1>3 DEF PullInv, NumberedTo, commitVars
    <3>6. PullInv'
      BY <1>3, <2>2, <3>1, <3>2, <3>3, <3>4, <3>5 DEF PullInv, StubbedTo, NumberedTo
    <3> QED
      BY <3>1, <3>6 DEF CommandInv, ChainInv, AnswerInv, AbsorbsOlder, ResetInv, Step, PullStep
  <2> QED
    BY <2>1, <2>2
<1> QED
  BY <1>1, <1>2, <1>5, QuietKeeps DEF TypeOK, StoreTypeOK

\* The objects of all that was fetched come before any row.
LEMMA DownloadKeeps ==
  ASSUME Inv, DownloadObjects
  PROVE  Inv'
<1>1. TypeOK /\ TablesInv /\ PullInv
  BY DEF Inv, CommandInv
<1> DEFINE all == {{content[log[n]][p] : p \in Files(log[n])} : n \in Visible}
<1>2. /\ UNCHANGED <<commitVars, rows, seq, stubs, head, staged, mergeParent, unresolved, disk>>
      /\ cmd.step = "download" /\ cmd.step \in PullStep
      /\ objects' = objects \cup ((UNION all) \ {Deleted})
      /\ cmd' = [cmd EXCEPT !.step = "check", !.next = cmd.from]
  BY DEF DownloadObjects, PullTo, indexVars, PullStep
<1>3. \A x \in UNION all : \E n \in Visible : \E p \in Files(log[n]) : x = content[log[n]][p]
  <2> TAKE x \in UNION all
  <2>1. PICK T \in all : x \in T
    OBVIOUS
  <2>2. PICK n \in Visible : T = {content[log[n]][p] : p \in Files(log[n])}
    BY <2>1
  <2> QED
    BY <2>1, <2>2
<1>4. ASSUME NEW n \in Visible, NEW p \in Files(log[n])
      PROVE  content[log[n]][p] \in UNION all
  <2>1. {content[log[n]][q] : q \in Files(log[n])} \in all
    BY Zenon
  <2>2. content[log[n]][p] \in {content[log[n]][q] : q \in Files(log[n])}
    BY Zenon
  <2> QED
    BY <2>1, <2>2
<1> HIDE DEF all
<1>5. /\ cmd.from \in Nat \ {0} /\ cmd.upto \in Nat /\ cmd.from <= cmd.upto
      /\ Fetched = cmd.from .. cmd.upto
      /\ Visible \subseteq Fetched
      /\ \A n \in Fetched : log[n] \in Commit /\ (n \in Visible <=> Files(log[n]) # {})
  BY <1>1, <1>2, PullFacts
<1>6. cmd \in [step : PullStep, from : Nat \ {0}, upto : Nat, next : Nat,
               ours : Commit \cup {NoCommit}, paths : SUBSET Path]
  BY <1>1, <1>2, StepIs
<1>7. /\ cmd'.step = "check" /\ cmd'.from = cmd.from /\ cmd'.upto = cmd.upto /\ cmd'.next = cmd.from
      /\ cmd' \in [step : PullStep, from : Nat \ {0}, upto : Nat, next : Nat,
                   ours : Commit \cup {NoCommit}, paths : SUBSET Path]
  BY <1>2, <1>6 DEF PullStep
<1>8. objects \subseteq objects' /\ objects' \subseteq Text
  <2>1. \A x \in UNION all : x \in Contents
    <3> TAKE x \in UNION all
    <3>1. PICK n \in Visible : \E p \in Files(log[n]) : x = content[log[n]][p]
      BY <1>3
    <3>2. log[n] \in Commit
      BY <1>5
    <3> QED
      BY <1>1, <3>1, <3>2, Typed
  <2> QED
    BY <1>1, <1>2, <2>1 DEF TypeOK, StoreTypeOK, Contents
<1>9. PullInv'
  <2>1. /\ cmd'.upto <= Len(log') /\ cmd'.from <= cmd'.upto
        /\ \A n \in 1 .. cmd'.from - 1 : Cause(n)'
        /\ StubbedTo(cmd.upto + 1)' /\ Visible' # {} /\ Visible' = Visible
        /\ \A n : Files(log[n])' = Files(log[n])
    BY <1>1, <1>2, <1>7, <1>8, PullStays DEF PullStep
  <2>2. \A n \in Fetched : \A p \in Files(log[n]) : content[log[n]][p] \in objects' \cup {Deleted}
    BY <1>2, <1>4, <1>5
  <2>3. FetchedLocal'
    <3>1. Fetched' = Fetched
      BY <1>7 DEF Fetched
    <3> QED
      BY <1>2, <2>1, <2>2, <3>1 DEF FetchedLocal, commitVars
  <2>4. \A c \in Commit : seq'[c] < cmd.from
    BY <1>1, <1>2 DEF PullInv, NumberedTo
  <2> QED
    BY <1>5, <1>7, <2>1, <2>3, <2>4 DEF PullInv, StubbedTo, NumberedTo
<1>10. cmd' \in Step /\ CommandInv'
  BY <1>7, <1>9 DEF CommandInv, ChainInv, AnswerInv, AbsorbsOlder, ResetInv, Step, PullStep
<1> QED
  BY <1>1, <1>2, <1>8, <1>10, QuietKeeps DEF TypeOK

\* The check writes nothing; unpushed work is remembered.
LEMMA CheckKeeps ==
  ASSUME Inv, CheckUnstaged
  PROVE  Inv'
<1>1. TypeOK /\ TablesInv /\ PullInv
  BY DEF Inv, CommandInv
<1>2. /\ UNCHANGED <<commitVars, rows, seq, stubs, head, objects, staged, mergeParent, unresolved, disk>>
      /\ cmd.step = "check" /\ cmd.step \in PullStep
      /\ \/ cmd' = Idle
         \/ cmd' = [cmd EXCEPT !.step = "store", !.ours = NewestUnpushed]
  BY DEF CheckUnstaged, localVars, storeVars, indexVars, PullStep
<1>3. cmd.from \in Nat \ {0} /\ cmd.upto \in Nat /\ cmd.from <= cmd.upto
  BY <1>1, <1>2, PullFacts
<1>4. cmd \in [step : PullStep, from : Nat \ {0}, upto : Nat, next : Nat,
               ours : Commit \cup {NoCommit}, paths : SUBSET Path]
  BY <1>1, <1>2, StepIs
<1>5. NewestUnpushed \in Commit \cup {NoCommit}
  <2>1. AllUnpushed \subseteq Range(rows) /\ rows \in Seq(Commit) /\ RowsOnce /\ Range(rows) \subseteq Commit
    BY <1>1, Typed DEF AllUnpushed, TablesInv, RowsInv
  <2>2. AllUnpushed # {} => Newest(AllUnpushed) \in AllUnpushed
    BY <2>1, NewestIs
  <2> QED
    BY <2>1, <2>2 DEF NewestUnpushed, Newest
<1>6. ASSUME cmd' = [cmd EXCEPT !.step = "store", !.ours = NewestUnpushed]
      PROVE  cmd' \in Step /\ CommandInv'
  <2>1. /\ cmd'.step = "store" /\ cmd'.from = cmd.from /\ cmd'.upto = cmd.upto /\ cmd'.next = cmd.next
        /\ cmd' \in [step : PullStep, from : Nat \ {0}, upto : Nat, next : Nat,
                     ours : Commit \cup {NoCommit}, paths : SUBSET Path]
    BY <1>4, <1>5, <1>6 DEF PullStep
  <2>2. /\ cmd'.upto <= Len(log') /\ cmd'.from <= cmd'.upto
        /\ \A n \in 1 .. cmd'.from - 1 : Cause(n)'
        /\ StubbedTo(cmd.upto + 1)' /\ Visible' # {}
        /\ FetchedLocal => FetchedLocal'
    BY <1>1, <1>2, <2>1, PullStays DEF PullStep
  <2>3. FetchedLocal' /\ cmd.next = cmd.from /\ \A c \in Commit : seq'[c] < cmd.from
    BY <1>1, <1>2, <2>2 DEF PullInv, NumberedTo
  <2>4. PullInv'
    BY <1>3, <2>1, <2>2, <2>3 DEF PullInv, StubbedTo, StoredTo, NumberedTo
  <2> QED
    BY <2>1, <2>4 DEF CommandInv, ChainInv, AnswerInv, AbsorbsOlder, ResetInv, Step, PullStep
<1>7. cmd' \in Step /\ CommandInv'
  BY <1>2, <1>6, NoCommand DEF Idle, Step
<1> QED
  BY <1>1, <1>2, <1>7, QuietKeeps DEF TypeOK, StoreTypeOK

\* One transaction of the pull, which may be refused.
LEMMA StoreKeeps ==
  ASSUME Inv, WriteRemoteCommit
  PROVE  Inv'
<1>1. TypeOK /\ TablesInv /\ LocalInv /\ PullInv
  BY DEF Inv, CommandInv
<1>2. PICK k : k = cmd.next
  OBVIOUS
<1>3. /\ UNCHANGED <<base, content, parent, log, staged, mergeParent, unresolved, disk>>
      /\ cmd.step = "store" /\ cmd.step \in PullStep /\ k <= cmd.upto
  BY <1>2 DEF WriteRemoteCommit, commitVars, indexVars, PullStep
<1>4. /\ cmd.from \in Nat \ {0} /\ cmd.upto \in Nat /\ k \in cmd.from .. cmd.upto /\ k \in Nat /\ cmd.from <= cmd.upto
      /\ Fetched \subseteq DOMAIN log /\ Fetched = cmd.from .. cmd.upto /\ Visible \subseteq Fetched
      /\ log[k] \in Commit /\ log[k] \in Range(log) /\ k \in DOMAIN log
  <2>1. /\ cmd.from \in Nat \ {0} /\ cmd.upto \in Nat /\ cmd.next \in Nat /\ cmd.from <= cmd.upto
        /\ cmd.next \in cmd.from .. cmd.upto + 1 /\ Visible \subseteq Fetched
        /\ Fetched \subseteq DOMAIN log /\ Fetched = cmd.from .. cmd.upto
        /\ \A n \in Fetched : log[n] \in Commit /\ log[n] \in Range(log)
    BY <1>1, <1>3, PullFacts
  <2> QED
    BY <1>2, <1>3, <2>1
<1>5. cmd \in [step : PullStep, from : Nat \ {0}, upto : Nat, next : Nat,
               ours : Commit \cup {NoCommit}, paths : SUBSET Path]
  BY <1>1, <1>3, StepIs
<1>6. /\ cmd.upto <= Len(log) /\ (\A n \in 1 .. cmd.from - 1 : Cause(n))
      /\ (\A n \in cmd.from .. cmd.upto : n \notin Visible => n \in stubs) /\ Visible # {}
      /\ FetchedLocal /\ NumberedTo(k)
      /\ \A n \in cmd.from .. k - 1 : n \in Visible => Stored(log[n])
  <2>1. cmd.from .. (cmd.upto + 1) - 1 = cmd.from .. cmd.upto
    BY <1>4
  <2> QED
    BY <1>1, <1>2, <1>3, <2>1 DEF PullInv, StubbedTo, StoredTo
<1>7. \/ cmd' = Idle /\ UNCHANGED storeVars
      \/ /\ k \notin Visible \/ Stored(log[k])
         /\ cmd' = [cmd EXCEPT !.next = @ + 1] /\ UNCHANGED storeVars
      \/ /\ k \in Visible /\ ~ Stored(log[k])
         /\ WriteCommit(log[k], Files(log[k])) /\ seq' = [seq EXCEPT ![log[k]] = k]
         /\ cmd' = [cmd EXCEPT !.next = @ + 1] /\ UNCHANGED <<stubs, objects>>
  BY <1>2 DEF WriteRemoteCommit
<1>8. ASSUME cmd' = [cmd EXCEPT !.next = @ + 1]
      PROVE  /\ cmd'.step = "store" /\ cmd'.from = cmd.from /\ cmd'.upto = cmd.upto /\ cmd'.next = k + 1
             /\ cmd' \in Step /\ Fetched' = Fetched /\ Visible' = Visible
             /\ \A n : Files(log[n])' = Files(log[n])
  <2>1. /\ cmd'.step = "store" /\ cmd'.from = cmd.from /\ cmd'.upto = cmd.upto /\ cmd'.next = k + 1
        /\ cmd' \in [step : PullStep, from : Nat \ {0}, upto : Nat, next : Nat,
                     ours : Commit \cup {NoCommit}, paths : SUBSET Path]
    BY <1>2, <1>3, <1>5, <1>8
  <2>2. Fetched' = Fetched /\ Visible' = Visible /\ \A n : Files(log[n])' = Files(log[n])
    BY <1>1, <1>3, <2>1, PullSame DEF commitVars
  <2> QED
    BY <2>1, <2>2 DEF Step, PullStep
<1>9. ASSUME cmd' = [cmd EXCEPT !.next = @ + 1], stubs \subseteq stubs', objects' = objects,
             Range(rows) \subseteq Range(rows)', k \in Visible => log[k] \in Range(rows)',
             \A c \in Commit : seq[c] > 0 => seq'[c] = seq[c], NumberedTo(k + 1)'
      PROVE  CommandInv'
  <2>1. /\ cmd'.step = "store" /\ cmd'.from = cmd.from /\ cmd'.upto = cmd.upto /\ cmd'.next = k + 1
        /\ Fetched' = Fetched /\ Visible' = Visible /\ \A n : Files(log[n])' = Files(log[n])
    BY <1>8, <1>9
  <2>2. \A n \in 1 .. cmd.from - 1 : Cause(n)'
    <3> SUFFICES ASSUME NEW n \in 1 .. cmd.from - 1 PROVE Cause(n)'
      OBVIOUS
    <3>1. Cause(n) /\ n \in Nat \ {0} /\ log'[n] = log[n]
      BY <1>3, <1>4, <1>6
    <3> QED
      BY <1>1, <1>9, <3>1, CauseStays
  <2>3. FetchedLocal'
    BY <1>3, <1>6, <1>9, <2>1 DEF FetchedLocal
  <2>4. \A n \in cmd.from .. (cmd.upto + 1) - 1 : n \notin Visible => n \in stubs'
    BY <1>4, <1>6, <1>9
  <2>5. \A n \in cmd.from .. (k + 1) - 1 : n \in Visible => log[n] \in Range(rows)'
    <3> SUFFICES ASSUME NEW n \in cmd.from .. (k + 1) - 1, n \in Visible PROVE log[n] \in Range(rows)'
      OBVIOUS
    <3>1. n = k \/ n \in cmd.from .. k - 1
      BY <1>4
    <3> QED
      BY <1>6, <1>9, <3>1 DEF Stored
  <2>6. \A c \in Commit : seq'[c] < k + 1
    BY <1>9 DEF NumberedTo
  <2>7. k + 1 \in cmd.from .. cmd.upto + 1
    BY <1>4
  <2>8. PullInv'
    BY <1>3, <1>4, <1>6, <2>1, <2>2, <2>3, <2>4, <2>5, <2>6, <2>7 DEF PullInv, StubbedTo, StoredTo, NumberedTo, Stored
  <2> QED
    BY <2>1, <2>8 DEF CommandInv, ChainInv, AnswerInv, AbsorbsOlder, ResetInv
<1>10. CASE cmd' = Idle /\ UNCHANGED storeVars
  <2>1. CommandInv' /\ cmd' \in Step
    BY <1>10, NoCommand DEF Idle, Step
  <2> QED
    BY <1>1, <1>3, <1>10, <2>1, QuietKeeps DEF TypeOK, StoreTypeOK, commitVars, storeVars
<1>11. CASE /\ k \notin Visible \/ Stored(log[k])
            /\ cmd' = [cmd EXCEPT !.next = @ + 1] /\ UNCHANGED storeVars
  <2>1. UNCHANGED <<rows, seq, stubs, head, objects>>
    BY <1>11 DEF storeVars
  <2>2. NumberedTo(k + 1)'
    <3> SUFFICES ASSUME NEW c \in Commit PROVE seq'[c] < k + 1
      BY DEF NumberedTo
    <3>1. seq[c] \in Int /\ seq[c] < k
      BY <1>1, <1>6, Typed DEF NumberedTo
    <3> QED
      BY <1>4, <2>1, <3>1
  <2>3. CommandInv' /\ cmd' \in Step
    BY <1>8, <1>9, <1>11, <2>1, <2>2 DEF Stored
  <2> QED
    BY <1>1, <1>3, <2>1, <2>3, QuietKeeps DEF TypeOK, StoreTypeOK, commitVars
<1>12. CASE /\ k \in Visible /\ ~ Stored(log[k])
            /\ WriteCommit(log[k], Files(log[k])) /\ seq' = [seq EXCEPT ![log[k]] = k]
            /\ cmd' = [cmd EXCEPT !.next = @ + 1] /\ UNCHANGED <<stubs, objects>>
  <2>1. \A m \in 1 .. k - 1 : Cause(m)
    <3> TAKE m \in 1 .. k - 1
    <3>1. CASE m \in 1 .. cmd.from - 1
      BY <1>6, <3>1
    <3>2. CASE m \in cmd.from .. k - 1
      <4>1. m \in stubs \/ log[m] \in Range(rows)
        BY <1>4, <1>6, <3>2 DEF Stored
      <4> QED
        BY <4>1 DEF Cause, Accounted
    <3> QED
      BY <1>4, <3>1, <3>2
  <2>2. /\ TablesInv' /\ AllUnpushed' = AllUnpushed /\ NumberedTo(k + 1)'
        /\ rows' \in Seq(Commit) /\ Range(rows)' = Range(rows) \cup {log[k]}
    BY <1>1, <1>3, <1>4, <1>6, <1>12, <2>1, StoreKeepsTables DEF commitVars
  <2>3. seq[log[k]] = 0
    BY <1>1, <1>4, <1>12 DEF TablesInv, RowsInv
  <2>4. \A c \in Commit : seq[c] > 0 => seq'[c] = seq[c]
    BY <1>1, <1>4, <1>12, <2>3, Typed
  <2>5. CommandInv' /\ cmd' \in Step
    BY <1>8, <1>9, <1>12, <2>2, <2>4
  <2>6. TypeOK'
    <3>1. seq' \in [Commit -> Int]
      BY <1>1, <1>4, <1>12, Typed
    <3>2. head' \in [Path -> Commit \cup {NoCommit}]
      BY <1>1, <1>4, <1>12, Typed DEF WriteCommit
    <3> QED
      BY <1>1, <1>3, <1>12, <2>2, <2>5, <3>1, <3>2 DEF TypeOK, StoreTypeOK
  <2>7. LocalInv'
    <3>1. MadeStay
      BY <1>3 DEF MadeStay
    <3>2. \A p \in Files(log[k])' : content'[log[k]][p] \in objects' \cup {Deleted}
      <4>1. \A p \in Files(log[k]) : content[log[k]][p] \in objects \cup {Deleted}
        BY <1>4, <1>6 DEF FetchedLocal
      <4> QED
        BY <1>3, <1>12, <4>1 DEF Files, Changes
    <3>3. \A c \in Range(rows)' \ Range(rows) : \A p \in Files(c)' : content'[c][p] \in objects' \cup {Deleted}
      <4> SUFFICES ASSUME NEW c, c = log[k] PROVE \A p \in Files(c)' : content'[c][p] \in objects' \cup {Deleted}
        BY <2>2
      <4> QED
        BY <1>3, <3>2 DEF Files, Changes
    <3>4. objects \subseteq objects' /\ Range(log) \subseteq Range(log)' /\ Range(rows) \subseteq Range(rows)'
      BY <1>3, <1>12, <2>2
    <3> QED
      BY <1>1, <1>3, <3>1, <3>3, <3>4, LocalGrows
  <2> QED
    BY <2>2, <2>5, <2>6, <2>7 DEF Inv
<1> QED
  BY <1>7, <1>10, <1>11, <1>12

\* All that is visible has been stored when the merge starts.
LEMMA StoredKeeps ==
  ASSUME Inv, CommitsStored
  PROVE  Inv'
<1>1. TypeOK /\ TablesInv /\ PullInv
  BY DEF Inv, CommandInv
<1>2. /\ UNCHANGED <<commitVars, rows, seq, stubs, head, objects, staged, mergeParent, unresolved, disk>>
      /\ cmd.step = "store" /\ cmd.step \in PullStep /\ cmd.next > cmd.upto
      /\ cmd' = [cmd EXCEPT !.step = "merge", !.paths = NewFiles]
  BY DEF CommitsStored, localVars, storeVars, indexVars, PullStep
<1>3. /\ cmd.from \in Nat \ {0} /\ cmd.upto \in Nat /\ cmd.from <= cmd.upto /\ cmd.next = cmd.upto + 1
      /\ Fetched = cmd.from .. cmd.upto /\ Visible \subseteq Fetched
  <2>1. /\ cmd.from \in Nat \ {0} /\ cmd.upto \in Nat /\ cmd.next \in Nat /\ cmd.from <= cmd.upto
        /\ cmd.next \in cmd.from .. cmd.upto + 1 /\ Fetched = cmd.from .. cmd.upto /\ Visible \subseteq Fetched
    BY <1>1, <1>2, PullFacts
  <2> QED
    BY <1>2, <2>1
<1>4. cmd \in [step : PullStep, from : Nat \ {0}, upto : Nat, next : Nat,
               ours : Commit \cup {NoCommit}, paths : SUBSET Path]
  BY <1>1, <1>2, StepIs
<1>5. NewFiles \subseteq Path
  BY <1>1, Typed DEF NewFiles
<1>6. /\ cmd'.step = "merge" /\ cmd'.from = cmd.from /\ cmd'.upto = cmd.upto /\ cmd'.next = cmd.next
      /\ cmd'.paths = NewFiles
      /\ cmd' \in [step : PullStep, from : Nat \ {0}, upto : Nat, next : Nat,
                   ours : Commit \cup {NoCommit}, paths : SUBSET Path]
  BY <1>2, <1>4, <1>5 DEF PullStep
<1>7. PullInv'
  <2>1. /\ cmd'.upto <= Len(log') /\ cmd'.from <= cmd'.upto
        /\ \A n \in 1 .. cmd'.from - 1 : Cause(n)'
        /\ StubbedTo(cmd.upto + 1)' /\ Visible' # {} /\ Visible' = Visible /\ NewFiles' = NewFiles
        /\ FetchedLocal => FetchedLocal'
    BY <1>1, <1>2, <1>6, PullStays DEF PullStep
  <2>2. FetchedLocal /\ \A n \in cmd.from .. (cmd.upto + 1) - 1 : n \in Visible => Stored(log[n])
    BY <1>1, <1>2, <1>3 DEF PullInv, StoredTo
  <2>3. \A n \in cmd.from .. (cmd.upto + 1) - 1 : n \in Visible => log'[n] \in Range(rows)'
    BY <1>2, <2>2 DEF Stored, commitVars
  <2> QED
    BY <1>3, <1>6, <2>1, <2>2, <2>3 DEF PullInv, StubbedTo, StoredTo, Stored
<1>8. cmd' \in Step /\ CommandInv'
  BY <1>6, <1>7 DEF CommandInv, ChainInv, AnswerInv, AbsorbsOlder, ResetInv, Step, PullStep
<1> QED
  BY <1>1, <1>2, <1>8, QuietKeeps DEF TypeOK, StoreTypeOK

\* What a merge finds at a path that the server changed.
LEMMA ServerHeadIs ==
  ASSUME TypeOK, TablesInv, PullInv, cmd.step = "merge", NEW p \in cmd.paths
  PROVE  /\ ServerHead(p) \in Commit /\ Stored(ServerHead(p)) /\ p \in Files(ServerHead(p))
         /\ p \in Readable /\ p \in Path /\ Theirs(p) \in Contents
<1> DEFINE numbers == {n \in Fetched : p \in Files(log[n])}
<1>1. cmd.step \in PullStep
  BY DEF PullStep
<1>2. /\ cmd.from \in Nat \ {0} /\ cmd.upto \in Nat /\ Fetched = cmd.from .. cmd.upto
      /\ \A n \in Fetched : log[n] \in Commit /\ (n \in Visible <=> Files(log[n]) # {})
  BY <1>1, PullFacts
<1>3. numbers # {}
  <2>1. p \in NewFiles
    BY DEF PullInv, PullStep
  <2> QED
    BY <2>1 DEF NewFiles
<1>4. Max(numbers) \in numbers
  <2>1. PICK b \in Int : b = cmd.upto
    BY <1>2
  <2>2. numbers \subseteq Int /\ \A n \in numbers : n <= b
    BY <1>2, <2>1
  <2> HIDE DEF numbers
  <2> QED
    BY <1>3, <2>2, MaxIsGreatest
<1>5. PICK n \in Fetched : p \in Files(log[n]) /\ ServerHead(p) = log[n]
  BY <1>4 DEF ServerHead
<1>6. Stored(log[n])
  <2>1. \A k \in cmd.from .. (cmd.upto + 1) - 1 : k \in Visible => Stored(log[k])
    BY <1>1 DEF PullInv, StoredTo
  <2>2. n \in Visible
    BY <1>2, <1>5
  <2>3. n \in cmd.from .. (cmd.upto + 1) - 1
    <3>1. n \in cmd.from .. cmd.upto /\ cmd.from \in Nat /\ cmd.upto \in Nat
      BY <1>2, <1>5
    <3> QED
      BY <3>1
  <2> QED
    BY <2>1, <2>2, <2>3
<1>7. log[n] \in Commit /\ p \in Readable /\ p \in Path
  BY <1>2, <1>5, Typed
<1> QED
  BY <1>5, <1>6, <1>7, Typed DEF Theirs

\* A step of the merge that takes a path from those still to be merged.
LEMMA MergedCommand ==
  ASSUME TypeOK, TablesInv, PullInv, UNCHANGED <<commitVars, rows, seq, stubs, head>>, objects \subseteq objects',
         NEW p, Merging(p), Merged(p)
  PROVE  cmd' \in Step /\ CommandInv'
<1>1. cmd.step = "merge" /\ cmd.step \in PullStep /\ cmd' = [cmd EXCEPT !.paths = @ \ {p}]
  BY DEF Merging, Merged, PullStep
<1>2. cmd \in [step : PullStep, from : Nat \ {0}, upto : Nat, next : Nat,
               ours : Commit \cup {NoCommit}, paths : SUBSET Path]
  BY <1>1, StepIs
<1>3. /\ cmd'.step = "merge" /\ cmd'.from = cmd.from /\ cmd'.upto = cmd.upto /\ cmd'.next = cmd.next
      /\ cmd'.paths \subseteq cmd.paths
      /\ cmd' \in [step : PullStep, from : Nat \ {0}, upto : Nat, next : Nat,
                   ours : Commit \cup {NoCommit}, paths : SUBSET Path]
  BY <1>1, <1>2
<1>4. /\ cmd'.upto <= Len(log') /\ cmd'.from <= cmd'.upto
      /\ \A n \in 1 .. cmd'.from - 1 : Cause(n)'
      /\ StubbedTo(cmd.upto + 1)' /\ Visible' # {} /\ Visible' = Visible /\ NewFiles' = NewFiles
      /\ FetchedLocal => FetchedLocal'
  BY <1>1, <1>3, PullStays DEF PullStep
<1>5. /\ FetchedLocal /\ cmd.paths \subseteq NewFiles /\ cmd.next \in cmd.from .. cmd.upto + 1
      /\ \A n \in cmd.from .. (cmd.upto + 1) - 1 : n \in Visible => Stored(log[n])
  BY <1>1 DEF PullInv, StoredTo
<1>6. \A n \in cmd.from .. (cmd.upto + 1) - 1 : n \in Visible => log'[n] \in Range(rows)'
  BY <1>5 DEF Stored, commitVars
<1>7. PullInv'
  BY <1>3, <1>4, <1>5, <1>6 DEF PullInv, StubbedTo, StoredTo, Stored
<1> QED
  BY <1>3, <1>7 DEF CommandInv, ChainInv, AnswerInv, AbsorbsOlder, ResetInv, Step, PullStep

\* Steps of the merge that write the working tree alone.
LEMMA FastForwardKeeps ==
  ASSUME Inv, NEW p \in Path, FastForward(p) \/ ModifyDelete(p) \/ BothDeleted(p) \/ MergeConflict(p)
  PROVE  Inv'
<1>1. TypeOK /\ TablesInv /\ PullInv
  BY DEF Inv, CommandInv
<1>2. Merging(p)
  BY DEF FastForward, ModifyDelete, BothDeleted, MergeConflict, BothModified
<1>3. p \in Readable /\ Theirs(p) \in Contents
  BY <1>1, <1>2, ServerHeadIs DEF Merging
<1>4. /\ UNCHANGED <<commitVars, rows, seq, stubs, head, objects, staged, mergeParent>>
      /\ unresolved' \in {unresolved, unresolved \cup {p}}
      /\ cmd' = Idle \/ Merged(p)
      /\ disk' = disk \/ disk' = [disk EXCEPT ![p] = Theirs(p)] \/ \E x \in Text : disk' = [disk EXCEPT ![p] = x]
  BY DEF FastForward, ModifyDelete, BothDeleted, MergeConflict, localVars, storeVars, indexVars
<1>5. cmd' \in Step /\ CommandInv'
  <2>1. CASE cmd' = Idle
    BY <2>1, NoCommand DEF Idle, Step
  <2>2. CASE Merged(p)
    BY <1>1, <1>2, <1>4, <2>2, MergedCommand
  <2> QED
    BY <1>4, <2>1, <2>2
<1>6. disk' \in [Path -> Contents] /\ \A q \in Path : disk'[q] = disk[q] \/ q \in Readable
  BY <1>1, <1>3, <1>4 DEF TypeOK, Contents
<1> QED
  BY <1>1, <1>4, <1>5, <1>6, QuietKeeps DEF TypeOK, StoreTypeOK

\* A clean merge is stored and staged on top of the server's version.
LEMMA MergeKeeps ==
  ASSUME Inv, NEW p \in Path, MergeCleanly(p)
  PROVE  Inv'
<1>1. TypeOK /\ TablesInv /\ PullInv
  BY DEF Inv, CommandInv
<1>2. Merging(p) /\ p \in OurFiles /\ Ours(p) # Deleted /\ Theirs(p) # Deleted
  BY DEF MergeCleanly, BothModified
<1>3. /\ ServerHead(p) \in Commit /\ Stored(ServerHead(p)) /\ p \in Files(ServerHead(p))
      /\ p \in Readable /\ Theirs(p) \in Contents
  BY <1>1, <1>2, ServerHeadIs DEF Merging
<1>4. Ours(p) \in Contents
  <2>1. cmd.ours \in Commit
    <3>1. cmd.step \in PullStep /\ cmd.ours # NoCommit
      BY <1>2 DEF Merging, PullStep, OurFiles
    <3> QED
      BY <1>1, <3>1, PullFacts
  <2> QED
    BY <1>1, <2>1, Typed DEF Ours
<1>5. PICK x \in CleanTexts(BaseText(p), Ours(p), Theirs(p)) :
        /\ disk' = [disk EXCEPT ![p] = x]
        /\ objects' = objects \cup {x}
        /\ staged' = [staged EXCEPT ![p] = [text |-> x, base |-> ServerHead(p)]]
  BY DEF MergeCleanly
<1>6. x \in Text
  <2>1. CleanTexts(BaseText(p), Ours(p), Theirs(p)) \subseteq Text
    BY <1>2, <1>3, <1>4 DEF CleanTexts, Contents
  <2> QED
    BY <1>5, <2>1
<1>7. UNCHANGED <<commitVars, rows, seq, stubs, head, mergeParent, unresolved>> /\ Merged(p)
  BY DEF MergeCleanly
<1>8. PICK e : e = [text |-> x, base |-> ServerHead(p)]
  OBVIOUS
<1>9. e \in Entry /\ e.text = x /\ e.base = ServerHead(p)
  BY <1>3, <1>6, <1>8 DEF Entry, Contents
<1>10. objects \subseteq objects' /\ objects' \subseteq Text /\ x \in objects'
  BY <1>1, <1>5, <1>6 DEF TypeOK, StoreTypeOK
<1>11. cmd' \in Step /\ CommandInv'
  BY <1>1, <1>2, <1>7, <1>10, MergedCommand
<1>12. disk' \in [Path -> Contents] /\ \A q \in Path : disk'[q] = disk[q] \/ q \in Readable
  BY <1>1, <1>3, <1>5, <1>6 DEF TypeOK, Contents
<1>13. /\ staged' \in [Path -> Entry \cup {NotStaged}]
       /\ staged'[p] = e /\ \A q \in Path : q # p => staged'[q] = staged[q]
  BY <1>1, <1>5, <1>8, <1>9 DEF TypeOK
<1>14. \A q \in Path :
         \/ staged'[q] \in {staged[q], NotStaged}
         \/ /\ q \in Readable /\ staged'[q].text \in objects' \cup {Deleted}
            /\ staged'[q].base # NoCommit => Stored(staged'[q].base) /\ q \in Files(staged'[q].base)
  BY <1>3, <1>9, <1>10, <1>13
<1> QED
  BY <1>1, <1>7, <1>10, <1>11, <1>12, <1>13, <1>14, QuietKeeps DEF TypeOK

\* The recorded second parent is one that the pull has stored.
LEMMA MergeStateKeeps ==
  ASSUME Inv, SetMergeState
  PROVE  Inv'
<1>1. TypeOK /\ TablesInv /\ PullInv
  BY DEF Inv, CommandInv
<1>2. /\ UNCHANGED <<commitVars, rows, seq, stubs, head, objects, staged, unresolved, disk>>
      /\ cmd.step = "merge" /\ cmd.step \in PullStep /\ cmd' = Idle
      /\ mergeParent' \in {mergeParent, SecondParent}
  BY DEF SetMergeState, storeVars, PullStep
<1>3. SecondParent \in Range(log) /\ Stored(SecondParent)
  <2>1. /\ cmd.from \in Nat \ {0} /\ cmd.upto \in Nat /\ Fetched = cmd.from .. cmd.upto /\ Visible \subseteq Fetched
        /\ \A n \in Fetched : log[n] \in Range(log)
    BY <1>1, <1>2, PullFacts
  <2>2. Visible # {} /\ \A n \in cmd.from .. (cmd.upto + 1) - 1 : n \in Visible => Stored(log[n])
    BY <1>1, <1>2 DEF PullInv, StoredTo
  <2>3. Max(Visible) \in Visible
    <3>1. PICK b \in Int : b = cmd.upto
      BY <2>1
    <3>2. PICK V : V = Visible
      OBVIOUS
    <3>3. V \subseteq Int /\ V # {} /\ \A n \in V : n <= b
      BY <2>1, <2>2, <3>1, <3>2
    <3>4. Max(V) \in V
      BY <3>3, MaxIsGreatest
    <3> QED
      BY <3>2, <3>4
  <2>4. PICK n : n = Max(Visible) /\ n \in Visible
    BY <2>3
  <2>5. n \in Fetched /\ n \in cmd.from .. (cmd.upto + 1) - 1
    BY <2>1, <2>4
  <2> QED
    BY <2>1, <2>2, <2>4, <2>5 DEF SecondParent
<1>4. cmd' \in Step /\ CommandInv'
  BY <1>2, NoCommand DEF Idle, Step
<1>5. mergeParent' \in {mergeParent, NoCommit} \/ (mergeParent' \in Range(log) /\ Stored(mergeParent'))
  BY <1>2, <1>3
<1> QED
  BY <1>1, <1>2, <1>4, <1>5, QuietKeeps DEF TypeOK, StoreTypeOK

-----------------------------------------------------------------------------
(* Every step keeps the invariant, and so the properties hold.             *)

\* The steps of add and rm, and the user's own.
LEMMA AddNextKeeps ==
  ASSUME Inv, \E p \in Path : RunAdd(p) \/ RunRm(p) \/ \E x \in Contents : Edit(p, x)
  PROVE  Inv'
BY AddKeeps, RmKeeps, EditKeeps

\* The statements of commit.
LEMMA CommitNextKeeps ==
  ASSUME Inv, CommitNext
  PROVE  Inv'
BY CommitKeeps, ClearKeeps DEF CommitNext

\* The steps of push.
LEMMA PushNextKeeps ==
  ASSUME Inv, PushNext
  PROVE  Inv'
BY RunPushKeeps, PushOneKeeps, ClearKeeps, ConfirmKeeps, AbsorbKeeps DEF PushNext

\* The steps of pull.
LEMMA PullNextKeeps ==
  ASSUME Inv, PullNext
  PROVE  Inv'
<1>1. CASE \E p \in Path : FastForward(p) \/ ModifyDelete(p) \/ BothDeleted(p) \/ MergeCleanly(p) \/ MergeConflict(p)
  BY <1>1, FastForwardKeeps, MergeKeeps
<1>2. CASE RunPull \/ RecordRedactedStub \/ StubsRecorded \/ DownloadObjects
  BY <1>2, RunPullKeeps, StubKeeps, StubsDoneKeeps, DownloadKeeps
<1>3. CASE CheckUnstaged \/ WriteRemoteCommit \/ CommitsStored \/ SetMergeState
  BY <1>3, CheckKeeps, StoreKeeps, StoredKeeps, MergeStateKeeps
<1> QED
  BY <1>1, <1>2, <1>3 DEF PullNext

\* The statements of reset.
LEMMA ResetNextKeeps ==
  ASSUME Inv, ResetNext
  PROVE  Inv'
BY ResetKeeps, RepointKeeps, RestoreKeeps DEF ResetNext

\* Every step of Next.
LEMMA NextKeeps ==
  ASSUME Inv, Next
  PROVE  Inv'
<1>1. CASE \E p \in Path : RunAdd(p) \/ RunRm(p) \/ \E x \in Contents : Edit(p, x)
  BY <1>1, AddNextKeeps
<1>2. CASE \E c \in Commit : OthersPush(c) \/ \E p \in Path : RunCheckout(c, p)
  BY <1>2, OthersKeep, CheckoutKeeps
<1>3. CASE CommitNext \/ PushNext
  BY <1>3, CommitNextKeeps, PushNextKeeps
<1>4. CASE PullNext \/ ResetNext
  BY <1>4, PullNextKeeps, ResetNextKeeps
<1>5. CASE RunMergeAbort \/ RunClone \/ Fails
  BY <1>5, MergeAbortKeeps, CloneKeeps, ClearKeeps
<1> QED
  BY <1>1, <1>2, <1>3, <1>4, <1>5 DEF Next, Work

\* A step that changes nothing.
LEMMA StutterKeeps ==
  ASSUME Inv, UNCHANGED vars
  PROVE  Inv'
<1>1. TypeOK /\ TablesInv /\ LocalInv /\ CommandInv
  BY DEF Inv
<1>2. /\ UNCHANGED <<base, content, parent, log, rows, seq, stubs, head, objects>>
      /\ UNCHANGED <<staged, mergeParent, unresolved, disk, cmd>>
  BY DEF vars, commitVars, localVars, storeVars, indexVars
<1>3. CommandInv'
  <2>1. ChainInv' /\ ResetInv'
    BY <1>1, <1>2 DEF CommandInv, ChainInv, ResetInv, AllUnpushed, Unpushed, Stored, Rowid
  <2>2. AnswerInv'
    BY <1>1, <1>2 DEF CommandInv, AnswerInv, NextToPush, Oldest, Confirmed, Absorbed, Files, Changes, AllUnpushed,
                      Unpushed, Stored
  <2>3. AbsorbsOlder'
    BY <1>1, <1>2 DEF CommandInv, AbsorbsOlder, Confirmed, Unpushed, Stored, Rowid
  <2>4. PullInv'
    BY <1>1, <1>2 DEF CommandInv, PullInv, PullStep, NumberedTo, StubbedTo, StoredTo, FetchedLocal, Fetched, Visible,
                      NewFiles, Files, Changes, Stored, Cause, Accounted
  <2> QED
    BY <2>1, <2>2, <2>3, <2>4 DEF CommandInv
<1>4. \A p \in Path : staged'[p] = staged[p] /\ disk'[p] = disk[p]
  BY <1>2
<1> QED
  BY <1>1, <1>2, <1>3, <1>4, QuietKeeps DEF TypeOK, StoreTypeOK, commitVars

\* The invariant of Clone.
LEMMA InvHolds == Spec => []Inv
<1>1. Inv /\ [Next]_vars => Inv'
  BY NextKeeps, StutterKeeps
<1> QED
  BY InitInv, <1>1, PTL DEF Spec

\* The tables, the index, the working tree and the command in progress hold
\* values of their types, whatever requests fail, in any interleaving with the
\* pushes of other clones.
THEOREM CloneTypeCorrect == Spec => []TypeOK
<1>1. Inv => TypeOK
  BY DEF Inv
<1> QED
  BY <1>1, InvHolds, PTL

\* A number that the clone has given a commit is that of the commit with the same
\* changes in the server's log: push confirms the number that the server has
\* answered for the commit sent, and pull the number it was fetched under, so that
\* lost answers and commands cut short never shift the two against each other.
THEOREM NumbersAlwaysAgree == Spec => []NumbersAgree
<1>1. Inv => NumbersAgree
  BY DEF Inv, TablesInv, NumbersInv
<1> QED
  BY <1>1, InvHolds, PTL

\* The object store holds what the clone's commits and its index refer to: add
\* and pull write objects before the rows that name them, and neither reset nor
\* a command that ends early removes any.
THEOREM ContentAlwaysLocal == Spec => []ContentLocal
<1>1. Inv => ContentLocal
  BY DEF Inv, LocalInv
<1> QED
  BY <1>1, InvHolds, PTL

\* The head that the store keeps for a path is never behind the confirmed
\* versions of the path: push, pull in the order of the numbers, and reset path
\* by path all keep it so, and a pulled version is never older than the head.
THEOREM HeadNeverBehind == Spec => []HeadNotBehind
<1>1. Inv => HeadNotBehind
  BY DEF Inv, TablesInv, HeadInv
<1> QED
  BY <1>1, InvHolds, PTL

\* A number at or below the cursor of the next pull that the clone has neither
\* commit nor stub for lies below one it pushed or below a stub of a pull that
\* ended early: no pull that stores what it has fetched skips a number.
THEOREM GapsAlwaysHaveCause == Spec => []GapsHaveCause
<1>1. Inv => GapsHaveCause
  <2> SUFFICES ASSUME Inv PROVE GapsHaveCause
    OBVIOUS
  <2>1. \A n \in 1 .. MaxConfirmedSeq : Cause(n)
    BY CursorIs DEF Inv
  <2> QED
    BY <2>1 DEF GapsHaveCause, Cause
<1> QED
  BY <1>1, InvHolds, PTL

\* What a push absorbs once its chain is sent lies below a commit of the clone
\* that the server has accepted: AbsorbAllUnpushedCommits never gives up a commit
\* that is newer than all that was pushed.
THEOREM AbsorbsOnlyOlder == Spec => []AbsorbsOlder
<1>1. Inv => AbsorbsOlder
  BY DEF Inv, CommandInv
<1> QED
  BY <1>1, InvHolds, PTL

\* The server's log never has a commit twice, although an answer may be lost and
\* the clone then pushes the same commit again: the first one has moved the heads
\* that the second one would have to start from.
THEOREM PushedOnce == Spec => []Once
<1>1. Inv => Once
  BY DEF Inv, TablesInv, LogInv
<1> QED
  BY <1>1, InvHolds, PTL

-----------------------------------------------------------------------------
(* What a step never takes back.                                           *)

\* Only a fresh clone forgets a number; and the cursor never moves back.
NumbersForGood == \A c \in Commit : seq[c] # 0 => seq'[c] = seq[c]
CursorGrows    == MaxConfirmedSeq' >= MaxConfirmedSeq

\* The part of CursorIs that the next state is asked for.
CursorFacts ==
  /\ MaxConfirmedSeq \in Nat /\ MaxConfirmedSeq <= Len(log)
  /\ \A c \in Commit : seq[c] <= MaxConfirmedSeq
  /\ \A m \in stubs : m <= MaxConfirmedSeq
  /\ MaxConfirmedSeq \in {0} \cup {seq[c] : c \in Commit} \cup stubs

\* Statements that write numbers write those of commits that have none.
LEMMA NumbersStay ==
  ASSUME Inv, [Next]_vars
  PROVE  RunClone \/ (NumbersForGood /\ stubs \subseteq stubs')
<1>1. TypeOK /\ TablesInv /\ ChainInv /\ PullInv /\ seq \in [Commit -> Int]
  BY Typed DEF Inv, CommandInv
<1>2. CASE UNCHANGED <<seq, stubs>>
  BY <1>2 DEF NumbersForGood
<1>3. CASE ConfirmSeq
  <2>1. seq' = [seq EXCEPT ![NextToPush] = cmd.number] /\ stubs' = stubs /\ cmd.step = "confirm"
    BY <1>3 DEF ConfirmSeq
  <2>2. seq[NextToPush] = 0
    BY <1>1, <2>1, NextIs
  <2> QED
    BY <1>1, <2>1, <2>2 DEF NumbersForGood
<1>4. CASE AbsorbAllUnpushed /\ UNCHANGED stubs
  BY <1>1, <1>4 DEF AbsorbAllUnpushed, Unpushed, NumbersForGood
<1>5. CASE RecordRedactedStub
  BY <1>5 DEF RecordRedactedStub, NumbersForGood
<1>6. CASE WriteRemoteCommit
  <2>1. stubs' = stubs /\ cmd.step = "store" /\ cmd.step \in PullStep
    BY <1>6 DEF WriteRemoteCommit, storeVars, PullStep
  <2>2. CASE seq' = seq
    BY <2>1, <2>2 DEF NumbersForGood
  <2>3. CASE ~ Stored(log[cmd.next]) /\ seq' = [seq EXCEPT ![log[cmd.next]] = cmd.next]
    <3>1. \A c \in Commit : seq[c] # 0 => Stored(c)
      BY <1>1 DEF TablesInv, RowsInv
    <3> QED
      BY <1>1, <2>1, <2>3, <3>1 DEF NumbersForGood
  <2> QED
    BY <1>6, <2>2, <2>3 DEF WriteRemoteCommit, storeVars
<1>7. CASE Work
  <2>1. CASE \E p \in Path : RunAdd(p) \/ RunRm(p) \/ \E x \in Contents : Edit(p, x)
    BY <1>2, <2>1 DEF RunAdd, RunRm, Edit, storeVars
  <2>2. CASE \E c \in Commit : OthersPush(c) \/ \E p \in Path : RunCheckout(c, p)
    BY <1>2, <2>2 DEF OthersPush, RunCheckout, localVars, storeVars
  <2>3. CASE CommitNext
    BY <1>2, <2>3 DEF CommitNext, RunCommit, ClearIndex, ClearMergeState, storeVars
  <2>4. CASE PushNext
    BY <1>2, <1>3, <1>4, <2>4 DEF PushNext, RunPush, PushOne, Rejected, AbsorbTheRest, localVars, storeVars
  <2>5. CASE PullNext
    <3>1. CASE \E p \in Path : FastForward(p) \/ ModifyDelete(p) \/ BothDeleted(p) \/ MergeCleanly(p) \/ MergeConflict(p)
      BY <1>2, <3>1 DEF FastForward, ModifyDelete, BothDeleted, MergeCleanly, MergeConflict, localVars, storeVars
    <3>2. CASE RunPull \/ StubsRecorded \/ DownloadObjects \/ CheckUnstaged \/ CommitsStored \/ SetMergeState
      BY <1>2, <3>2 DEF RunPull, StubsRecorded, DownloadObjects, CheckUnstaged, CommitsStored, SetMergeState,
                        localVars, storeVars
    <3> QED
      BY <1>5, <1>6, <2>5, <3>1, <3>2 DEF PullNext
  <2>6. CASE ResetNext
    BY <1>2, <1>4, <2>6 DEF ResetNext, RunReset, RepointHead, RestoreFile, storeVars
  <2>7. CASE RunMergeAbort
    BY <1>2, <2>7 DEF RunMergeAbort, storeVars
  <2> QED
    BY <1>7, <2>1, <2>2, <2>3, <2>4, <2>5, <2>6, <2>7 DEF Work
<1>8. CASE Fails \/ UNCHANGED vars
  BY <1>2, <1>8 DEF Fails, vars, localVars, storeVars
<1> QED
  BY <1>7, <1>8 DEF Next

\* A fresh clone accounts for every number of the log.
LEMMA CloneCursor ==
  ASSUME TypeOK, TablesInv, CursorFacts, CursorFacts', RunClone
  PROVE  CursorGrows
<1> DEFINE numbers == {n \in DOMAIN log : Files(log[n]) # {}}
           visible == {log[n] : n \in numbers}
<1>1. /\ log # << >> /\ log' = log
      /\ seq' = [c \in Commit |-> IF c \in visible THEN CHOOSE n \in numbers : log[n] = c ELSE 0]
      /\ stubs' = DOMAIN log \ numbers
  BY DEF RunClone, commitVars
<1>2. log \in Seq(Commit) /\ Len(log) \in Nat /\ DOMAIN log = 1 .. Len(log)
  BY Typed
<1>3. PICK l \in Nat : l = Len(log)
  BY <1>2
<1>4. l \in DOMAIN log /\ log[l] \in Commit
  BY <1>1, <1>2, <1>3
<1>5. l <= MaxConfirmedSeq'
  <2>1. CASE l \in numbers
    <3>1. log[l] \in visible
      BY <2>1
    <3>2. \A n \in numbers : log[n] = log[l] => n = l
      BY <1>4 DEF TablesInv, LogInv, Once
    <3>3. (CHOOSE n \in numbers : log[n] = log[l]) = l
      BY <2>1, <3>2
    <3>4. seq'[log[l]] = l
      BY <1>1, <1>4, <3>1, <3>3
    <3> QED
      BY <1>4, <3>4 DEF CursorFacts
  <2>2. CASE l \notin numbers
    <3>1. l \in stubs'
      BY <1>1, <1>4, <2>2
    <3> QED
      BY <3>1 DEF CursorFacts
  <2> QED
    BY <2>1, <2>2
<1> QED
  BY <1>3, <1>5 DEF CursorGrows, CursorFacts

\* Each step keeps what the cursor is the greatest of, or is a fresh clone.
LEMMA CursorStep ==
  ASSUME Inv, CursorFacts, CursorFacts', [Next]_vars
  PROVE  CursorGrows
<1>1. CASE RunClone
  BY <1>1, CloneCursor DEF Inv
<1>2. CASE NumbersForGood /\ stubs \subseteq stubs'
  <2>1. PICK m \in Nat : m = MaxConfirmedSeq
    BY DEF CursorFacts
  <2>2. m <= MaxConfirmedSeq'
    <3>1. CASE m = 0
      BY <3>1 DEF CursorFacts
    <3>2. CASE m \in stubs
      BY <1>2, <3>2 DEF CursorFacts
    <3>3. CASE m # 0 /\ \E c \in Commit : m = seq[c]
      BY <1>2, <3>3 DEF CursorFacts, NumbersForGood
    <3> QED
      BY <2>1, <3>1, <3>2, <3>3 DEF CursorFacts
  <2> QED
    BY <2>1, <2>2 DEF CursorGrows
<1> QED
  BY <1>1, <1>2, NumbersStay

\* A number that push or pull has given a commit, and the mark of one that was
\* absorbed, stay until the repository is cloned afresh: AbsorbAllUnpushedCommits
\* reaches unpushed commits alone, and no commit is confirmed or stored twice.
THEOREM NumbersStayGiven == Spec => [][RunClone \/ NumbersForGood]_vars
<1>1. Inv /\ [Next]_vars => [RunClone \/ NumbersForGood]_vars
  BY NumbersStay
<1> QED
  BY <1>1, InvHolds, PTL DEF Spec

\* The number a pull starts after never moves back, whatever commands end early:
\* not by reset, and not when the repository is cloned afresh.
THEOREM CursorNeverBack == Spec => [][CursorGrows]_vars
<1>1. Inv => CursorFacts
  BY CursorIs DEF Inv, CursorFacts
<1>2. Inv /\ CursorFacts /\ CursorFacts' /\ [Next]_vars => [CursorGrows]_vars
  BY CursorStep
<1> QED
  BY <1>1, <1>2, InvHolds, PTL DEF Spec

\* The versions of a file in the server's log form one line: each push starts
\* from the latest one, in the interleaving with other clones and whether or not
\* the pusher was told.
THEOREM VersionsInOneLine == Spec => []LogLinear
<1>1. Inv => LogLinear
  BY DEF Inv, TablesInv, LogInv
<1> QED
  BY <1>1, InvHolds, PTL

\* What the clone may still push, or has given up, starts from what it has.
StartsFromKnown == \A c \in Range(rows) : ~ Confirmed(c) => StartsFromStored(c)

\* What is not confirmed starts from versions that the clone has, in rows before
\* its own, so that a merge finds the base it needs: add takes the head, and a
\* clean merge the server's version that the pull has stored.
THEOREM BasesStayKnown == Spec => []StartsFromKnown
<1>1. Inv => StartsFromKnown
  BY DEF Inv, TablesInv, HeadInv, StartsFromKnown
<1> QED
  BY <1>1, InvHolds, PTL

-----------------------------------------------------------------------------
(* The server that Clone assumes is that of CommitLog.                     *)

\* A commit is made and appended, seen as one step: the clone is not shown when
\* others make their commits, and under another id the server makes one itself.
MakeAndAppend(c) ==
  /\ Changes(c) = {}
  /\ \A i \in DOMAIN log : log[i] # c
  /\ \E f \in [Path -> Commit \cup {NoCommit, Untouched}] :
       /\ \E p \in Path : f[p] # Untouched
       /\ \A p \in Path : f[p] # Untouched => f[p] = Latest(p)
       /\ base' = [base EXCEPT ![c] = f]
  /\ log' = Append(log, c)

LogStep == \E c \in Commit : Make(c) \/ AppendCommit(c) \/ MakeAndAppend(c)

\* A commit of the clone is made with what was staged.
LEMMA CommitMakes ==
  ASSUME Inv, NEW c \in Mine, RunCommit(c)
  PROVE  Make(c)
<1>1. /\ base \in [Commit -> [Path -> Commit \cup {NoCommit, Untouched}]]
      /\ staged \in [Path -> Entry \cup {NotStaged}]
  BY Typed DEF Inv, TypeOK
<1> DEFINE f == [p \in Path |-> IF staged[p] = NotStaged THEN Untouched ELSE staged[p].base]
<1>2. Changes(c) = {} /\ base' = [base EXCEPT ![c] = f] /\ log' = log
  BY DEF RunCommit
<1>3. f \in [Path -> Commit \cup {NoCommit, Untouched}]
  <2>1. \A p \in Path : staged[p] # NotStaged => staged[p].base \in Commit \cup {NoCommit}
    BY <1>1 DEF Entry
  <2> QED
    BY <2>1
<1> HIDE DEF f
<1> QED
  BY <1>2, <1>3 DEF Make

\* The latest version of a path is a commit, if there is one.
LEMMA LatestTyped ==
  ASSUME TypeOK, NEW p \in Path
  PROVE  Latest(p) \in Commit \cup {NoCommit}
<1>1. log \in Seq(Commit) /\ \A n \in DOMAIN log : log[n] \in Commit
  BY Typed
<1> QED
  BY <1>1, LatestIs

\* What others push changes the latest versions.
LEMMA OthersAppend ==
  ASSUME Inv, NEW c \in Commit, OthersPush(c)
  PROVE  MakeAndAppend(c)
<1>1. TypeOK /\ TablesInv
  BY DEF Inv
<1>2. \A i \in DOMAIN log : log[i] # c
  BY <1>1, OthersKeepTables DEF TablesInv, LogInv
<1>3. PICK f \in [Path -> Contents \cup {Untouched}] :
        /\ \E p \in Path : f[p] # Untouched
        /\ base' = [base EXCEPT ![c] = [p \in Path |-> IF f[p] = Untouched THEN Untouched ELSE Latest(p)]]
  BY DEF OthersPush
<1> DEFINE g == [p \in Path |-> IF f[p] = Untouched THEN Untouched ELSE Latest(p)]
<1>4. \A p \in Path : Latest(p) \in Commit \cup {NoCommit}
  BY <1>1, LatestTyped
<1>5. g \in [Path -> Commit \cup {NoCommit, Untouched}]
  BY <1>4
<1>6. /\ \E p \in Path : g[p] # Untouched
      /\ \A p \in Path : g[p] # Untouched => g[p] = Latest(p)
  <2>1. \A p \in Path : Latest(p) # Untouched
    BY <1>4, CloneConstants
  <2> QED
    BY <1>3, <2>1
<1>7. base' = [base EXCEPT ![c] = g] /\ log' = Append(log, c) /\ Changes(c) = {}
  BY <1>3 DEF OthersPush
<1> HIDE DEF g
<1> QED
  BY <1>2, <1>5, <1>6, <1>7 DEF MakeAndAppend

\* What the clone pushes is appended where its bases match, and for the first
\* time.
LEMMA PushAppends ==
  ASSUME Inv, Inv', PushOne
  PROVE  \E c \in Commit : AppendCommit(c) \/ MakeAndAppend(c)
<1>1. TypeOK /\ TablesInv /\ ChainInv /\ cmd.step \in {"send", "confirm"}
  BY DEF Inv, CommandInv, PushOne
<1>2. /\ base \in [Commit -> [Path -> Commit \cup {NoCommit, Untouched}]]
      /\ log \in Seq(Commit) /\ Len(log) \in Nat /\ DOMAIN log = 1 .. Len(log)
  BY <1>1, Typed
<1>3. PICK c : c = NextToPush
  OBVIOUS
<1>4. c \in Commit /\ IsMade(c)
  <2>1. NextToPush \in AllUnpushed /\ Stored(NextToPush)
    BY <1>1, NextIs
  <2> QED
    BY <1>1, <1>3, <2>1, LogMade DEF Stored
<1>5. BasesMatch(c)
  BY <1>3 DEF PushOne
<1>6. PICK d \in Commit :
        /\ IF ParentSent(c) = parent[c] THEN d = c ELSE d \notin Mine /\ Changes(d) = {}
        /\ log' = Append(log, d)
        /\ base' = [base EXCEPT ![d] = base[c]]
  BY <1>3 DEF PushOne
<1>7. \A i \in DOMAIN log : log[i] # d
  <2> SUFFICES ASSUME NEW i \in DOMAIN log, log[i] = d PROVE FALSE
    OBVIOUS
  <2>1. PICK l \in Nat : l = Len(log) + 1
    BY <1>2
  <2>2. DOMAIN log' = 1 .. l /\ log'[l] = d /\ log'[i] = d /\ i \in 1 .. l /\ i # l
    BY <1>2, <1>6, <2>1
  <2>3. Once'
    BY DEF Inv, TablesInv, LogInv
  <2>4. \A m, n \in DOMAIN log' : log'[m] = log'[n] => m = n
    BY <2>3 DEF Once
  <2> QED
    BY <2>1, <2>2, <2>4
<1>8. CASE d = c
  <2>1. base' = base
    BY <1>2, <1>4, <1>6, <1>8
  <2>2. AppendCommit(c)
    BY <1>4, <1>5, <1>6, <1>7, <1>8, <2>1 DEF AppendCommit, IsMade, BasesMatch
  <2> QED
    BY <1>4, <2>2
<1>9. CASE d # c
  <2>1. Changes(d) = {}
    BY <1>6, <1>9
  <2>2. PICK f : f = base[c]
    OBVIOUS
  <2>3. f \in [Path -> Commit \cup {NoCommit, Untouched}]
    BY <1>2, <1>4, <2>2
  <2>4. \A p \in Path : f[p] # Untouched => f[p] = Latest(p)
    BY <1>5, <2>2 DEF BasesMatch, Changes
  <2>5. \E p \in Path : f[p] # Untouched
    BY <1>4, <2>2 DEF IsMade, Changes
  <2>6. base' = [base EXCEPT ![d] = f]
    BY <1>6, <2>2
  <2> QED
    BY <1>6, <1>7, <2>1, <2>3, <2>4, <2>5, <2>6 DEF MakeAndAppend
<1> QED
  BY <1>8, <1>9

\* No other step touches the log, or what commits start from.
LEMMA NextUsesLog ==
  ASSUME Inv, Inv', Next
  PROVE  LogStep \/ UNCHANGED <<base, log>>
<1>1. CASE \E c \in Mine : RunCommit(c)
  BY <1>1, CommitMakes, CloneConstants DEF LogStep
<1>2. CASE \E c \in Commit : OthersPush(c)
  BY <1>2, OthersAppend DEF LogStep
<1>3. CASE PushOne
  BY <1>3, PushAppends DEF LogStep
<1>4. CASE \E p \in Path : RunAdd(p) \/ RunRm(p) \/ \E x \in Contents : Edit(p, x)
  BY <1>4 DEF RunAdd, RunRm, Edit, commitVars
<1>5. CASE (\E c \in Commit, p \in Path : RunCheckout(c, p)) \/ RunMergeAbort \/ RunClone \/ Fails
  BY <1>5 DEF RunCheckout, RunMergeAbort, RunClone, Fails, commitVars
<1>6. CASE ClearIndex \/ ClearMergeState
  BY <1>6 DEF ClearIndex, ClearMergeState, commitVars
<1>7. CASE RunPush \/ Rejected \/ ConfirmSeq \/ AbsorbTheRest
  BY <1>7 DEF RunPush, Rejected, ConfirmSeq, AbsorbTheRest, commitVars
<1>8. CASE PullNext
  <2>1. CASE \E p \in Path : FastForward(p) \/ ModifyDelete(p) \/ BothDeleted(p) \/ MergeCleanly(p) \/ MergeConflict(p)
    BY <2>1 DEF FastForward, ModifyDelete, BothDeleted, MergeCleanly, MergeConflict, commitVars
  <2>2. CASE RunPull \/ RecordRedactedStub \/ StubsRecorded \/ DownloadObjects
    BY <2>2 DEF RunPull, RecordRedactedStub, StubsRecorded, DownloadObjects, commitVars
  <2>3. CASE CheckUnstaged \/ WriteRemoteCommit \/ CommitsStored \/ SetMergeState
    BY <2>3 DEF CheckUnstaged, WriteRemoteCommit, CommitsStored, SetMergeState, commitVars
  <2> QED
    BY <1>8, <2>1, <2>2, <2>3 DEF PullNext
<1>9. CASE ResetNext
  BY <1>9 DEF ResetNext, RunReset, RepointHead, RestoreFile, commitVars
<1> QED
  BY <1>1, <1>2, <1>3, <1>4, <1>5, <1>6, <1>7, <1>8, <1>9 DEF Next, Work, CommitNext, PushNext

\* The server that the clone talks to behaves as the one-step log of CommitLog,
\* which PushServer implements, whatever the clone sends, repeats or gives up:
\* nothing proved about Clone rests on a server that does more than that.
THEOREM CloneUsesLog == Spec => LogInit /\ [][LogStep]_<<base, log>>
<1>1. Init => LogInit
  BY DEF Init, StoreInit
<1>2. Inv /\ Inv' /\ [Next]_vars => [LogStep]_<<base, log>>
  BY NextUsesLog DEF vars, commitVars
<1> QED
  BY <1>1, <1>2, InvHolds, PTL DEF Spec
=============================================================================
