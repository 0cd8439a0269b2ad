----------------------------- MODULE PushProofs -----------------------------
(***************************************************************************)
(* Proofs about PushServer, for any number of principals, commits, paths   *)
(* and threads, and any number of crashes.                                 *)
(*                                                                         *)
(* None of the properties of PushServer is inductive.  Inv joins them with *)
(* what they rest on: the lock is held exactly by the thread inside the    *)
(* locked section, a request keeps what its earlier steps established, and *)
(* the sequence numbers in use are 1 to n for some n.                      *)
(***************************************************************************)
EXTENDS PushServer, AccessProofs

\* The write lock is held by the thread in the locked section, if there is one.
LockHeld == \A w \in Pusher : push[w].step \in Locked <=> lock = w

\* What a request has established at each of its steps.
RequestsMade ==
  \A w \in Pusher : push[w] # Idle =>
    /\ Changes(push[w].commit) # {}
    /\ push[w].step \notin {"member", "objects"} => HasObjects(push[w].commit)
    /\ push[w].step \in {"lookup", "publish"} => Stored(push[w].commit)

\* A version that a change starts from is a version of the same file.
BasesMade ==
  \A c \in Commit : \A p \in Changes(c) : base[c][p] # NoCommit => p \in Changes(base[c][p])

StoredMade == \A c \in Commit : Stored(c) => Changes(c) # {}

\* n is the highest sequence number in use, and none below it is free.
CountedTo(n) ==
  /\ \A c \in Commit : seq[c] \in 0 .. n
  /\ \A k \in 1 .. n : \E c \in Commit : seq[c] = k

SeqUnique == \A c, d \in Commit : Stored(c) /\ seq[c] = seq[d] => c = d

\* A commit about to be published is newer than all that were.
PublishedBelow ==
  \A w \in Pusher : push[w].step \in {"lookup", "publish"} =>
    \A i \in DOMAIN published : published[i] < seq[push[w].commit]

CommitInv ==
  /\ BasesMade /\ StoredMade
  /\ \E n \in Nat : CountedTo(n)
  /\ SeqUnique
  /\ LinearHistory /\ HeadIsLatest /\ ContentPresent /\ RegistryFollowsLog

RequestInv == LockHeld /\ RequestsMade /\ CheckedStillHolds

PublishInv == PublishedInOrder /\ PublishedBelow

Inv == AdminInv /\ TypeOK /\ CommitInv /\ RequestInv /\ PublishInv

-----------------------------------------------------------------------------
(* The initial state.                                                      *)

LEMMA InitInv == Init => Inv
<1> SUFFICES ASSUME Init PROVE Inv
  OBVIOUS
<1>1. AdminInv
  BY AccessInitInv DEF Init
<1>2. TypeOK
  <2>1. << >> \in Seq(Nat)
    OBVIOUS
  <2> QED
    BY <1>1, <2>1, AccessConstants DEF AdminInv, Init, PushInit, TypeOK
<1>3. \A c \in Commit : Changes(c) = {} /\ seq[c] = 0 /\ ~ Stored(c)
  BY DEF Init, PushInit, Changes, Stored
<1>4. CommitInv
  <2>1. CountedTo(0)
    BY <1>3 DEF CountedTo
  <2>2. BasesMade /\ StoredMade /\ SeqUnique
    BY <1>3 DEF BasesMade, StoredMade, SeqUnique
  <2>3. LinearHistory /\ HeadIsLatest /\ ContentPresent /\ RegistryFollowsLog
    BY <1>3 DEF LinearHistory, HeadIsLatest, ContentPresent, RegistryFollowsLog, Init, PushInit
  <2> QED
    BY <2>1, <2>2, <2>3 DEF CommitInv
<1>5. \A w \in Pusher : push[w] = Idle /\ lock # w
  BY PushConstants DEF Init, PushInit
<1>6. RequestInv
  BY <1>5 DEF RequestInv, LockHeld, RequestsMade, CheckedStillHolds, Locked, Idle
<1>7. PublishInv
  <2>1. DOMAIN published = {}
    BY DEF Init, PushInit
  <2> QED
    BY <2>1 DEF PublishInv, PublishedInOrder, PublishedBelow
<1> QED
  BY <1>1, <1>2, <1>4, <1>6, <1>7 DEF Inv

-----------------------------------------------------------------------------
(* Sequence numbers.                                                       *)

\* MAX(seq) of numbers that are 1 to n, or none, is n.
LEMMA MaxOfCounted ==
  ASSUME NEW s, NEW n \in Nat,
         \A c \in Commit : s[c] \in 0 .. n,
         \A k \in 1 .. n : \E c \in Commit : s[c] = k
  PROVE  Max({0} \cup {s[c] : c \in Commit}) = n
<1> DEFINE S == {0} \cup {s[c] : c \in Commit}
<1>1. S \subseteq Int /\ \A x \in S : x <= n
  OBVIOUS
<1>2. n \in S
  OBVIOUS
<1> HIDE DEF S
<1> QED
  BY <1>1, <1>2, MaxIsGreatest DEF S

LEMMA NextSeqIs ==
  ASSUME NEW n \in Nat, CountedTo(n)
  PROVE  NextSeq = n + 1
BY MaxOfCounted DEF NextSeq, CountedTo

-----------------------------------------------------------------------------
(* The transaction.                                                        *)

\* The heart of the matter: a commit whose bases are the heads extends the
\* history by one version of each of its paths, and keeps all that is said of it.
LEMMA WriteKeepsCommits ==
  ASSUME Inv, NEW c \in Commit, NEW enforced \in BOOLEAN,
         BasesMatch(c), ~ Stored(c), Changes(c) # {}, HasObjects(c),
         seq' = [seq EXCEPT ![c] = NextSeq], head' = HeadsAfter(c), files' = Registered(c),
         UNCHANGED <<commitVars, objects>>
  PROVE  CommitInv'
<1>1. /\ seq \in [Commit -> Nat] /\ base \in [Commit -> [Path -> Commit \cup {NoCommit, Untouched}]]
      /\ head \in [Path -> Commit \cup {NoCommit}]
  BY DEF Inv, TypeOK
<1>2. PICK n \in Nat : CountedTo(n)
  BY DEF Inv, CommitInv
<1>3. seq' \in [Commit -> Nat] /\ seq'[c] = n + 1 /\ \A d \in Commit : d # c => seq'[d] = seq[d]
  BY <1>1, <1>2, NextSeqIs
<1>4. \A d \in Commit : Changes(d)' = Changes(d)
  BY DEF commitVars, Changes
<1>5. \A d \in Commit : (Stored(d)' <=> seq'[d] > 0) /\ (Stored(d)' <=> Stored(d) \/ d = c)
  BY <1>1, <1>3 DEF Stored
<1>6. \A d \in Commit : Stored(d) => d # c /\ seq[d] <= n /\ seq[d] < seq'[c]
  BY <1>1, <1>2, <1>3 DEF CountedTo
<1>7. \A p \in Path : head'[p] = IF p \in Changes(c) THEN c ELSE head[p]
  BY DEF HeadsAfter
<1>8. (\E m \in Nat : CountedTo(m))'
  <2>1. \A d \in Commit : seq'[d] \in 0 .. n + 1
    BY <1>2, <1>3 DEF CountedTo
  <2>2. ASSUME NEW k \in 1 .. n + 1
        PROVE  \E d \in Commit : seq'[d] = k
    <3>1. CASE k = n + 1
      BY <1>3, <3>1
    <3>2. CASE k \in 1 .. n
      <4>1. PICK d \in Commit : seq[d] = k
        BY <1>2, <3>2 DEF CountedTo
      <4>2. d # c
        BY <3>2, <4>1 DEF Stored
      <4> QED
        BY <1>3, <4>1, <4>2
    <3> QED
      BY <3>1, <3>2
  <2>3. CountedTo(n + 1)'
    BY <2>1, <2>2 DEF CountedTo
  <2> QED
    BY <2>3
<1>9. SeqUnique'
  <2> SUFFICES ASSUME NEW d \in Commit, NEW e \in Commit, Stored(d)', seq'[d] = seq'[e]
               PROVE  d = e
    BY DEF SeqUnique
  <2>1. Stored(e)'
    BY <1>5
  <2>2. CASE d = c \/ e = c
    BY <1>3, <1>5, <1>6, <2>1, <2>2
  <2>3. CASE d # c /\ e # c
    BY <1>3, <1>5, <2>3 DEF Inv, CommitInv, SeqUnique
  <2> QED
    BY <2>2, <2>3
<1>10. BasesMade' /\ StoredMade'
  <2>1. BasesMade'
    BY DEF Inv, CommitInv, BasesMade, Changes, commitVars
  <2>2. StoredMade'
    BY <1>4, <1>5 DEF Inv, CommitInv, StoredMade
  <2> QED
    BY <2>1, <2>2
<1>11. LinearHistory'
  <2> SUFFICES ASSUME NEW e \in Commit, Stored(e)', NEW p \in Changes(e)
               PROVE  /\ base[e][p] # NoCommit => seq'[base[e][p]] > 0 /\ seq'[base[e][p]] < seq'[e]
                      /\ \A d \in Commit : Stored(d)' /\ p \in Changes(d) /\ seq'[d] < seq'[e] =>
                           base[e][p] # NoCommit /\ seq'[d] <= seq'[base[e][p]]
    BY <1>4 DEF LinearHistory, Stored, commitVars
  <2>1. p \in Path /\ base[e][p] # Untouched
    BY DEF Changes
  <2>2. base[e][p] \in Commit \cup {NoCommit}
    BY <1>1, <2>1
  <2>3. CASE e = c
    <3>1. base[e][p] = head[p]
      BY <2>3 DEF BasesMatch
    <3>2. base[e][p] # NoCommit => Stored(base[e][p])
      BY <2>1, <3>1 DEF Inv, CommitInv, HeadIsLatest
    <3>3. ASSUME NEW d \in Commit, Stored(d)', p \in Changes(d), seq'[d] < seq'[e]
          PROVE  base[e][p] # NoCommit /\ seq'[d] <= seq'[base[e][p]]
      <4>1. d # c /\ Stored(d)
        BY <1>1, <1>3, <1>5, <2>3, <3>3
      <4>2. head[p] # NoCommit /\ seq[d] <= seq[head[p]]
        BY <2>1, <3>3, <4>1 DEF Inv, CommitInv, HeadIsLatest
      <4> QED
        BY <1>3, <1>6, <2>2, <3>1, <3>2, <4>1, <4>2
    <3> QED
      BY <1>3, <1>5, <1>6, <2>2, <2>3, <3>2, <3>3
  <2>4. CASE e # c
    <3>1. Stored(e) /\ seq'[e] = seq[e]
      BY <1>3, <1>5, <2>4
    <3>2. /\ base[e][p] # NoCommit => Stored(base[e][p]) /\ seq[base[e][p]] < seq[e]
          /\ \A d \in Commit : Stored(d) /\ p \in Changes(d) /\ seq[d] < seq[e] =>
               base[e][p] # NoCommit /\ seq[d] <= seq[base[e][p]]
      BY <3>1 DEF Inv, CommitInv, LinearHistory
    <3>3. base[e][p] # NoCommit =>
            seq'[base[e][p]] > 0 /\ seq'[base[e][p]] = seq[base[e][p]]
      BY <1>3, <1>5, <1>6, <2>2, <3>2
    <3>4. ASSUME NEW d \in Commit, Stored(d)', seq'[d] < seq'[e]
          PROVE  Stored(d) /\ seq'[d] = seq[d]
      <4>1. d # c
        BY <1>1, <1>2, <1>3, <1>6, <3>1, <3>4
      <4> QED
        BY <1>3, <1>5, <3>4, <4>1
    <3> QED
      BY <3>1, <3>2, <3>3, <3>4
  <2> QED
    BY <2>3, <2>4
<1>12. HeadIsLatest'
  <2> SUFFICES ASSUME NEW p \in Path
               PROVE  /\ head'[p] # NoCommit => seq'[head'[p]] > 0 /\ p \in Changes(head'[p])
                      /\ \A d \in Commit : Stored(d)' /\ p \in Changes(d) =>
                           head'[p] # NoCommit /\ seq'[d] <= seq'[head'[p]]
    <3>1. head' \in [Path -> Commit \cup {NoCommit}]
      BY <1>1 DEF HeadsAfter
    <3> QED
      BY <3>1 DEF HeadIsLatest, Stored, Changes, commitVars
  <2>1. /\ head[p] # NoCommit => Stored(head[p]) /\ p \in Changes(head[p])
        /\ \A d \in Commit : Stored(d) /\ p \in Changes(d) =>
             head[p] # NoCommit /\ seq[d] <= seq[head[p]]
    BY DEF Inv, CommitInv, HeadIsLatest
  <2>2. CASE p \in Changes(c)
    <3>1. head'[p] = c /\ c # NoCommit
      BY <1>7, <2>2, PushConstants
    <3>2. \A d \in Commit : Stored(d)' => seq'[d] <= seq'[c]
      BY <1>1, <1>3, <1>5, <1>6
    <3> QED
      BY <1>5, <2>2, <3>1, <3>2
  <2>3. CASE p \notin Changes(c)
    <3>1. head'[p] = head[p]
      BY <1>7, <2>3
    <3>2. head[p] # NoCommit => head[p] \in Commit /\ seq'[head[p]] = seq[head[p]] /\ seq'[head[p]] > 0
      BY <1>1, <1>3, <1>5, <1>6, <2>1
    <3>3. \A d \in Commit : Stored(d)' /\ p \in Changes(d) => Stored(d) /\ seq'[d] = seq[d]
      BY <1>3, <1>5, <2>3
    <3> QED
      BY <2>1, <3>1, <3>2, <3>3
  <2> QED
    BY <2>2, <2>3
<1>13. ContentPresent'
  <2>1. \A d \in Commit : Stored(d) \/ d = c => HasObjects(d)
    BY DEF Inv, CommitInv, ContentPresent, HasObjects
  <2>2. \A d \in Commit : Stored(d)' =>
          \A p \in Changes(d) : content[d][p] \in objects \cup {Deleted}
    BY <1>5, <2>1 DEF HasObjects
  <2> QED
    BY <1>4, <2>2 DEF ContentPresent, commitVars
<1>14. RegistryFollowsLog'
  <2> SUFFICES ASSUME NEW p \in Path
               PROVE  p \in Registered(c) <=>
                        \E d \in Commit : Stored(d)' /\ p \in Changes(d) /\ content[d][p] # Deleted
    BY <1>4 DEF RegistryFollowsLog, commitVars
  <2>1. p \in files <=>
          \E d \in Commit : Stored(d) /\ p \in Changes(d) /\ content[d][p] # Deleted
    BY DEF Inv, CommitInv, RegistryFollowsLog
  <2>2. p \in Registered(c) <=> p \in files \/ (p \in Changes(c) /\ content[c][p] # Deleted)
    BY DEF Registered
  <2> QED
    BY <1>5, <2>1, <2>2
<1> QED
  BY <1>8, <1>9, <1>10, <1>11, <1>12, <1>13, <1>14 DEF CommitInv

\* What is said of the tables depends on nothing else.
LEMMA TablesSame == CommitInv /\ UNCHANGED <<commitVars, storeVars>> => CommitInv'
<1> SUFFICES ASSUME CommitInv, UNCHANGED <<commitVars, storeVars>> PROVE CommitInv'
  OBVIOUS
<1>1. UNCHANGED <<content, base, objects, seq, head, files>>
  BY DEF commitVars, storeVars
<1>2. BasesMade' /\ StoredMade'
  BY <1>1 DEF CommitInv, BasesMade, StoredMade, Stored, Changes
<1>3. (\E n \in Nat : CountedTo(n))' /\ SeqUnique'
  BY <1>1 DEF CommitInv, CountedTo, SeqUnique, Stored
<1>4. LinearHistory' /\ HeadIsLatest'
  BY <1>1 DEF CommitInv, LinearHistory, HeadIsLatest, Stored, Changes
<1>5. ContentPresent' /\ RegistryFollowsLog'
  BY <1>1 DEF CommitInv, ContentPresent, RegistryFollowsLog, Stored, Changes
<1> QED
  BY <1>2, <1>3, <1>4, <1>5 DEF CommitInv

-----------------------------------------------------------------------------
(* Clients.                                                                *)

\* A new commit is no head, no base and not stored, so nothing refers to it.
LEMMA MakeKeepsCommits ==
  ASSUME Inv, NEW c \in Commit, NEW a \in Principal, MakeCommit(c, a)
  PROVE  /\ CommitInv'
         /\ \A d \in Commit : Changes(d) # {} => Changes(d)' = Changes(d) /\ (HasObjects(d) => HasObjects(d)')
<1>1. PICK f \in [Path -> Commit \cup {NoCommit, Untouched}], g \in [Path -> Object \cup {Deleted}] :
        /\ \E p \in Path : f[p] # Untouched
        /\ \A p \in Path : ChangeOf(p, f[p], g[p])
        /\ base' = [base EXCEPT ![c] = f]
        /\ content' = [content EXCEPT ![c] = g]
  BY DEF MakeCommit
<1>2. /\ base \in [Commit -> [Path -> Commit \cup {NoCommit, Untouched}]]
      /\ content \in [Commit -> [Path -> Object \cup {Deleted}]]
  BY DEF Inv, TypeOK
<1>3. Changes(c) = {} /\ ~ Stored(c)
  BY DEF Inv, CommitInv, StoredMade, MakeCommit
<1>4. \A d \in Commit : d # c => base'[d] = base[d] /\ content'[d] = content[d]
  BY <1>1, <1>2
<1>5. base'[c] = f /\ content'[c] = g
  BY <1>1, <1>2
<1>6. \A d \in Commit : d # c => Changes(d)' = Changes(d)
  BY <1>4 DEF Changes
<1>7. \A d \in Commit : Stored(d)' <=> Stored(d)
  BY DEF MakeCommit, storeVars, Stored
<1>8. \A d \in Commit : d # c => HasObjects(d)' = HasObjects(d)
  BY <1>4, <1>6 DEF MakeCommit, storeVars, HasObjects
<1>9. StoredMade' /\ (\E n \in Nat : CountedTo(n))' /\ SeqUnique'
  <2>1. StoredMade'
    BY <1>3, <1>6, <1>7 DEF Inv, CommitInv, StoredMade
  <2>2. (\E n \in Nat : CountedTo(n))' /\ SeqUnique'
    BY <1>7 DEF Inv, CommitInv, CountedTo, SeqUnique, MakeCommit, storeVars
  <2> QED
    BY <2>1, <2>2
<1>10. BasesMade'
  <2> SUFFICES ASSUME NEW d \in Commit, NEW p \in Path, base'[d][p] # Untouched,
                      base'[d][p] # NoCommit
               PROVE  base'[base'[d][p]][p] # Untouched
    BY DEF BasesMade, Changes
  <2>1. CASE d = c
    <3>1. ChangeOf(p, f[p], g[p]) /\ f[p] # Untouched
      BY <1>1, <1>5, <2>1
    <3>2. CASE f[p] = NoCommit
      BY <1>5, <2>1, <3>2
    <3>3. CASE f[p] \in Commit /\ p \in Changes(f[p])
      <4>1. f[p] \in Commit \ {c, NoCommit} /\ base[f[p]][p] # Untouched
        BY <1>3, <3>3, PushConstants DEF Changes
      <4> QED
        BY <1>4, <1>5, <2>1, <4>1
    <3> QED
      BY <3>1, <3>2, <3>3 DEF ChangeOf
  <2>2. CASE d # c
    <3>1. base'[d][p] = base[d][p] /\ p \in Changes(d)
      BY <1>4, <2>2 DEF Changes
    <3>2. base[d][p] # NoCommit => p \in Changes(base[d][p])
      BY <3>1 DEF Inv, CommitInv, BasesMade
    <3>3. ASSUME base[d][p] # NoCommit
          PROVE  base[d][p] \in Commit \ {c} /\ base[base[d][p]][p] # Untouched
      BY <1>2, <1>3, <3>1, <3>2, <3>3 DEF Changes
    <3> QED
      BY <1>4, <3>1, <3>2, <3>3
  <2> QED
    BY <2>1, <2>2
<1>11. LinearHistory'
  <2>1. \A e \in Commit : Stored(e) => e # c /\ base'[e] = base[e] /\ Changes(e)' = Changes(e)
    BY <1>3, <1>4, <1>6
  <2>2. seq' = seq
    BY DEF MakeCommit, storeVars
  <2>3. \A e, d \in Commit : \A p \in Changes(e) : Stored(e) /\ Stored(d) /\ p \in Changes(d)' => p \in Changes(d)
    BY <2>1
  <2> QED
    BY <1>7, <2>1, <2>2, <2>3 DEF Inv, CommitInv, LinearHistory, Stored
<1>12. HeadIsLatest'
  <2>1. \A e \in Commit : Stored(e) => e # c /\ base'[e] = base[e] /\ Changes(e)' = Changes(e)
    BY <1>3, <1>4, <1>6
  <2>2. seq' = seq /\ head' = head /\ head \in [Path -> Commit \cup {NoCommit}]
    BY DEF MakeCommit, storeVars, Inv, TypeOK
  <2>3. \A p \in Path : head[p] # NoCommit =>
          Stored(head[p]) /\ p \in Changes(head[p]) /\ base'[head[p]] = base[head[p]]
    BY <2>1, <2>2 DEF Inv, CommitInv, HeadIsLatest
  <2>4. \A p \in Path : head'[p] # NoCommit => seq'[head'[p]] > 0 /\ base'[head'[p]][p] # Untouched
    BY <2>2, <2>3 DEF Stored, Changes
  <2>5. \A p \in Path, d \in Commit : Stored(d)' /\ p \in Changes(d)' =>
          head'[p] # NoCommit /\ seq'[d] <= seq'[head'[p]]
    BY <1>7, <2>1, <2>2 DEF Inv, CommitInv, HeadIsLatest
  <2> QED
    BY <2>4, <2>5 DEF HeadIsLatest, Stored, Changes
<1>13. ContentPresent' /\ RegistryFollowsLog'
  <2>1. ContentPresent'
    BY <1>3, <1>7, <1>8 DEF Inv, CommitInv, ContentPresent, HasObjects
  <2>2. \A d \in Commit : Stored(d) => d # c
    BY <1>3
  <2>3. \A d \in Commit : Stored(d)' => Changes(d)' = Changes(d) /\ content'[d] = content[d]
    BY <1>4, <1>6, <1>7, <2>2
  <2>4. \A p \in Path : p \in files <=>
          \E d \in Commit : Stored(d)' /\ p \in Changes(d)' /\ content'[d][p] # Deleted
    BY <1>7, <2>3 DEF Inv, CommitInv, RegistryFollowsLog
  <2>5. RegistryFollowsLog'
    BY <2>4 DEF RegistryFollowsLog, MakeCommit, storeVars
  <2> QED
    BY <2>1, <2>5
<1> QED
  BY <1>3, <1>6, <1>8, <1>9, <1>10, <1>11, <1>12, <1>13 DEF CommitInv

-----------------------------------------------------------------------------
(* Handlers.                                                               *)

\* A step of thread w that leaves the tables and the hub alone, and enters or
\* leaves the locked section only with the lock.
Move(w) ==
  /\ push' \in [Pusher -> PushCall \cup {Idle}] /\ lock' \in Pusher \cup {Free}
  /\ \A v \in Pusher \ {w} : push'[v] = push[v] /\ (lock' = v <=> lock = v)
  /\ push'[w].step \in Locked <=> lock' = w
  /\ UNCHANGED <<accessVars, commitVars, storeVars, published>>

\* A move that leaves w with a request in which its step may trust what it
\* relies on.
LEMMA MoveKeepsInv ==
  ASSUME Inv, NEW w \in Pusher, Move(w),
         push'[w] # Idle =>
           /\ Changes(push'[w].commit) # {}
           /\ push'[w].step \notin {"member", "objects"} => HasObjects(push'[w].commit)
           /\ push'[w].step = "write" => BasesMatch(push'[w].commit) /\ ~ Stored(push'[w].commit)
           /\ push'[w].step \in {"lookup", "publish"} =>
                push[w].step = "lookup" /\ push'[w].commit = push[w].commit
  PROVE  Inv'
<1>1. AdminInv' /\ CommitInv'
  BY AdminInvUnchanged, TablesSame DEF Inv, Move
<1>2. TypeOK'
  BY <1>1 DEF Inv, TypeOK, Move, AdminInv, commitVars, storeVars
<1>3. LockHeld'
  BY DEF Inv, RequestInv, LockHeld, Move
<1>4. UNCHANGED <<author, content, base, objects, seq, head, files, published>>
  BY DEF Move, commitVars, storeVars
<1>5. RequestsMade'
  <2> SUFFICES ASSUME NEW v \in Pusher, push'[v] # Idle
               PROVE  /\ Changes(push'[v].commit) # {}
                      /\ push'[v].step \notin {"member", "objects"} => HasObjects(push'[v].commit)
                      /\ push'[v].step \in {"lookup", "publish"} => Stored(push'[v].commit)
    BY <1>4 DEF RequestsMade, Changes, HasObjects, Stored
  <2>1. CASE v = w
    <3>1. push'[w].step \in {"lookup", "publish"} => push[w] # Idle
      BY <2>1 DEF Idle
    <3> QED
      BY <2>1, <3>1 DEF Inv, RequestInv, RequestsMade
  <2>2. CASE v # w
    BY <2>2 DEF Inv, RequestInv, RequestsMade, Move
  <2> QED
    BY <2>1, <2>2
<1>6. CheckedStillHolds'
  <2> SUFFICES ASSUME NEW v \in Pusher, push'[v].step = "write"
               PROVE  lock' = v /\ BasesMatch(push'[v].commit) /\ ~ Stored(push'[v].commit)
    BY <1>4 DEF CheckedStillHolds, BasesMatch, Changes, Stored
  <2>1. lock' = v
    BY <1>3 DEF LockHeld, Locked
  <2>2. CASE v = w
    BY <2>1, <2>2 DEF Idle
  <2>3. CASE v # w
    BY <2>1, <2>3 DEF Inv, RequestInv, CheckedStillHolds, Move
  <2> QED
    BY <2>2, <2>3
<1>7. PublishInv'
  <2>1. PublishedInOrder'
    BY <1>4 DEF Inv, PublishInv, PublishedInOrder, Stored
  <2>2. \A v \in Pusher : push'[v].step \in {"lookup", "publish"} =>
          push[v].step \in {"lookup", "publish"} /\ push'[v].commit = push[v].commit
    BY DEF Move, Idle
  <2>3. PublishedBelow'
    BY <1>4, <2>2 DEF Inv, PublishInv, PublishedBelow
  <2> QED
    BY <2>1, <2>3 DEF PublishInv
<1> QED
  BY <1>1, <1>2, <1>3, <1>5, <1>6, <1>7 DEF Inv, RequestInv

\* What is known of a request in progress.
LEMMA RequestFacts ==
  ASSUME Inv, NEW w \in Pusher, push[w].step \in PushStep
  PROVE  /\ push[w] \in PushCall /\ push[w] # Idle
         /\ Changes(push[w].commit) # {}
         /\ push[w].step \notin {"member", "objects"} => HasObjects(push[w].commit)
         /\ push[w].step \in Locked <=> lock = w
<1>1. push[w] # Idle
  BY DEF PushStep, Idle
<1> QED
  BY <1>1 DEF Inv, TypeOK, RequestInv, RequestsMade, LockHeld

\* Answering, from inside the locked section or outside it.
LEMMA ReplyKeepsInv ==
  ASSUME Inv, NEW w \in Pusher, Reply(w), Unlock(w),
         UNCHANGED <<accessVars, commitVars, storeVars, published>>
  PROVE  Inv'
<1>1. push \in [Pusher -> PushCall \cup {Idle}] /\ lock \in Pusher \cup {Free}
  BY DEF Inv, TypeOK
<1>2. push'[w] = Idle /\ Idle.step \notin Locked
  BY <1>1 DEF Reply, Idle, Locked
<1>3. Move(w)
  BY <1>1, <1>2, PushConstants DEF Reply, Unlock, Move
<1> QED
  BY <1>2, <1>3, MoveKeepsInv

\* Answering before the lock is taken.
LEMMA ReplyUnlocked ==
  ASSUME Inv, NEW w \in Pusher, push[w].step \notin Locked, Reply(w), UNCHANGED lock,
         UNCHANGED <<accessVars, commitVars, storeVars, published>>
  PROVE  Inv'
<1>1. Unlock(w)
  BY DEF Inv, RequestInv, LockHeld, Unlock
<1> QED
  BY <1>1, ReplyKeepsInv

\* Going on to another step on the same side of the lock.
LEMMA GoToMoves ==
  ASSUME Inv, NEW w \in Pusher, NEW s \in PushStep, GoTo(w, s),
         push[w].step \in PushStep, push[w].step \in Locked <=> s \in Locked,
         UNCHANGED <<lock, accessVars, commitVars, storeVars, published>>
  PROVE  Move(w) /\ push'[w].step = s /\ push'[w].commit = push[w].commit
<1>1. push \in [Pusher -> PushCall \cup {Idle}] /\ lock \in Pusher \cup {Free}
  BY DEF Inv, TypeOK
<1>2. push[w] \in PushCall /\ (push[w].step \in Locked <=> lock = w)
  BY RequestFacts
<1>3. [push[w] EXCEPT !.step = s] \in PushCall
  BY <1>2 DEF PushCall
<1>4. push'[w] = [push[w] EXCEPT !.step = s] /\ \A v \in Pusher \ {w} : push'[v] = push[v]
  BY <1>1 DEF GoTo
<1>5. push'[w].step = s /\ push'[w].commit = push[w].commit
  BY <1>2, <1>4 DEF PushCall
<1>6. push' \in [Pusher -> PushCall \cup {Idle}]
  BY <1>1, <1>3 DEF GoTo
<1> QED
  BY <1>1, <1>2, <1>4, <1>5, <1>6 DEF Move

\* A commit whose bases are the heads is not stored: no version replaces itself.
LEMMA MatchingIsNew ==
  ASSUME Inv, NEW c \in Commit, Changes(c) # {}, BasesMatch(c)
  PROVE  ~ Stored(c)
<1> SUFFICES ASSUME Stored(c) PROVE FALSE
  OBVIOUS
<1>1. PICK p \in Changes(c) : p \in Path /\ head[p] = base[c][p]
  BY DEF BasesMatch, Changes
<1>2. head[p] # NoCommit /\ seq[c] <= seq[head[p]]
  BY <1>1 DEF Inv, CommitInv, HeadIsLatest
<1>3. seq[head[p]] < seq[c]
  BY <1>1, <1>2 DEF Inv, CommitInv, LinearHistory
<1>4. seq[c] \in Nat /\ seq[head[p]] \in Nat
  BY <1>1, <1>2 DEF Inv, TypeOK
<1> QED
  BY <1>2, <1>3, <1>4

\* The steps of a handler that leave the tables and the hub alone.
LEMMA QuietStepKeepsInv ==
  ASSUME Inv, NEW w \in Pusher,
         \/ RequireMember(w) \/ RequireObjects(w) \/ Lock(w)
         \/ \E p \in Path : AuthorizePath(w, p) \/ RefusePath(w, p)
         \/ CheckBases(w) \/ SeqForCommit(w) \/ PushFails(w)
  PROVE  Inv'
<1> USE DEF Locked, PushStep
<1>1. CASE RequireMember(w)
  <2>1. CASE Reply(w)
    BY <1>1, <2>1, ReplyUnlocked DEF RequireMember
  <2>2. CASE GoTo(w, "objects")
    <3>1. Move(w) /\ push'[w].step = "objects" /\ push'[w].commit = push[w].commit
      BY <1>1, <2>2, GoToMoves DEF RequireMember
    <3> QED
      BY <1>1, <3>1, RequestFacts, MoveKeepsInv DEF RequireMember
  <2> QED
    BY <1>1, <2>1, <2>2 DEF RequireMember
<1>2. CASE RequireObjects(w)
  <2>1. CASE Reply(w)
    BY <1>2, <2>1, ReplyUnlocked DEF RequireObjects
  <2>2. CASE HasObjects(push[w].commit) /\ GoTo(w, "lock")
    <3>1. Move(w) /\ push'[w].step = "lock" /\ push'[w].commit = push[w].commit
      BY <1>2, <2>2, GoToMoves DEF RequireObjects
    <3> QED
      BY <1>2, <2>2, <3>1, RequestFacts, MoveKeepsInv DEF RequireObjects
  <2> QED
    BY <1>2, <2>1, <2>2 DEF RequireObjects
<1>3. CASE Lock(w)
  <2>1. push[w] \in PushCall /\ Changes(push[w].commit) # {} /\ HasObjects(push[w].commit)
    BY <1>3, RequestFacts DEF Lock
  <2>2. push \in [Pusher -> PushCall \cup {Idle}]
    BY DEF Inv, TypeOK
  <2>3. [push[w] EXCEPT !.step = "authorize"] \in PushCall
    BY <2>1 DEF PushCall
  <2>4. push'[w] = [push[w] EXCEPT !.step = "authorize"] /\ \A v \in Pusher \ {w} : push'[v] = push[v]
    BY <1>3, <2>2 DEF Lock, GoTo
  <2>5. push'[w].step = "authorize" /\ push'[w].commit = push[w].commit
    BY <2>1, <2>4 DEF PushCall
  <2>6. Move(w)
    <3>1. push' \in [Pusher -> PushCall \cup {Idle}]
      BY <1>3, <2>2, <2>3 DEF Lock, GoTo
    <3>2. lock = Free /\ lock' = w
      BY <1>3 DEF Lock
    <3> QED
      BY <1>3, <2>4, <2>5, <3>1, <3>2, PushConstants DEF Lock, Move
  <2> QED
    BY <2>1, <2>5, <2>6, MoveKeepsInv
<1>4. ASSUME NEW p \in Path, AuthorizePath(w, p)
      PROVE  Inv'
  <2> DEFINE s == IF push[w].todo = {p} THEN "check" ELSE push[w].step
  <2>1. push[w] \in PushCall /\ Changes(push[w].commit) # {} /\ HasObjects(push[w].commit) /\ lock = w
    BY <1>4, RequestFacts DEF AuthorizePath
  <2>2. push \in [Pusher -> PushCall \cup {Idle}] /\ lock \in Pusher \cup {Free}
    BY DEF Inv, TypeOK
  <2>3. s \in {"authorize", "check"}
    BY <1>4 DEF AuthorizePath
  <2>4. push' = [push EXCEPT ![w] = [push[w] EXCEPT !.todo = @ \ {p}, !.step = s]]
    BY <1>4, <2>1, <2>2 DEF AuthorizePath, PushCall
  <2> HIDE DEF s
  <2>5. /\ push'[w] = [push[w] EXCEPT !.todo = @ \ {p}, !.step = s]
        /\ \A v \in Pusher \ {w} : push'[v] = push[v]
    BY <2>2, <2>4
  <2>6. push'[w] \in PushCall /\ push'[w].step = s /\ push'[w].commit = push[w].commit
    BY <2>1, <2>3, <2>5 DEF PushCall
  <2>7. Move(w)
    <3>1. push' \in [Pusher -> PushCall \cup {Idle}]
      BY <2>2, <2>4, <2>5, <2>6
    <3> QED
      BY <1>4, <2>1, <2>2, <2>3, <2>5, <2>6, <3>1 DEF AuthorizePath, Move
  <2> QED
    BY <2>1, <2>3, <2>6, <2>7, MoveKeepsInv
<1>5. ASSUME NEW p \in Path, RefusePath(w, p)
      PROVE  Inv'
  BY <1>5, ReplyKeepsInv DEF RefusePath
<1>6. CASE CheckBases(w)
  <2>1. CASE Reply(w) /\ Unlock(w)
    BY <1>6, <2>1, ReplyKeepsInv DEF CheckBases
  <2>2. CASE BasesMatch(push[w].commit) /\ GoTo(w, "write") /\ UNCHANGED lock
    <3>1. Move(w) /\ push'[w].step = "write" /\ push'[w].commit = push[w].commit
      BY <1>6, <2>2, GoToMoves DEF CheckBases
    <3>2. push[w] \in PushCall /\ Changes(push[w].commit) # {} /\ HasObjects(push[w].commit)
      BY <1>6, RequestFacts DEF CheckBases
    <3>3. ~ Stored(push[w].commit)
      BY <2>2, <3>2, MatchingIsNew DEF PushCall
    <3> QED
      BY <2>2, <3>1, <3>2, <3>3, MoveKeepsInv
  <2> QED
    BY <1>6, <2>1, <2>2 DEF CheckBases
<1>7. CASE SeqForCommit(w)
  <2>1. Move(w) /\ push'[w].step = "publish" /\ push'[w].commit = push[w].commit
    BY <1>7, GoToMoves DEF SeqForCommit
  <2> QED
    BY <1>7, <2>1, RequestFacts, MoveKeepsInv DEF SeqForCommit
<1>8. CASE PushFails(w)
  BY <1>8, ReplyKeepsInv DEF PushFails
<1> QED
  BY <1>1, <1>2, <1>3, <1>4, <1>5, <1>6, <1>7, <1>8

\* Nobody else is inside the locked section.
LEMMA OnlyHolder ==
  ASSUME Inv, NEW w \in Pusher, push[w].step \in Locked
  PROVE  lock = w /\ \A v \in Pusher \ {w} : push[v].step \notin Locked
BY DEF Inv, RequestInv, LockHeld

LEMMA WriteKeepsInv ==
  ASSUME Inv, NEW w \in Pusher, WriteCommit(w)
  PROVE  Inv'
<1> DEFINE c == push[w].commit
<1>1. /\ push[w] \in PushCall /\ push[w] # Idle /\ c \in Commit
      /\ Changes(c) # {} /\ HasObjects(c) /\ lock = w
  BY RequestFacts DEF WriteCommit, PushStep, Locked, PushCall
<1>2. BasesMatch(c) /\ ~ Stored(c)
  BY DEF Inv, RequestInv, CheckedStillHolds, WriteCommit
<1>3. PICK enforced \in ForeignKeys :
        /\ seq' = [seq EXCEPT ![c] = NextSeq] /\ head' = HeadsAfter(c) /\ files' = Registered(c)
        /\ UNCHANGED objects
  BY <1>2 DEF WriteCommit
<1>4. CommitInv'
  <2>1. enforced \in BOOLEAN /\ UNCHANGED <<commitVars, objects>>
    BY <1>3, AccessConstants DEF WriteCommit
  <2> QED
    BY <1>1, <1>2, <1>3, <2>1, WriteKeepsCommits
<1>5. PICK n \in Nat : CountedTo(n)
  BY DEF Inv, CommitInv
<1>6. seq \in [Commit -> Nat] /\ push \in [Pusher -> PushCall \cup {Idle}] /\ lock \in Pusher \cup {Free}
  BY DEF Inv, TypeOK
<1>7. seq' \in [Commit -> Nat] /\ seq'[c] = n + 1 /\ \A d \in Commit : d # c => seq'[d] = seq[d]
  BY <1>1, <1>3, <1>5, <1>6, NextSeqIs
<1> HIDE DEF c
<1>8. GoTo(w, "lookup") /\ UNCHANGED <<accessVars, commitVars, lock, published>>
  BY DEF WriteCommit
<1>9. /\ push'[w].step = "lookup" /\ push'[w].commit = c
      /\ push' \in [Pusher -> PushCall \cup {Idle}]
      /\ \A v \in Pusher \ {w} : push'[v] = push[v]
  <2>1. [push[w] EXCEPT !.step = "lookup"] \in PushCall
    BY <1>1 DEF PushCall, PushStep
  <2> QED
    BY <1>1, <1>6, <1>8, <2>1 DEF GoTo, PushCall, c
<1>10. \A v \in Pusher \ {w} : push[v].step \notin Locked
  BY <1>1, OnlyHolder DEF WriteCommit, Locked
<1>11. TypeOK' /\ AdminInv'
  <2>1. AdminInv'
    BY <1>8, AdminInvUnchanged DEF Inv
  <2>2. head' \in [Path -> Commit \cup {NoCommit}] /\ files' \subseteq Path
    BY <1>1, <1>3 DEF HeadsAfter, Registered, Changes, Inv, TypeOK
  <2> QED
    BY <1>3, <1>6, <1>7, <1>8, <1>9, <2>1, <2>2 DEF Inv, TypeOK, AdminInv, commitVars
<1>12. LockHeld' /\ CheckedStillHolds'
  BY <1>1, <1>8, <1>9, <1>10 DEF LockHeld, CheckedStillHolds, Locked
<1>13. RequestsMade'
  <2> SUFFICES ASSUME NEW v \in Pusher, push'[v] # Idle
               PROVE  /\ Changes(push'[v].commit) # {}
                      /\ push'[v].step \notin {"member", "objects"} => HasObjects(push'[v].commit)
                      /\ push'[v].step \in {"lookup", "publish"} => seq'[push'[v].commit] > 0
    BY <1>3, <1>8 DEF RequestsMade, Changes, HasObjects, Stored, commitVars
  <2>1. CASE v = w
    BY <1>1, <1>7, <1>9, <2>1
  <2>2. CASE v # w
    BY <1>9, <1>10, <2>2 DEF Inv, RequestInv, RequestsMade, Locked
  <2> QED
    BY <2>1, <2>2
<1>14. PublishInv'
  <2>1. published' = published /\ published \in Seq(Nat)
    BY <1>8 DEF Inv, TypeOK
  <2>2. \A i \in DOMAIN published : published[i] <= n
    BY <1>5 DEF Inv, PublishInv, PublishedInOrder, CountedTo
  <2>3. PublishedBelow'
    <3>1. \A i \in DOMAIN published : published[i] < n + 1
      BY <2>1, <2>2
    <3> QED
      BY <1>7, <1>9, <1>10, <2>1, <3>1 DEF PublishedBelow, Locked
  <2>4. \A d \in Commit : Stored(d) => Stored(d)' /\ seq'[d] = seq[d]
    BY <1>2, <1>7 DEF Stored
  <2>5. PublishedInOrder'
    BY <2>1, <2>4 DEF Inv, PublishInv, PublishedInOrder
  <2> QED
    BY <2>3, <2>5 DEF PublishInv
<1> QED
  BY <1>4, <1>11, <1>12, <1>13, <1>14 DEF Inv, RequestInv

LEMMA PublishKeepsInv ==
  ASSUME Inv, NEW w \in Pusher, Publish(w)
  PROVE  Inv'
<1> DEFINE c == push[w].commit
<1>1. push[w] \in PushCall /\ c \in Commit /\ lock = w /\ Stored(c)
  BY RequestFacts DEF Publish, PushStep, Locked, PushCall, Inv, RequestInv, RequestsMade
<1>2. \A v \in Pusher \ {w} : push[v].step \notin Locked
  BY OnlyHolder DEF Publish, Locked
<1>3. /\ push \in [Pusher -> PushCall \cup {Idle}] /\ lock \in Pusher \cup {Free}
      /\ published \in Seq(Nat) /\ seq \in [Commit -> Nat]
  BY DEF Inv, TypeOK
<1>4. /\ push'[w] = Idle /\ \A v \in Pusher \ {w} : push'[v] = push[v]
      /\ push' \in [Pusher -> PushCall \cup {Idle}] /\ lock' = Free
  BY <1>1, <1>3 DEF Publish, Reply, Unlock
<1>5. UNCHANGED <<accessVars, commitVars, storeVars>> /\ published' = Append(published, seq[c])
  BY DEF Publish
<1>6. AdminInv' /\ CommitInv'
  BY <1>5, AdminInvUnchanged, TablesSame DEF Inv
<1> HIDE DEF c
<1>7. TypeOK'
  <2>1. published' \in Seq(Nat)
    BY <1>1, <1>3, <1>5
  <2> QED
    BY <1>4, <1>5, <1>6, <2>1 DEF Inv, TypeOK, AdminInv, commitVars, storeVars
<1>8. \A v \in Pusher : push'[v].step \notin Locked
  BY <1>2, <1>4 DEF Idle, Locked
<1>9. RequestInv'
  <2>1. LockHeld'
    BY <1>4, <1>8, PushConstants DEF LockHeld
  <2>2. CheckedStillHolds'
    BY <1>8 DEF CheckedStillHolds, Locked
  <2>3. RequestsMade'
    BY <1>4, <1>5 DEF Inv, RequestInv, RequestsMade, Changes, HasObjects, Stored, commitVars, storeVars
  <2> QED
    BY <2>1, <2>2, <2>3 DEF RequestInv
<1>10. PublishedBelow'
  BY <1>8 DEF PublishedBelow, Locked
<1>11. PublishedInOrder'
  <2> DEFINE n == Len(published)
  <2>1. /\ n \in Nat /\ DOMAIN published = 1 .. n /\ DOMAIN published' = 1 .. n + 1
        /\ published'[n + 1] = seq[c] /\ \A i \in 1 .. n : published'[i] = published[i]
    BY <1>1, <1>3, <1>5
  <2>2. \A i \in 1 .. n : published[i] < seq[c]
    BY <2>1 DEF Publish, Inv, PublishInv, PublishedBelow, c
  <2>3. /\ \A i, j \in 1 .. n : i < j => published[i] < published[j]
        /\ \A i \in 1 .. n : \E d \in Commit : Stored(d) /\ seq[d] = published[i]
    BY <2>1 DEF Inv, PublishInv, PublishedInOrder
  <2> HIDE DEF n
  <2>4. \A i \in 1 .. n + 1 : i = n + 1 \/ i \in 1 .. n
    BY <2>1
  <2>5. \A i, j \in 1 .. n + 1 : i < j => published'[i] < published'[j]
    <3> SUFFICES ASSUME NEW i \in 1 .. n + 1, NEW j \in 1 .. n + 1, i < j
                 PROVE  published'[i] < published'[j]
      OBVIOUS
    <3>1. i \in 1 .. n
      BY <2>1
    <3> QED
      BY <2>1, <2>2, <2>3, <2>4, <3>1
  <2>6. \A i \in 1 .. n + 1 : \E d \in Commit : Stored(d) /\ seq[d] = published'[i]
    BY <1>1, <2>1, <2>3, <2>4
  <2> QED
    BY <1>5, <2>1, <2>5, <2>6 DEF PublishedInOrder, Stored, storeVars
<1> QED
  BY <1>6, <1>7, <1>9, <1>10, <1>11 DEF Inv, PublishInv

LEMMA HandleKeepsInv ==
  ASSUME Inv, NEW w \in Pusher, Handle(w)
  PROVE  Inv'
<1>1. CASE WriteCommit(w)
  BY <1>1, WriteKeepsInv
<1>2. CASE Publish(w)
  BY <1>2, PublishKeepsInv
<1> QED
  BY <1>1, <1>2, QuietStepKeepsInv DEF Handle

-----------------------------------------------------------------------------
(* Arrivals, crashes, and the theorems.                                    *)

LEMMA ReceiveKeepsInv ==
  ASSUME Inv, NEW w \in Pusher, NEW c \in Commit, Receive(w, c)
  PROVE  Inv'
<1> DEFINE r == [step |-> "member", commit |-> c, todo |-> Changes(c)]
<1>1. r \in PushCall
  BY DEF PushCall, PushStep, Changes
<1>2. push \in [Pusher -> PushCall \cup {Idle}] /\ lock \in Pusher \cup {Free}
  BY DEF Inv, TypeOK
<1>3. push'[w] = r /\ (\A v \in Pusher \ {w} : push'[v] = push[v]) /\ push' \in [Pusher -> PushCall \cup {Idle}]
  BY <1>1, <1>2 DEF Receive
<1>4. r.step = "member" /\ r.commit = c /\ lock # w
  BY DEF Receive, Idle, Inv, RequestInv, LockHeld, Locked
<1> HIDE DEF r
<1>5. Move(w)
  BY <1>2, <1>3, <1>4 DEF Receive, Move, Locked
<1> QED
  BY <1>3, <1>4, <1>5, MoveKeepsInv DEF Receive

LEMMA ClientKeepsInv ==
  ASSUME Inv,
         \/ \E c \in Commit, a \in Principal : MakeCommit(c, a)
         \/ \E a \in Principal, o \in Object : UploadObject(a, o)
  PROVE  Inv'
<1>1. UNCHANGED <<accessVars, seq, head, files, lock, push, published>>
  BY DEF MakeCommit, UploadObject, storeVars
<1>2. /\ CommitInv'
      /\ \A d \in Commit : Changes(d) # {} =>
           Changes(d)' = Changes(d) /\ (HasObjects(d) => HasObjects(d)')
  <2>1. ASSUME NEW c \in Commit, NEW a \in Principal, MakeCommit(c, a)
        PROVE  <1>2!1 /\ <1>2!2
    BY <2>1, MakeKeepsCommits
  <2>2. ASSUME NEW a \in Principal, NEW o \in Object, UploadObject(a, o)
        PROVE  <1>2!1 /\ <1>2!2
    <3>1. \A d \in Commit : Changes(d)' = Changes(d) /\ (HasObjects(d) => HasObjects(d)')
      BY <2>2 DEF UploadObject, commitVars, Changes, HasObjects
    <3>2. BasesMade' /\ StoredMade' /\ (\E n \in Nat : CountedTo(n))' /\ SeqUnique'
      <4>1. BasesMade' /\ StoredMade'
        BY <1>1, <2>2 DEF Inv, CommitInv, BasesMade, StoredMade, Stored, Changes, UploadObject, commitVars
      <4>2. (\E n \in Nat : CountedTo(n))' /\ SeqUnique'
        BY <1>1 DEF Inv, CommitInv, CountedTo, SeqUnique, Stored
      <4> QED
        BY <4>1, <4>2
    <3>3. LinearHistory' /\ HeadIsLatest' /\ RegistryFollowsLog'
      BY <1>1, <2>2 DEF Inv, CommitInv, LinearHistory, HeadIsLatest, RegistryFollowsLog,
                        Stored, Changes, UploadObject, commitVars
    <3>4. ContentPresent'
      BY <1>1, <3>1 DEF Inv, CommitInv, ContentPresent, HasObjects, Stored
    <3> QED
      BY <3>1, <3>2, <3>3, <3>4 DEF CommitInv
  <2> QED
    BY <2>1, <2>2
<1>3. TypeOK' /\ AdminInv'
  <2>1. AdminInv'
    BY <1>1, AdminInvUnchanged DEF Inv
  <2>2. /\ author' \in [Commit -> Principal] /\ content' \in [Commit -> [Path -> Object \cup {Deleted}]]
        /\ base' \in [Commit -> [Path -> Commit \cup {NoCommit, Untouched}]] /\ objects' \subseteq Object
    <3>1. ASSUME NEW c \in Commit, NEW a \in Principal, MakeCommit(c, a)
          PROVE  <2>2
      BY <3>1 DEF Inv, TypeOK, MakeCommit, storeVars
    <3>2. ASSUME NEW a \in Principal, NEW o \in Object, UploadObject(a, o)
          PROVE  <2>2
      BY <3>2 DEF Inv, TypeOK, UploadObject, commitVars
    <3> QED
      BY <3>1, <3>2
  <2> QED
    BY <1>1, <2>1, <2>2 DEF Inv, TypeOK, AdminInv
<1>4. \A w \in Pusher : push[w] # Idle => push[w].commit \in Commit /\ Changes(push[w].commit) # {}
  BY DEF Inv, TypeOK, PushCall, RequestInv, RequestsMade
<1>5. RequestsMade'
  <2> SUFFICES ASSUME NEW w \in Pusher, push[w] # Idle
               PROVE  (/\ Changes(push[w].commit) # {}
                       /\ push[w].step \notin {"member", "objects"} => HasObjects(push[w].commit)
                       /\ push[w].step \in {"lookup", "publish"} => Stored(push[w].commit))'
    BY <1>1 DEF RequestsMade
  <2> DEFINE d == push[w].commit
  <2>1. d \in Commit /\ Changes(d)' # {} /\ (HasObjects(d) => HasObjects(d)') /\ d' = d
    BY <1>1, <1>2, <1>4
  <2> QED
    BY <1>1, <2>1 DEF Inv, RequestInv, RequestsMade, Stored
<1>6. LockHeld' /\ CheckedStillHolds'
  <2>1. LockHeld'
    BY <1>1 DEF Inv, RequestInv, LockHeld
  <2>2. CheckedStillHolds'
    <3> SUFFICES ASSUME NEW w \in Pusher, push[w].step = "write"
                 PROVE  (lock = w /\ BasesMatch(push[w].commit) /\ ~ Stored(push[w].commit))'
      BY <1>1 DEF CheckedStillHolds
    <3>1. PICK d \in Commit : d = push[w].commit /\ Changes(d) # {}
      BY <1>4 DEF Idle
    <3>2. lock = w /\ BasesMatch(d) /\ ~ Stored(d)
      BY <3>1 DEF Inv, RequestInv, CheckedStillHolds
    <3>3. Changes(d)' = Changes(d)
      BY <1>2, <3>1
    <3>4. base'[d] = base[d]
      BY <3>1 DEF MakeCommit, UploadObject, commitVars, Inv, TypeOK
    <3>5. (BasesMatch(d) /\ ~ Stored(d))'
      BY <1>1, <3>2, <3>3, <3>4 DEF BasesMatch, Stored
    <3>6. push'[w].commit = d
      BY <1>1, <3>1
    <3> QED
      BY <1>1, <3>2, <3>5, <3>6 DEF BasesMatch, Stored, Changes
  <2> QED
    BY <2>1, <2>2
<1>7. PublishInv'
  BY <1>1 DEF Inv, PublishInv, PublishedInOrder, PublishedBelow, Stored
<1> QED
  BY <1>2, <1>3, <1>5, <1>6, <1>7 DEF Inv, RequestInv

\* A crash loses what is in memory, and Inv says nothing of that but how it
\* relates to the tables.
LEMMA CrashKeepsInv == ASSUME Inv, Crash PROVE Inv'
<1>1. \A w \in Pusher : push'[w] = Idle /\ lock' # w
  BY PushConstants DEF Crash
<1>2. CommitInv'
  BY TablesSame DEF Inv, Crash
<1>3. AdminInv'
  BY DEF Inv, AdminInv, AccessTypeOK, AdminRemains, Crash
<1>4. TypeOK'
  <2>1. << >> \in Seq(Nat)
    OBVIOUS
  <2> QED
    BY <1>3, <2>1 DEF Inv, AdminInv, TypeOK, Crash, commitVars, storeVars
<1>5. RequestInv'
  BY <1>1 DEF RequestInv, LockHeld, RequestsMade, CheckedStillHolds, Locked, Idle
<1>6. PublishInv'
  <2>1. DOMAIN published' = {}
    BY DEF Crash
  <2> QED
    BY <2>1 DEF PublishInv, PublishedInOrder, PublishedBelow
<1> QED
  BY <1>2, <1>3, <1>4, <1>5, <1>6 DEF Inv

LEMMA PushSame ==
  ASSUME Inv, AdminInv', UNCHANGED pushVars
  PROVE  Inv'
<1>1. UNCHANGED <<author, content, base, objects, seq, head, files, lock, push, published>>
  BY DEF pushVars, commitVars, storeVars
<1>2. CommitInv'
  BY TablesSame DEF Inv, pushVars
<1>3. TypeOK'
  BY <1>1 DEF Inv, TypeOK, AdminInv
<1>4. RequestInv'
  BY <1>1 DEF Inv, RequestInv, LockHeld, RequestsMade, CheckedStillHolds, HasObjects, Changes, Stored, BasesMatch
<1>5. PublishInv'
  BY <1>1 DEF Inv, PublishInv, PublishedInOrder, PublishedBelow, Stored
<1> QED
  BY <1>2, <1>3, <1>4, <1>5 DEF Inv

LEMMA NextKeepsInv == Inv /\ [Next]_vars => Inv'
<1> SUFFICES ASSUME Inv, [Next]_vars PROVE Inv'
  OBVIOUS
<1>1. CASE PushNext
  BY <1>1, ClientKeepsInv, ReceiveKeepsInv, HandleKeepsInv DEF PushNext
<1>2. CASE AccessNext /\ UNCHANGED pushVars
  BY <1>2, AccessNextInv, PushSame DEF Inv
<1>3. CASE Crash
  BY <1>3, CrashKeepsInv
<1>4. CASE UNCHANGED vars
  BY <1>4, AdminInvUnchanged, PushSame DEF Inv, vars
<1> QED
  BY <1>1, <1>2, <1>3, <1>4 DEF Next

LEMMA InvAlways == Spec => []Inv
BY InitInv, NextKeepsInv, PTL DEF Spec

\* Every variable keeps the type of the column or field it stands for.
THEOREM TypeCorrect == Spec => []TypeOK
<1>1. Inv => TypeOK
  BY DEF Inv
<1> QED
  BY <1>1, InvAlways, PTL

\* Holding the lock from the check to the transaction is enough: what the
\* optimistic check read is still so when the commit is written (applyPush).
THEOREM CheckHoldsUntilWrite == Spec => []CheckedStillHolds
<1>1. Inv => CheckedStillHolds
  BY DEF Inv, RequestInv
<1> QED
  BY <1>1, InvAlways, PTL

\* No push ever overwrites a version that its author had not seen.
THEOREM NoLostUpdate == Spec => []LinearHistory
<1>1. Inv => LinearHistory
  BY DEF Inv, CommitInv
<1> QED
  BY <1>1, InvAlways, PTL

\* The head table is the last word of the log on every path.
THEOREM HeadsFollowLog == Spec => []HeadIsLatest
<1>1. Inv => HeadIsLatest
  BY DEF Inv, CommitInv
<1> QED
  BY <1>1, InvAlways, PTL

\* MAX(seq) + 1 under the lock numbers the log without gaps or repetitions,
\* across failed transactions and restarts.
THEOREM NumbersGapless == Spec => []SeqGapless
<1>1. Inv => SeqGapless
  <2> SUFFICES ASSUME Inv PROVE SeqGapless
    OBVIOUS
  <2>1. PICK n \in Nat : CountedTo(n)
    BY DEF Inv, CommitInv
  <2>2. \A c \in Commit : \A k \in 1 .. seq[c] : k \in 1 .. n
    BY <2>1 DEF CountedTo
  <2> QED
    BY <2>1, <2>2 DEF Inv, CommitInv, SeqUnique, CountedTo, SeqGapless
<1> QED
  BY <1>1, InvAlways, PTL

\* Content is there before a commit that refers to it, although the objects
\* are looked for before the lock is taken: none is ever removed.
THEOREM ContentBeforeMetadata == Spec => []ContentPresent
<1>1. Inv => ContentPresent
  BY DEF Inv, CommitInv
<1> QED
  BY <1>1, InvAlways, PTL

\* The registry has a row exactly for the paths the log ever left content at,
\* deletions of paths that never were, deletions of deletions and connections
\* that do not enforce the constraint included.
THEOREM RegistryAlwaysFollows == Spec => []RegistryFollowsLog
<1>1. Inv => RegistryFollowsLog
  BY DEF Inv, CommitInv
<1> QED
  BY <1>1, InvAlways, PTL

\* The hub is given the commits in log order, and never one that is not stored.
THEOREM EventsFollowLog == Spec => []PublishedInOrder
<1>1. Inv => PublishedInOrder
  BY DEF Inv, PublishInv
<1> QED
  BY <1>1, InvAlways, PTL

-----------------------------------------------------------------------------
(* Refinement: the server implements CommitLog.                            *)

\* The log behind the tables lists the stored commits by number.
LEMMA LogShape ==
  ASSUME Inv, NEW n \in Nat, CountedTo(n)
  PROVE  /\ AcceptedLog \in Seq(Commit) /\ Len(AcceptedLog) = n
         /\ \A k \in 1 .. n : AcceptedLog[k] \in Commit /\ seq[AcceptedLog[k]] = k
         /\ \A c \in Commit : Stored(c) => seq[c] \in 1 .. n /\ AcceptedLog[seq[c]] = c
<1>1. AcceptedLog = [k \in 1 .. n |-> CHOOSE c \in Commit : seq[c] = k]
  BY NextSeqIs DEF AcceptedLog
<1>2. \A k \in 1 .. n : AcceptedLog[k] \in Commit /\ seq[AcceptedLog[k]] = k
  BY <1>1 DEF CountedTo
<1>3. AcceptedLog \in [1 .. n -> Commit]
  BY <1>1, <1>2
<1>4. AcceptedLog \in Seq(Commit) /\ Len(AcceptedLog) = n
  BY <1>3
<1>5. ASSUME NEW c \in Commit, Stored(c)
      PROVE  seq[c] \in 1 .. n /\ AcceptedLog[seq[c]] = c
  <2>1. seq[c] \in 1 .. n
    BY <1>5 DEF CountedTo, Stored
  <2> QED
    BY <1>2, <1>5, <2>1 DEF Inv, CommitInv, SeqUnique
<1> QED
  BY <1>2, <1>4, <1>5

\* The latest version of a path in the log is its head in the table.
LEMMA LatestIsHead ==
  ASSUME Inv, NEW p \in Path
  PROVE  Log!Latest(p) = head[p]
<1>1. PICK n \in Nat : CountedTo(n)
  BY DEF Inv, CommitInv
<1>2. /\ AcceptedLog \in Seq(Commit) /\ Len(AcceptedLog) = n
      /\ \A k \in 1 .. n : AcceptedLog[k] \in Commit /\ seq[AcceptedLog[k]] = k
      /\ \A c \in Commit : Stored(c) => seq[c] \in 1 .. n /\ AcceptedLog[seq[c]] = c
  BY <1>1, LogShape
<1> DEFINE touching == {i \in DOMAIN AcceptedLog : p \in Changes(AcceptedLog[i])}
<1>3. Log!Latest(p) = IF touching = {} THEN NoCommit
                      ELSE AcceptedLog[CHOOSE i \in touching : \A j \in touching : j <= i]
  BY DEF Log!Latest, Log!Changes, Changes
<1>4. \A i \in touching : /\ i \in 1 .. n /\ AcceptedLog[i] \in Commit
                          /\ Stored(AcceptedLog[i]) /\ p \in Changes(AcceptedLog[i])
  BY <1>2 DEF Stored
<1>5. CASE head[p] = NoCommit
  <2>1. touching = {}
    BY <1>4, <1>5 DEF Inv, CommitInv, HeadIsLatest
  <2> QED
    BY <1>3, <1>5, <2>1
<1>6. CASE head[p] # NoCommit
  <2>1. head[p] \in Commit /\ Stored(head[p]) /\ p \in Changes(head[p])
    BY <1>6 DEF Inv, TypeOK, CommitInv, HeadIsLatest
  <2>2. seq[head[p]] \in 1 .. n /\ AcceptedLog[seq[head[p]]] = head[p]
    BY <1>2, <2>1
  <2>3. seq[head[p]] \in touching
    BY <1>2, <2>1, <2>2
  <2>4. \A j \in touching : j <= seq[head[p]]
    <3> SUFFICES ASSUME NEW j \in touching PROVE j <= seq[head[p]]
      OBVIOUS
    <3>1. seq[AcceptedLog[j]] <= seq[head[p]]
      BY <1>4 DEF Inv, CommitInv, HeadIsLatest
    <3> QED
      BY <1>2, <1>4, <3>1
  <2>5. \A i \in touching : (\A j \in touching : j <= i) => i = seq[head[p]]
    BY <1>4, <2>2, <2>3, <2>4
  <2> HIDE DEF touching
  <2>6. (CHOOSE i \in touching : \A j \in touching : j <= i) = seq[head[p]]
    BY <2>3, <2>4, <2>5
  <2> QED
    BY <1>3, <2>2, <2>3, <2>6
<1> QED
  BY <1>5, <1>6

LEMMA InitRefines == Init => Log!LogInit
<1> SUFFICES ASSUME Init PROVE Log!LogInit
  OBVIOUS
<1>1. CountedTo(0) /\ Inv
  BY InitInv DEF CountedTo, Init, PushInit
<1>2. AcceptedLog \in Seq(Commit) /\ Len(AcceptedLog) = 0
  BY <1>1, LogShape
<1>3. AcceptedLog = << >>
  BY <1>2
<1> QED
  BY <1>3 DEF Init, PushInit, Log!LogInit

\* Writing a commit appends it to the log.
LEMMA WriteRefines ==
  ASSUME Inv, NEW w \in Pusher, WriteCommit(w)
  PROVE  Log!AppendCommit(push[w].commit)
<1>1. PICK c \in Commit : c = push[w].commit /\ Changes(c) # {}
  BY RequestFacts DEF WriteCommit, PushStep, PushCall
<1>2. BasesMatch(c) /\ ~ Stored(c)
  BY <1>1 DEF Inv, RequestInv, CheckedStillHolds, WriteCommit
<1>3. PICK n \in Nat : CountedTo(n)
  BY DEF Inv, CommitInv
<1>4. /\ AcceptedLog \in Seq(Commit) /\ Len(AcceptedLog) = n
      /\ \A k \in 1 .. n : AcceptedLog[k] \in Commit /\ seq[AcceptedLog[k]] = k
  BY <1>3, LogShape
<1>5. /\ seq \in [Commit -> Nat] /\ seq' = [seq EXCEPT ![c] = NextSeq] /\ UNCHANGED base
  BY <1>1, <1>2 DEF Inv, TypeOK, WriteCommit, commitVars
<1>6. seq' \in [Commit -> Nat] /\ seq'[c] = n + 1 /\ \A d \in Commit : d # c => seq'[d] = seq[d]
  BY <1>3, <1>5, NextSeqIs
<1>7. seq[c] = 0 /\ \A d \in Commit : seq[d] \in 0 .. n
  BY <1>2, <1>3, <1>5 DEF Stored, CountedTo
<1>8. \A k \in 1 .. n : \E d \in Commit : d # c /\ seq[d] = k
  BY <1>3, <1>7 DEF CountedTo
<1>9. NextSeq' = n + 2
  <2>1. \A d \in Commit : seq'[d] \in 0 .. n + 1
    BY <1>6, <1>7
  <2>2. \A k \in 1 .. n + 1 : \E d \in Commit : seq'[d] = k
    <3> SUFFICES ASSUME NEW k \in 1 .. n + 1 PROVE \E d \in Commit : seq'[d] = k
      OBVIOUS
    <3>1. k = n + 1 \/ k \in 1 .. n
      OBVIOUS
    <3> QED
      BY <1>6, <1>8, <3>1
  <2>3. Max({0} \cup {seq'[d] : d \in Commit}) = n + 1
    BY <2>1, <2>2, MaxOfCounted
  <2> QED
    BY <2>3 DEF NextSeq
<1>10. AcceptedLog' = [k \in 1 .. n + 1 |-> CHOOSE d \in Commit : seq'[d] = k]
  BY <1>9 DEF AcceptedLog
<1>11. AcceptedLog'[n + 1] = c
  <2>1. \A d \in Commit : seq'[d] = n + 1 <=> d = c
    BY <1>6, <1>7
  <2> QED
    BY <1>10, <2>1
<1>12. ASSUME NEW k \in 1 .. n
       PROVE  AcceptedLog'[k] = AcceptedLog[k]
  <2>1. \A d \in Commit : seq'[d] = k <=> seq[d] = k
    BY <1>6, <1>7
  <2>2. (CHOOSE d \in Commit : seq'[d] = k) = CHOOSE d \in Commit : seq[d] = k
    BY <2>1
  <2>3. AcceptedLog[k] = CHOOSE d \in Commit : seq[d] = k
    BY <1>3, NextSeqIs DEF AcceptedLog
  <2>4. AcceptedLog'[k] = CHOOSE d \in Commit : seq'[d] = k
    BY <1>10
  <2> QED
    BY <2>2, <2>3, <2>4
<1>13. AcceptedLog' = Append(AcceptedLog, c)
  <2>1. AcceptedLog' \in [1 .. n + 1 -> Commit]
    <3>1. \A k \in 1 .. n + 1 : k = n + 1 \/ k \in 1 .. n
      OBVIOUS
    <3> QED
      BY <1>4, <1>10, <1>11, <1>12, <3>1
  <2>2. AcceptedLog' \in Seq(Commit) /\ Len(AcceptedLog') = n + 1
    BY <2>1
  <2> QED
    BY <1>4, <1>11, <1>12, <2>2
<1>14. \A i \in DOMAIN AcceptedLog : AcceptedLog[i] # c
  BY <1>4, <1>7
<1>15. \A p \in Changes(c) : base[c][p] = Log!Latest(p)
  BY <1>2, LatestIsHead DEF BasesMatch, Changes
<1>16. Log!Changes(c) = Changes(c)
  BY DEF Log!Changes, Changes
<1> QED
  BY <1>1, <1>5, <1>13, <1>14, <1>15, <1>16 DEF Log!AppendCommit

\* Every step is a step of the log or leaves it alone.
LEMMA NextRefines ==
  ASSUME Inv, [Next]_vars
  PROVE  [Log!LogNext]_<<base, AcceptedLog>>
<1>1. seq' = seq => AcceptedLog' = AcceptedLog
  BY DEF AcceptedLog, NextSeq
<1>2. ASSUME NEW c \in Commit, NEW a \in Principal, MakeCommit(c, a)
      PROVE  Log!Make(c)
  <2>1. Log!Changes(c) = {} /\ seq' = seq
    BY <1>2 DEF MakeCommit, Changes, Log!Changes, storeVars
  <2> QED
    BY <1>1, <1>2, <2>1 DEF MakeCommit, Log!Make
<1>3. ASSUME NEW w \in Pusher, WriteCommit(w)
      PROVE  \E c \in Commit : Log!AppendCommit(c)
  <2>1. push[w].commit \in Commit
    BY <1>3, RequestFacts DEF WriteCommit, PushStep, PushCall
  <2> QED
    BY <1>3, <2>1, WriteRefines
<1>4. ASSUME NEW w \in Pusher, Handle(w), ~ WriteCommit(w)
      PROVE  UNCHANGED <<base, seq>>
  BY <1>4 DEF Handle, RequireMember, RequireObjects, Lock, AuthorizePath, RefusePath, CheckBases,
              SeqForCommit, Publish, PushFails, commitVars, storeVars
<1>5. CASE PushNext
  <2>1. ASSUME NEW a \in Principal, NEW o \in Object, UploadObject(a, o)
        PROVE  UNCHANGED <<base, seq>>
    BY <2>1 DEF UploadObject, commitVars
  <2>2. ASSUME NEW w \in Pusher, NEW c \in Commit, Receive(w, c)
        PROVE  UNCHANGED <<base, seq>>
    BY <2>2 DEF Receive, commitVars, storeVars
  <2> QED
    BY <1>1, <1>2, <1>3, <1>4, <1>5, <2>1, <2>2 DEF PushNext, Log!LogNext
<1>6. CASE (AccessNext /\ UNCHANGED pushVars) \/ Crash \/ UNCHANGED vars
  <2>1. UNCHANGED <<base, seq>>
    BY <1>6 DEF pushVars, Crash, vars, commitVars, storeVars
  <2> QED
    BY <1>1, <2>1
<1> QED
  BY <1>5, <1>6 DEF Next

\* Seen through its tables, the server with all its threads, failures and
\* crashes is the one-step log: this is what a push promises its caller.
THEOREM PushImplementsLog == Spec => ImplementsLog
<1>1. Inv /\ [Next]_vars => [Log!LogNext]_<<base, AcceptedLog>>
  BY NextRefines
<1> QED
  BY <1>1, InitRefines, InvAlways, PTL DEF Spec, ImplementsLog, Log!LogSpec

-----------------------------------------------------------------------------
(* What the server asks of the object store.                               *)

\* The contents that stored commits refer to.
Referred == {o \in Object : \E c \in Commit : Stored(c) /\ \E p \in Changes(c) : content[c][p] = o}

Objects == INSTANCE ObjectSet WITH Hash <- Object, present <- objects, lasting <- {},
                                   refs <- Referred, dark <- FALSE

\* The transaction refers to the objects of its commit, which are there.
LEMMA WriteRefersToPresent ==
  ASSUME Inv, NEW w \in Pusher, WriteCommit(w)
  PROVE  \E hs \in SUBSET Object : Objects!ReferTo(hs)
<1>1. PICK c \in Commit : c = push[w].commit
  BY RequestFacts DEF WriteCommit, PushStep, PushCall
<1>2. ~ Stored(c) /\ HasObjects(c)
  <2>1. push[w] # Idle
    BY DEF WriteCommit, Idle
  <2> QED
    BY <1>1, <2>1 DEF Inv, RequestInv, RequestsMade, CheckedStillHolds, WriteCommit
<1>3. /\ seq \in [Commit -> Nat] /\ seq' = [seq EXCEPT ![c] = NextSeq]
      /\ UNCHANGED <<base, content, objects>>
  BY <1>1, <1>2 DEF Inv, TypeOK, WriteCommit, commitVars
<1>4. NextSeq \in Nat /\ NextSeq > 0
  BY NextSeqIs DEF Inv, CommitInv
<1>5. PICK n : n = NextSeq
  OBVIOUS
<1>6. \A d \in Commit : Stored(d)' <=> Stored(d) \/ d = c
  BY <1>3, <1>4, <1>5 DEF Stored
<1>7. \A d \in Commit : Changes(d)' = Changes(d)
  BY <1>3 DEF Changes
<1>8. PICK hs : hs = {o \in Object : \E p \in Changes(c) : content[c][p] = o}
  OBVIOUS
<1>9. Referred' = Referred \cup hs
  BY <1>3, <1>6, <1>7, <1>8 DEF Referred
<1>10. hs \subseteq objects
  BY <1>2, <1>8, PushConstants DEF HasObjects
<1>11. hs \in SUBSET Object
  BY <1>8
<1> QED
  BY <1>3, <1>9, <1>10, <1>11 DEF Objects!ReferTo

\* Making a commit refers to nothing yet.
LEMMA MakeRefersToNone ==
  ASSUME Inv, NEW c \in Commit, NEW a \in Principal, MakeCommit(c, a)
  PROVE  Referred' = Referred
<1>1. Changes(c) = {} /\ ~ Stored(c)
  BY DEF MakeCommit, Inv, CommitInv, StoredMade
<1>2. \A d \in Commit : d # c => base'[d] = base[d] /\ content'[d] = content[d]
  BY DEF MakeCommit, Inv, TypeOK
<1>3. \A d \in Commit : Stored(d)' <=> Stored(d)
  BY DEF MakeCommit, storeVars, Stored
<1>4. \A d \in Commit : d # c => Changes(d)' = Changes(d)
  BY <1>2 DEF Changes
<1> QED
  BY <1>1, <1>2, <1>3, <1>4 DEF Referred

LEMMA NextUsesObjects ==
  ASSUME Inv, [Next]_vars
  PROVE  [Objects!SetNext]_(Objects!setVars)
<1>1. ASSUME UNCHANGED <<base, content, objects, seq>>
      PROVE  UNCHANGED Objects!setVars
  BY <1>1 DEF Objects!setVars, Referred, Stored, Changes
<1>2. ASSUME NEW c \in Commit, NEW a \in Principal, MakeCommit(c, a)
      PROVE  UNCHANGED Objects!setVars
  BY <1>2, MakeRefersToNone DEF Objects!setVars, MakeCommit, storeVars
<1>3. ASSUME NEW a \in Principal, NEW o \in Object, UploadObject(a, o)
      PROVE  Objects!Put(o)
  <2>1. UNCHANGED Referred
    BY <1>3 DEF UploadObject, commitVars, Referred, Stored, Changes
  <2> QED
    BY <1>3, <2>1 DEF UploadObject, Objects!Put
<1>4. ASSUME NEW w \in Pusher, Handle(w), ~ WriteCommit(w)
      PROVE  UNCHANGED <<base, content, objects, seq>>
  BY <1>4 DEF Handle, RequireMember, RequireObjects, Lock, AuthorizePath, RefusePath, CheckBases,
              SeqForCommit, Publish, PushFails, commitVars, storeVars
<1>5. CASE PushNext
  <2>1. ASSUME NEW w \in Pusher, NEW c \in Commit, Receive(w, c)
        PROVE  UNCHANGED <<base, content, objects, seq>>
    BY <2>1 DEF Receive, commitVars, storeVars
  <2> QED
    BY <1>1, <1>2, <1>3, <1>4, <1>5, <2>1, WriteRefersToPresent DEF PushNext, Objects!SetNext
<1>6. CASE (AccessNext /\ UNCHANGED pushVars) \/ Crash \/ UNCHANGED vars
  <2>1. UNCHANGED <<base, content, objects, seq>>
    BY <1>6 DEF pushVars, Crash, vars, commitVars, storeVars
  <2> QED
    BY <1>1, <2>1
<1> QED
  BY <1>5, <1>6 DEF Next

\* Seen from its objects and its commits, the server does to the store no more than
\* ObjectSet has it do with the power on: it puts whole objects and refers to those
\* that are there (handlePush, handleUploadObject).
THEOREM PushUsesObjects == Spec => Objects!SetSpec
<1>1. Init => Objects!SetInit
  <2> SUFFICES ASSUME Init PROVE Objects!SetInit
    OBVIOUS
  <2>1. \A c \in Commit : Changes(c) = {}
    BY DEF Init, PushInit, Changes
  <2> QED
    BY <2>1 DEF Init, PushInit, Referred, Objects!SetInit
<1>2. Inv /\ [Next]_vars => [Objects!SetNext]_(Objects!setVars)
  BY NextUsesObjects
<1> QED
  BY <1>1, <1>2, InvAlways, PTL DEF Spec, Objects!SetSpec
=============================================================================
