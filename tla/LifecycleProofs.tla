--------------------------- MODULE LifecycleProofs ---------------------------
(***************************************************************************)
(* Proofs about RepoLifecycle, for any number of goroutines, repositories, *)
(* identities and usernames, any mirrors, and any number of faults.        *)
(*                                                                         *)
(* The reservation of names is what everything rests on: a request has its *)
(* name for itself from ReserveRepo to ReleaseRepo (Reserved), so what it  *)
(* has written so far is what it finds there (Progress), and nobody's      *)
(* clean-up reaches a repository that is served.                           *)
(***************************************************************************)
EXTENDS RepoLifecycle, TLAPS

\* What belongs to a request at each of its steps.
JobOK(t) ==
  /\ Working(t) => job[t].repo \in Repo
  /\ job[t].step = "lookup" => job[t].kind = "create" /\ job[t].who \in Ids(directory)
  /\ job[t].step \in {"check", "find", "insert"} => job[t].kind = "mirror"
  /\ job[t].step \in {"init", "write", "register", "answer"} => job[t].kind \in {"create", "mirror"}
  /\ job[t].step \in {"lookup", "check", "init", "write"} => job[t].parts # << >>
  /\ job[t].step = "insert" => job[t].rows # << >> /\ job[t].name \in Username

\* The name is taken from the first step of a request to its last.
Reserved ==
  /\ NamesHeld
  /\ \A s, t \in Thread : Working(s) /\ Working(t) /\ job[s].repo = job[t].repo => s = t

\* Until it registers the repository, and if it never does, a request is at
\* work on a name that is not served.
Making(t) ==
  job[t].step \in {"lookup", "check", "init", "write", "find", "insert", "register", "cleanup"}
NotServed == \A t \in Thread : Making(t) => job[t].repo \notin repos

Required(kind) == IF kind = "mirror" THEN Parts ELSE ToSet(CreateParts)

\* What a request has written at each of its steps.
Progress(t) ==
  LET r == job[t].repo  k == job[t].kind
  IN  /\ job[t].step \in {"lookup", "check", "init"} => Required(k) \subseteq ToSet(job[t].parts)
      /\ job[t].step = "write" => Required(k) \subseteq disk[r].parts \cup ToSet(job[t].parts)
      /\ job[t].step \in {"find", "insert", "register", "answer"} => Required(k) \subseteq disk[r].parts
      /\ job[t].step \in {"write", "find", "insert", "register", "answer"} => disk[r].db
      /\ job[t].step = "answer" => r \in repos

AnsweredInv ==
  \A r \in Repo : answered[r] # {} => r \in repos /\ disk[r].db /\ answered[r] \subseteq disk[r].parts

TypeInv == LifecycleTypeOK /\ \A t \in Thread : JobOK(t)

-----------------------------------------------------------------------------
(* Types.                                                                  *)

LEMMA PartsAre ==
  /\ Parts = {"roster", "objects", "commits", "grants", "roles"}
  /\ ToSet(CreateParts) = {"roster", "roles", "grants"}
  /\ CreateParts \in Seq(Parts) /\ CreateParts # << >>
  /\ MirrorParts \in Seq(Parts) /\ MirrorParts # << >>
<1>1. Parts = {"roster", "objects", "commits", "grants", "roles"}
  BY DEF Parts, ToSet, MirrorParts
<1>2. ToSet(CreateParts) = {"roster", "roles", "grants"}
  BY DEF ToSet, CreateParts
<1>3. CreateParts \in Seq(Parts) /\ CreateParts # << >>
  BY <1>1 DEF CreateParts
<1>4. MirrorParts \in Seq(Parts) /\ MirrorParts # << >>
  BY <1>1 DEF MirrorParts
<1> QED
  BY <1>1, <1>2, <1>3, <1>4

LEMMA RowOfIsRow ==
  ASSUME NEW id \in Ids(directory)
  PROVE  RowOf(id) \in directory /\ RowOf(id).id = id
<1>1. \E row \in directory : row.id = id
  BY DEF Ids
<1> QED
  BY <1>1 DEF RowOf

\* What a step leaves of a list is a list.
LEMMA RestOfList ==
  ASSUME NEW S, NEW s \in Seq(S), s # << >>
  PROVE  /\ Head(s) \in S /\ Tail(s) \in Seq(S)
         /\ ToSet(s) = {Head(s)} \cup ToSet(Tail(s))
<1>1. Len(s) \in Nat /\ Len(s) > 0 /\ s \in [1 .. Len(s) -> S] /\ Head(s) = s[1]
  OBVIOUS
<1>2. Tail(s) \in Seq(S) /\ Len(Tail(s)) = Len(s) - 1
      /\ \A j \in 1 .. Len(s) - 1 : Tail(s)[j] = s[j + 1]
  BY <1>1
<1>3. ASSUME NEW j \in 1 .. Len(s)
      PROVE  s[j] = Head(s) \/ \E k \in 1 .. Len(s) - 1 : s[j] = Tail(s)[k]
  <2>1. CASE j = 1
    BY <1>1, <2>1
  <2>2. CASE j # 1
    <3>1. j - 1 \in 1 .. Len(s) - 1 /\ Tail(s)[j - 1] = s[j]
      BY <1>1, <1>2, <2>2
    <3> QED
      BY <3>1
  <2> QED
    BY <2>1, <2>2
<1>4. DOMAIN s = 1 .. Len(s) /\ DOMAIN Tail(s) = 1 .. Len(s) - 1
  BY <1>1, <1>2
<1>5. ToSet(s) \subseteq {Head(s)} \cup ToSet(Tail(s))
  BY <1>3, <1>4 DEF ToSet
<1>6. {Head(s)} \cup ToSet(Tail(s)) \subseteq ToSet(s)
  <2>1. 1 \in 1 .. Len(s) /\ \A k \in 1 .. Len(s) - 1 : k + 1 \in 1 .. Len(s)
    BY <1>1
  <2> QED
    BY <1>1, <1>2, <1>4, <2>1 DEF ToSet
<1> QED
  BY <1>1, <1>2, <1>5, <1>6

LEMMA InitTyped == LifecycleInit => TypeInv
<1> SUFFICES ASSUME LifecycleInit PROVE TypeInv
  OBVIOUS
<1>1. << >> \in Seq(Row) /\ << >> \in Seq(Parts)
  OBVIOUS
<1>2. Idle \in Job
  BY <1>1 DEF Idle, Job
<1>3. \A t \in Thread : JobOK(t)
  BY <1>2 DEF LifecycleInit, JobOK, Working, Idle
<1>4. LifecycleTypeOK
  <2>1. 0 \in 0 .. MaxFaults
    BY LifecycleConstants
  <2>2. disk \in [Repo -> [db : BOOLEAN, parts : SUBSET Parts, members : SUBSET Row]]
    BY DEF LifecycleInit, Nothing
  <2> QED
    BY <1>2, <2>1, <2>2 DEF LifecycleInit, LifecycleTypeOK, DirectoryUnique
<1> QED
  BY <1>3, <1>4 DEF TypeInv

\* An id that is in the directory stays there.
LEMMA IdsStay ==
  ASSUME TypeInv, [LifecycleNext]_lifecycleVars
  PROVE  Ids(directory) \subseteq Ids(directory')
<1>1. ASSUME NEW id \in Principal, NEW old \in Key, NEW k \in Key, Rekey(id, old, k)
      PROVE  Ids(directory) \subseteq Ids(directory')
  <2>1. id \in Ids(directory)
    BY <1>1 DEF Rekey, VerifyRequest, Ids
  <2>2. RowOf(id) \in Row /\ [RowOf(id) EXCEPT !.key = k] \in directory'
    BY <1>1, <2>1, RowOfIsRow DEF Rekey, TypeInv, LifecycleTypeOK
  <2>3. [RowOf(id) EXCEPT !.key = k].id = id
    BY <2>1, <2>2, RowOfIsRow DEF Row
  <2>4. \A row \in directory : row = RowOf(id) \/ row \in directory'
    BY <1>1 DEF Rekey
  <2> QED
    BY <2>1, <2>2, <2>3, <2>4, RowOfIsRow DEF Ids
<1>2. CASE directory \subseteq directory'
  BY <1>2 DEF Ids
<1>3. ASSUME NEW t \in Thread, Work(t)
      PROVE  directory \subseteq directory'
  BY <1>3 DEF Work, LookUpEntry, CheckMirror, InitBare, InitFails, WritePart, WriteFails, RemoveAll,
              FindEntry, FindFails, InsertEntry, RegisterRepo, Answer, ReleaseRepo
<1>4. ASSUME LifecycleNext
      PROVE  \/ directory \subseteq directory'
             \/ \E id \in Principal, old \in Key, k \in Key : Rekey(id, old, k)
  BY <1>3, <1>4 DEF LifecycleNext, CreateRepo, Mirror, Register, Restart
<1> QED
  BY <1>1, <1>2, <1>4 DEF lifecycleVars

\* Of the directory: what comes in has an id and a username that were free.
LEMMA DirectoryStep ==
  ASSUME TypeInv, [LifecycleNext]_lifecycleVars
  PROVE  directory' \subseteq Row /\ DirectoryUnique'
<1> DEFINE Added(row) == /\ row \in Row /\ directory' = directory \cup {row}
                        /\ row.id \notin Ids(directory) /\ row.username \notin Usernames(directory)
<1>1. ASSUME NEW row, Added(row)
      PROVE  directory' \subseteq Row /\ DirectoryUnique'
  BY <1>1 DEF TypeInv, LifecycleTypeOK, DirectoryUnique, Ids, Usernames
<1>2. CASE UNCHANGED directory
  BY <1>2 DEF TypeInv, LifecycleTypeOK, DirectoryUnique
<1>3. ASSUME NEW id \in Local, NEW u \in Username, NEW k \in Key, Register(id, u, k)
      PROVE  \E row : Added(row)
  <2> DEFINE row == [id |-> id, username |-> u, key |-> k]
  <2>1. row \in Row /\ row.id = id /\ row.username = u
    BY DEF Row, Principal
  <2>2. Added(row)
    BY <1>3, <2>1 DEF Register
  <2> QED
    BY <2>2
<1>4. ASSUME NEW id \in Principal, NEW old \in Key, NEW k \in Key, Rekey(id, old, k)
      PROVE  directory' \subseteq Row /\ DirectoryUnique'
  <2> DEFINE row == RowOf(id)  new == [row EXCEPT !.key = k]
  <2>1. row \in directory /\ row \in Row
    <3>1. id \in Ids(directory)
      BY <1>4 DEF Rekey, VerifyRequest, Ids
    <3> QED
      BY <3>1, RowOfIsRow DEF TypeInv, LifecycleTypeOK
  <2>2. new \in Row /\ new.id = row.id /\ new.username = row.username
    BY <2>1 DEF Row
  <2>3. directory' = (directory \ {row}) \cup {new}
    BY <1>4 DEF Rekey
  <2> HIDE DEF row, new
  <2> QED
    BY <2>1, <2>2, <2>3 DEF TypeInv, LifecycleTypeOK, DirectoryUnique
<1>5. ASSUME NEW t \in Thread, InsertEntry(t)
      PROVE  UNCHANGED directory \/ \E row : Added(row)
  <2>1. Seeded(t) \in Row
    <3>1. job[t] \in Job /\ job[t].rows # << >> /\ job[t].name \in Username
      BY <1>5 DEF InsertEntry, TypeInv, LifecycleTypeOK, JobOK
    <3>2. Head(job[t].rows) \in Row
      BY <3>1, RestOfList DEF Job
    <3> QED
      BY <3>1, <3>2 DEF Seeded, Row
  <2> QED
    BY <1>5, <2>1 DEF InsertEntry
<1>6. ASSUME NEW t \in Thread, Work(t)
      PROVE  UNCHANGED directory \/ InsertEntry(t)
  BY <1>6 DEF Work, LookUpEntry, CheckMirror, InitBare, InitFails, WritePart, WriteFails, RemoveAll,
              FindEntry, FindFails, RegisterRepo, Answer, ReleaseRepo
<1>7. ASSUME LifecycleNext
      PROVE  \/ UNCHANGED directory
             \/ \E t \in Thread : InsertEntry(t)
             \/ \E id \in Local, u \in Username, k \in Key : Register(id, u, k)
             \/ \E id \in Principal, old \in Key, k \in Key : Rekey(id, old, k)
  BY <1>6, <1>7 DEF LifecycleNext, CreateRepo, Mirror, Restart
<1> HIDE DEF Added
<1> QED
  BY <1>1, <1>2, <1>3, <1>4, <1>5, <1>7 DEF lifecycleVars

LEMMA TypeStep == TypeInv /\ [LifecycleNext]_lifecycleVars => TypeInv'
<1> SUFFICES ASSUME TypeInv, [LifecycleNext]_lifecycleVars PROVE TypeInv'
  OBVIOUS
<1>1. /\ job \in [Thread -> Job] /\ \A t \in Thread : JobOK(t)
      /\ directory' \subseteq Row /\ DirectoryUnique' /\ Ids(directory) \subseteq Ids(directory')
  BY DirectoryStep, IdsStay DEF TypeInv, LifecycleTypeOK
<1>2. /\ disk \in [Repo -> [db : BOOLEAN, parts : SUBSET Parts, members : SUBSET Row]]
      /\ repos \subseteq Repo /\ creating \subseteq Repo /\ scars \subseteq Repo
      /\ answered \in [Repo -> SUBSET Parts]
      /\ faults \in 0 .. MaxFaults /\ torn \subseteq Repo
  BY DEF TypeInv, LifecycleTypeOK
<1>3. MaxFaults \in Nat /\ \A m \in Mirrors : m.rows \in Seq(Row)
  BY LifecycleConstants
<1>4. ASSUME Fault PROVE faults' \in 0 .. MaxFaults
  BY <1>2, <1>3, <1>4 DEF Fault
<1>5. Idle \in Job
  BY DEF Idle, Job
\* What a step of t has to show of t: the rest of the jobs are as they were.
<1>6. ASSUME NEW t \in Thread, NEW j \in Job, job' = [job EXCEPT ![t] = j], JobOK(t)'
      PROVE  job' \in [Thread -> Job] /\ \A u \in Thread : JobOK(u)'
  <2>1. \A u \in Thread : u # t => job'[u] = job[u]
    BY <1>1, <1>6
  <2> QED
    BY <1>1, <1>6, <2>1 DEF JobOK, Working
<1>7. ASSUME NEW t \in Thread, NEW r \in Repo, NEW id \in Principal, NEW k \in Key, CreateRepo(t, r, id, k)
      PROVE  TypeInv'
  <2> DEFINE j == [Idle EXCEPT !.step = "lookup", !.kind = "create", !.repo = r, !.who = id,
                               !.parts = CreateParts]
  <2>1. j \in Job /\ job' = [job EXCEPT ![t] = j]
    BY <1>5, <1>7, PartsAre DEF CreateRepo, Job
  <2>2. id \in Ids(directory')
    BY <1>1, <1>7 DEF CreateRepo, VerifyRequest, Ids
  <2>3. job'[t].step = "lookup" /\ job'[t].kind = "create" /\ job'[t].repo = r
        /\ job'[t].who = id /\ job'[t].parts = CreateParts
    BY <1>1, <2>1 DEF Idle
  <2>4. JobOK(t)'
    BY <2>2, <2>3, PartsAre DEF JobOK, Working
  <2> QED
    BY <1>1, <1>2, <1>6, <1>7, <2>1, <2>4 DEF CreateRepo, ReserveRepo, TypeInv, LifecycleTypeOK
<1>8. ASSUME NEW t \in Thread, NEW r \in Repo, NEW mirror \in Mirrors, NEW id \in Principal, NEW k \in Key,
             Mirror(t, r, mirror, id, k)
      PROVE  TypeInv'
  <2> DEFINE j == [Idle EXCEPT !.step = "check", !.kind = "mirror", !.repo = r, !.rows = mirror.rows,
                               !.parts = MirrorParts]
  <2>1. j \in Job /\ job' = [job EXCEPT ![t] = j]
    BY <1>3, <1>5, <1>8, PartsAre DEF Mirror, Job
  <2>2. job'[t].step = "check" /\ job'[t].kind = "mirror" /\ job'[t].repo = r
        /\ job'[t].parts = MirrorParts
    BY <1>1, <2>1 DEF Idle
  <2>3. JobOK(t)'
    BY <2>2, PartsAre DEF JobOK, Working
  <2> QED
    BY <1>1, <1>2, <1>6, <1>8, <2>1, <2>3 DEF Mirror, ReserveRepo, TypeInv, LifecycleTypeOK
\* The two ways in which a request goes on.
<1>9. ASSUME NEW t \in Thread, Working(t), NEW s \in {"release", "cleanup"}, Return(t, s)
      PROVE  job' \in [Thread -> Job] /\ \A u \in Thread : JobOK(u)'
  <2> DEFINE j == [Idle EXCEPT !.step = s, !.repo = job[t].repo]
  <2>1. job[t].repo \in Repo
    BY <1>1, <1>9 DEF JobOK
  <2>2. j \in Job /\ job' = [job EXCEPT ![t] = j]
    BY <1>5, <1>9, <2>1 DEF Return, Job
  <2>3. job'[t].step = s /\ job'[t].repo = job[t].repo
    BY <1>1, <2>2 DEF Idle
  <2>4. JobOK(t)'
    BY <2>1, <2>3 DEF JobOK, Working
  <2> QED
    BY <1>6, <2>2, <2>4
<1>10. ASSUME NEW t \in Thread, Working(t),
              NEW s \in {"init", "write", "register", "answer"}, Goto(t, s),
              job[t].kind \in {"create", "mirror"}, s \in {"init", "write"} => job[t].parts # << >>
       PROVE  job' \in [Thread -> Job] /\ \A u \in Thread : JobOK(u)'
  <2> DEFINE j == [job[t] EXCEPT !.step = s]
  <2>1. j \in Job /\ job' = [job EXCEPT ![t] = j]
    BY <1>1, <1>10 DEF Goto, Job
  <2>2. job'[t].step = s /\ job'[t].repo = job[t].repo /\ job'[t].kind = job[t].kind
        /\ job'[t].parts = job[t].parts
    BY <1>1, <2>1 DEF Job
  <2>3. job[t].repo \in Repo
    BY <1>1, <1>10 DEF JobOK
  <2>4. JobOK(t)'
    BY <1>10, <2>2, <2>3 DEF JobOK, Working
  <2> QED
    BY <1>6, <2>1, <2>4
<1>11. ASSUME NEW t \in Thread, LookUpEntry(t)
       PROVE  TypeInv'
  <2>1. job[t].repo \in Repo /\ job[t].kind = "create" /\ job[t].parts # << >> /\ RowOf(job[t].who) \in Row
        /\ Working(t)
    BY <1>1, <1>11, RowOfIsRow DEF LookUpEntry, JobOK, Working, TypeInv, LifecycleTypeOK
  <2>2. ASSUME job' = [job EXCEPT ![t].step = "init", ![t].rows = <<RowOf(job[t].who)>>]
        PROVE  job' \in [Thread -> Job] /\ \A u \in Thread : JobOK(u)'
    <3> DEFINE rows == <<RowOf(job[t].who)>>  j == [job[t] EXCEPT !.step = "init", !.rows = rows]
    <3>1. j \in Job /\ job' = [job EXCEPT ![t] = j]
      <4>1. rows \in Seq(Row)
        BY <2>1
      <4> HIDE DEF rows
      <4>2. j \in Job
        BY <1>1, <4>1 DEF Job
      <4> QED
        BY <1>1, <2>2, <4>2 DEF rows
    <3>2. job'[t].step = "init" /\ job'[t].repo = job[t].repo /\ job'[t].kind = job[t].kind
          /\ job'[t].parts = job[t].parts
      BY <1>1, <3>1 DEF Job
    <3>3. JobOK(t)'
      BY <2>1, <3>2 DEF JobOK, Working
    <3> QED
      BY <1>6, <3>1, <3>3
  <2>3. job' \in [Thread -> Job] /\ \A u \in Thread : JobOK(u)'
    BY <1>9, <1>11, <2>1, <2>2 DEF LookUpEntry
  <2> QED
    BY <1>1, <1>2, <1>4, <1>11, <2>3 DEF LookUpEntry, TypeInv, LifecycleTypeOK
<1>12. ASSUME NEW t \in Thread, CheckMirror(t)
       PROVE  TypeInv'
  <2>1. Working(t) /\ job[t].kind = "mirror" /\ job[t].parts # << >>
    BY <1>1, <1>12 DEF CheckMirror, JobOK, Working
  <2>2. job' \in [Thread -> Job] /\ \A u \in Thread : JobOK(u)'
    BY <1>9, <1>10, <1>12, <2>1 DEF CheckMirror
  <2> QED
    BY <1>1, <1>2, <1>12, <2>2 DEF CheckMirror, TypeInv, LifecycleTypeOK
<1>13. ASSUME NEW t \in Thread, InitBare(t) \/ InitFails(t)
       PROVE  TypeInv'
  <2>1. Working(t) /\ job[t].repo \in Repo /\ job[t].kind \in {"create", "mirror"} /\ job[t].parts # << >>
    BY <1>1, <1>13 DEF InitBare, InitFails, JobOK, Working
  <2>2. job' \in [Thread -> Job] /\ \A u \in Thread : JobOK(u)'
    BY <1>9, <1>10, <1>13, <2>1 DEF InitBare, InitFails
  <2>3. \A db \in BOOLEAN : [disk EXCEPT ![job[t].repo].db = @ \/ db]
          \in [Repo -> [db : BOOLEAN, parts : SUBSET Parts, members : SUBSET Row]]
    BY <1>2, <2>1
  <2>4. [disk EXCEPT ![job[t].repo].db = TRUE]
          \in [Repo -> [db : BOOLEAN, parts : SUBSET Parts, members : SUBSET Row]]
    BY <1>2, <2>1
  <2>5. CASE InitBare(t)
    BY <1>1, <1>2, <2>2, <2>4, <2>5 DEF InitBare, TypeInv, LifecycleTypeOK
  <2>6. CASE InitFails(t)
    BY <1>1, <1>2, <1>4, <2>1, <2>2, <2>3, <2>6 DEF InitFails, TypeInv, LifecycleTypeOK
  <2> QED
    BY <1>13, <2>5, <2>6
<1>14. ASSUME NEW t \in Thread, WritePart(t)
       PROVE  TypeInv'
  <2> DEFINE rest == Tail(job[t].parts)
             s == IF rest # << >> THEN "write" ELSE IF job[t].kind = "mirror" THEN "find" ELSE "register"
             j == [job[t] EXCEPT !.parts = rest, !.step = s]
  <2>1. job[t].repo \in Repo /\ job[t].kind \in {"create", "mirror"} /\ job[t].parts # << >>
        /\ job[t].parts \in Seq(Parts) /\ job[t].rows \in Seq(Row)
    BY <1>1, <1>14 DEF WritePart, JobOK, Working, Job
  <2>2. rest \in Seq(Parts) /\ Head(job[t].parts) \in Parts
    BY <2>1, RestOfList
  <2>3. j \in Job /\ job' = [job EXCEPT ![t] = j]
    BY <1>1, <1>14, <2>2 DEF WritePart, Job
  <2>4. job'[t].step = s /\ job'[t].repo = job[t].repo /\ job'[t].kind = job[t].kind
        /\ job'[t].parts = rest
    BY <1>1, <2>3 DEF Job
  <2>5. JobOK(t)'
    BY <2>1, <2>4 DEF JobOK, Working
  <2>6. ToSet(job[t].rows) \subseteq Row
    BY <2>1 DEF ToSet
  <2>7. disk' \in [Repo -> [db : BOOLEAN, parts : SUBSET Parts, members : SUBSET Row]]
    <3> DEFINE d == disk[job[t].repo]
               mm == IF Head(job[t].parts) = "roster" THEN WithMembers(d.members, ToSet(job[t].rows)) ELSE d.members
    <3>1. d \in [db : BOOLEAN, parts : SUBSET Parts, members : SUBSET Row]
      BY <1>2, <2>1
    <3>2. mm \in SUBSET Row
      BY <2>6, <3>1 DEF WithMembers
    <3>3. disk' = [disk EXCEPT ![job[t].repo] =
                     [d EXCEPT !.parts = d.parts \cup {Head(job[t].parts)}, !.members = mm]]
      BY <1>2, <1>14, <2>1 DEF WritePart
    <3> HIDE DEF d, mm
    <3>4. [d EXCEPT !.parts = d.parts \cup {Head(job[t].parts)}, !.members = mm]
            \in [db : BOOLEAN, parts : SUBSET Parts, members : SUBSET Row]
      BY <2>2, <3>1, <3>2
    <3> QED
      BY <1>2, <3>3, <3>4
  <2> QED
    BY <1>1, <1>2, <1>6, <1>14, <2>3, <2>5, <2>7 DEF WritePart, TypeInv, LifecycleTypeOK
<1>15. ASSUME NEW t \in Thread, WriteFails(t) \/ RemoveAll(t)
       PROVE  TypeInv'
  <2>1. Working(t) /\ job[t].repo \in Repo
    BY <1>1, <1>15 DEF WriteFails, RemoveAll, JobOK, Working
  <2>2. job' \in [Thread -> Job] /\ \A u \in Thread : JobOK(u)'
    BY <1>9, <1>15, <2>1 DEF WriteFails, RemoveAll
  <2>3. Nothing \in [db : BOOLEAN, parts : SUBSET Parts, members : SUBSET Row]
    BY DEF Nothing
  <2> QED
    BY <1>1, <1>2, <1>4, <1>15, <2>1, <2>2, <2>3 DEF WriteFails, RemoveAll, TypeInv, LifecycleTypeOK
<1>16. ASSUME NEW t \in Thread, FindEntry(t) \/ FindFails(t)
       PROVE  TypeInv'
  <2>1. job[t].repo \in Repo /\ job[t].kind = "mirror" /\ job[t].rows \in Seq(Row)
        /\ Working(t) /\ job[t].step = "find"
    BY <1>1, <1>16 DEF FindEntry, FindFails, JobOK, Working, Job
  <2>2. ASSUME job[t].rows # << >>, job' = [job EXCEPT ![t].rows = Tail(@)]
        PROVE  job' \in [Thread -> Job] /\ \A u \in Thread : JobOK(u)'
    <3> DEFINE j == [job[t] EXCEPT !.rows = Tail(job[t].rows)]
    <3>1. j \in Job /\ job' = [job EXCEPT ![t] = j]
      <4>1. Tail(job[t].rows) \in Seq(Row)
        BY <2>1, <2>2, RestOfList
      <4> QED
        BY <1>1, <2>2, <4>1 DEF Job
    <3>2. job'[t].step = "find" /\ job'[t].repo = job[t].repo /\ job'[t].kind = job[t].kind
      BY <1>1, <2>1, <3>1 DEF Job
    <3>3. JobOK(t)'
      BY <2>1, <3>2 DEF JobOK, Working
    <3> QED
      BY <1>6, <3>1, <3>3
  <2>3. ASSUME NEW name \in Username, job[t].rows # << >>,
               job' = [job EXCEPT ![t].step = "insert", ![t].name = name]
        PROVE  job' \in [Thread -> Job] /\ \A u \in Thread : JobOK(u)'
    <3> DEFINE j == [job[t] EXCEPT !.step = "insert", !.name = name]
    <3>1. j \in Job /\ job' = [job EXCEPT ![t] = j]
      BY <1>1, <2>1, <2>3 DEF Job
    <3>2. job'[t].step = "insert" /\ job'[t].repo = job[t].repo /\ job'[t].kind = job[t].kind
          /\ job'[t].rows = job[t].rows /\ job'[t].name = name
      BY <1>1, <3>1 DEF Job
    <3>3. JobOK(t)'
      BY <2>1, <2>3, <3>2 DEF JobOK, Working
    <3> QED
      BY <1>6, <3>1, <3>3
  <2>4. ASSUME job[t].rows # << >>, NEW k \in DOMAIN Candidates[Head(job[t].rows).username]
        PROVE  Candidates[Head(job[t].rows).username][k] \in Username
    <3>1. Head(job[t].rows).username \in Username
      <4>1. Head(job[t].rows) \in Row
        BY <2>1, <2>4, RestOfList
      <4> QED
        BY <4>1 DEF Row
    <3>2. Candidates[Head(job[t].rows).username] \in Seq(Username)
      BY <3>1, LifecycleConstants
    <3> QED
      BY <2>4, <3>2
  <2>5. job' \in [Thread -> Job] /\ \A u \in Thread : JobOK(u)'
    BY <1>10, <1>16, <2>1, <2>2, <2>3, <2>4 DEF FindEntry, FindFails
  <2> QED
    BY <1>1, <1>2, <1>4, <1>16, <2>5 DEF FindEntry, FindFails, TypeInv, LifecycleTypeOK
<1>17. ASSUME NEW t \in Thread, InsertEntry(t)
       PROVE  TypeInv'
  <2>1. job[t].repo \in Repo /\ job[t].kind = "mirror" /\ job[t].rows \in Seq(Row) /\ job[t].rows # << >>
        /\ Working(t)
    BY <1>1, <1>17 DEF InsertEntry, JobOK, Working, Job
  <2>2. ASSUME NextRow(t)
        PROVE  job' \in [Thread -> Job] /\ \A u \in Thread : JobOK(u)'
    <3> DEFINE j == [job[t] EXCEPT !.step = "find", !.rows = Tail(job[t].rows), !.name = "none"]
    <3>1. j \in Job /\ job' = [job EXCEPT ![t] = j]
      <4>1. Tail(job[t].rows) \in Seq(Row)
        BY <2>1, RestOfList
      <4> QED
        BY <1>1, <2>2, <4>1 DEF NextRow, Job
    <3>2. job'[t].step = "find" /\ job'[t].repo = job[t].repo /\ job'[t].kind = job[t].kind
      BY <1>1, <3>1 DEF Job
    <3>3. JobOK(t)'
      BY <2>1, <3>2 DEF JobOK, Working
    <3> QED
      BY <1>6, <3>1, <3>3
  <2>3. job' \in [Thread -> Job] /\ \A u \in Thread : JobOK(u)'
    BY <1>9, <1>17, <2>1, <2>2 DEF InsertEntry
  <2> QED
    BY <1>1, <1>2, <1>17, <2>3 DEF InsertEntry, TypeInv, LifecycleTypeOK
<1>18. ASSUME NEW t \in Thread, RegisterRepo(t)
       PROVE  TypeInv'
  <2>1. Working(t) /\ job[t].repo \in Repo /\ job[t].kind \in {"create", "mirror"}
    BY <1>1, <1>18 DEF RegisterRepo, JobOK, Working
  <2>2. job' \in [Thread -> Job] /\ \A u \in Thread : JobOK(u)'
    BY <1>10, <1>18, <2>1 DEF RegisterRepo
  <2> QED
    BY <1>1, <1>2, <1>18, <2>1, <2>2 DEF RegisterRepo, TypeInv, LifecycleTypeOK
<1>19. ASSUME NEW t \in Thread, Answer(t)
       PROVE  TypeInv'
  <2>1. Working(t) /\ job[t].repo \in Repo
    BY <1>1, <1>19 DEF Answer, JobOK, Working
  <2>2. job' \in [Thread -> Job] /\ \A u \in Thread : JobOK(u)'
    BY <1>9, <1>19, <2>1 DEF Answer
  <2>3. ToSet(IF job[t].kind = "mirror" THEN MirrorParts ELSE CreateParts) \in SUBSET Parts
    BY PartsAre DEF Parts
  <2>4. answered' \in [Repo -> SUBSET Parts] /\ faults' \in 0 .. MaxFaults
    BY <1>2, <1>4, <1>19, <2>1, <2>3 DEF Answer
  <2> QED
    BY <1>1, <1>2, <1>19, <2>2, <2>4 DEF Answer, TypeInv, LifecycleTypeOK
<1>20. ASSUME NEW t \in Thread, ReleaseRepo(t)
       PROVE  TypeInv'
  <2>1. JobOK(t)'
    BY <1>1, <1>20 DEF ReleaseRepo, JobOK, Working, Idle
  <2>2. job' \in [Thread -> Job] /\ \A u \in Thread : JobOK(u)'
    BY <1>5, <1>6, <1>20, <2>1 DEF ReleaseRepo
  <2> QED
    BY <1>1, <1>2, <1>20, <2>2 DEF ReleaseRepo, TypeInv, LifecycleTypeOK
<1>21. CASE Restart
  <2>1. job' \in [Thread -> Job] /\ \A t \in Thread : JobOK(t)'
    BY <1>5, <1>21 DEF Restart, JobOK, Working, Idle
  <2> QED
    BY <1>1, <1>2, <1>4, <1>21, <2>1 DEF Restart, TypeInv, LifecycleTypeOK
<1>22. CASE \/ \E id \in Local, u \in Username, k \in Key : Register(id, u, k)
            \/ \E id \in Principal, old \in Key, k \in Key : Rekey(id, old, k)
  <2>1. UNCHANGED <<disk, repos, creating, job, answered, scars, faults, torn>>
    BY <1>22 DEF Register, Rekey
  <2> QED
    BY <1>1, <1>2, <2>1 DEF JobOK, Working, TypeInv, LifecycleTypeOK
<1>23. CASE UNCHANGED lifecycleVars
  BY <1>1, <1>2, <1>23 DEF lifecycleVars, JobOK, Working, TypeInv, LifecycleTypeOK
<1> QED
  BY <1>7, <1>8, <1>11, <1>12, <1>13, <1>14, <1>15, <1>16, <1>17, <1>18, <1>19, <1>20, <1>21, <1>22,
     <1>23 DEF LifecycleNext, Work

-----------------------------------------------------------------------------
(* What the steps have in common.                                          *)

\* A goroutine that starts a request takes a name that is free.
Starts(t, r) ==
  /\ ~ Working(t) /\ r \in Repo /\ r \notin repos /\ r \notin creating
  /\ creating' = creating \cup {r}
  /\ job'[t].step \in {"lookup", "check"} /\ job'[t].repo = r
  /\ Required(job'[t].kind) \subseteq ToSet(job'[t].parts)
  /\ \A u \in Thread : u # t => job'[u] = job[u]
  /\ UNCHANGED <<directory, disk, repos, answered, scars, faults, torn>>

LEMMA StartsReserved ==
  ASSUME TypeInv, NEW t \in Thread, NEW r \in Repo, NEW id \in Principal, NEW k \in Key,
         CreateRepo(t, r, id, k) \/ \E mirror \in Mirrors : Mirror(t, r, mirror, id, k)
  PROVE  Starts(t, r)
<1>1. job \in [Thread -> Job]
  BY DEF TypeInv, LifecycleTypeOK
<1>2. /\ ~ Working(t) /\ ReserveRepo(r)
      /\ UNCHANGED <<directory, disk, repos, answered, scars, faults, torn>>
  BY DEF CreateRepo, Mirror, Working
<1>3. \A u \in Thread : u # t => job'[u] = job[u]
  BY <1>1 DEF CreateRepo, Mirror
<1>4. /\ job'[t].step \in {"lookup", "check"} /\ job'[t].repo = r
      /\ \/ job'[t].kind = "create" /\ job'[t].parts = CreateParts
         \/ job'[t].kind = "mirror" /\ job'[t].parts = MirrorParts
  <2>1. CASE CreateRepo(t, r, id, k)
    BY <1>1, <2>1 DEF CreateRepo, Idle
  <2>2. ASSUME NEW mirror \in Mirrors, Mirror(t, r, mirror, id, k)
        PROVE  job'[t].step = "check" /\ job'[t].repo = r /\ job'[t].kind = "mirror"
               /\ job'[t].parts = MirrorParts
    BY <1>1, <2>2 DEF Mirror, Idle
  <2> QED
    BY <2>1, <2>2
<1>5. Required(job'[t].kind) \subseteq ToSet(job'[t].parts)
  BY <1>4, PartsAre DEF Required, Parts
<1> QED
  BY <1>2, <1>3, <1>4, <1>5 DEF Starts, ReserveRepo

\* A request keeps its name to its end, and touches no other repository.
Moves(t) ==
  /\ Working(t) /\ job[t].repo \in Repo
  /\ \A u \in Thread : u # t => job'[u] = job[u]
  /\ \/ job'[t].step # "idle" /\ job'[t].repo = job[t].repo /\ creating' = creating
     \/ job[t].step = "release" /\ job'[t].step = "idle" /\ creating' = creating \ {job[t].repo}
  /\ \A r \in Repo : r # job[t].repo => disk'[r] = disk[r] /\ answered'[r] = answered[r]
  /\ repos' = repos \/ (repos' = repos \cup {job[t].repo} /\ job'[t].step = "answer")
  /\ scars \subseteq scars' /\ \A r \in scars' : r \in scars \/ r = job[t].repo
  /\ ~ Making(t) => UNCHANGED <<disk, repos, scars>> /\ job'[t].step \in {"release", "idle"}
  /\ job[t].step # "answer" => UNCHANGED answered
  /\ UNCHANGED torn

LEMMA WorkMoves ==
  ASSUME TypeInv, NEW t \in Thread, Work(t)
  PROVE  Moves(t)
<1>1. job \in [Thread -> Job] /\ job[t] \in Job /\ disk = [r \in Repo |-> disk[r]] /\ answered = [r \in Repo |-> answered[r]]
  BY DEF TypeInv, LifecycleTypeOK
<1>2. Working(t)
  BY DEF Working, Work, LookUpEntry, CheckMirror, InitBare, InitFails, WritePart, WriteFails, RemoveAll,
         FindEntry, FindFails, InsertEntry, RegisterRepo, Answer, ReleaseRepo
<1>3. job[t].repo \in Repo
  BY <1>2 DEF TypeInv, JobOK
<1>4. ASSUME NEW s, Return(t, s) \/ Goto(t, s)
      PROVE  job'[t].step = s /\ job'[t].repo = job[t].repo /\ \A u \in Thread : u # t => job'[u] = job[u]
  <2>1. CASE Return(t, s)
    BY <1>1, <2>1 DEF Return, Idle
  <2>2. CASE Goto(t, s)
    BY <1>1, <2>2 DEF Goto, Job
  <2> QED
    BY <1>4, <2>1, <2>2
<1>6. ASSUME LookUpEntry(t)
      PROVE  Moves(t)
  <2>1. ASSUME job' = [job EXCEPT ![t].step = "init", ![t].rows = <<RowOf(job[t].who)>>]
        PROVE  job'[t].step = "init" /\ job'[t].repo = job[t].repo /\ \A u \in Thread : u # t => job'[u] = job[u]
    BY <1>1, <2>1 DEF Job
  <2>2. job'[t].step \in {"init", "release"} /\ job'[t].repo = job[t].repo
        /\ \A u \in Thread : u # t => job'[u] = job[u]
    BY <1>4, <1>6, <2>1 DEF LookUpEntry
  <2> QED
    BY <1>2, <1>3, <1>6, <2>2 DEF LookUpEntry, Moves, Making
<1>7. ASSUME CheckMirror(t) \/ WriteFails(t)
      PROVE  Moves(t)
  <2>1. job'[t].step \in {"init", "release", "cleanup"} /\ job'[t].repo = job[t].repo
        /\ \A u \in Thread : u # t => job'[u] = job[u]
    BY <1>4, <1>7 DEF CheckMirror, WriteFails
  <2> QED
    BY <1>2, <1>3, <1>7, <2>1 DEF CheckMirror, WriteFails, Moves, Making
<1>8. ASSUME InitBare(t) \/ InitFails(t) \/ RemoveAll(t)
      PROVE  Moves(t)
  <2>1. job'[t].step \in {"write", "release"} /\ job'[t].repo = job[t].repo
        /\ \A u \in Thread : u # t => job'[u] = job[u]
    BY <1>4, <1>8 DEF InitBare, InitFails, RemoveAll
  <2>2. /\ \A r \in Repo : r # job[t].repo => disk'[r] = disk[r]
        /\ scars' \in {scars, scars \cup {job[t].repo}}
        /\ UNCHANGED <<repos, creating, answered, torn>> /\ Making(t)
    BY <1>1, <1>8 DEF InitBare, InitFails, RemoveAll, Making
  <2> QED
    BY <1>2, <1>3, <2>1, <2>2 DEF Moves
<1>9. ASSUME WritePart(t)
      PROVE  Moves(t)
  <2>1. job'[t].step \in {"write", "find", "register"} /\ job'[t].repo = job[t].repo
        /\ \A u \in Thread : u # t => job'[u] = job[u]
    BY <1>1, <1>9 DEF WritePart, Job
  <2>2. /\ \A r \in Repo : r # job[t].repo => disk'[r] = disk[r]
        /\ UNCHANGED <<repos, creating, answered, scars, torn>> /\ Making(t)
    BY <1>1, <1>9 DEF WritePart, Making
  <2> QED
    BY <1>2, <1>3, <2>1, <2>2 DEF Moves
<1>10. ASSUME FindEntry(t) \/ FindFails(t)
       PROVE  Moves(t)
  <2>1. ASSUME job' = [job EXCEPT ![t].rows = Tail(@)]
        PROVE  job'[t].step = job[t].step /\ job'[t].repo = job[t].repo /\ \A u \in Thread : u # t => job'[u] = job[u]
    BY <1>1, <2>1 DEF Job
  <2>2. ASSUME NEW name, job' = [job EXCEPT ![t].step = "insert", ![t].name = name]
        PROVE  job'[t].step = "insert" /\ job'[t].repo = job[t].repo /\ \A u \in Thread : u # t => job'[u] = job[u]
    BY <1>1, <2>2 DEF Job
  <2>3. job'[t].step \in {"find", "insert", "register"} /\ job'[t].repo = job[t].repo
        /\ \A u \in Thread : u # t => job'[u] = job[u]
    BY <1>4, <1>10, <2>1, <2>2 DEF FindEntry, FindFails
  <2> QED
    BY <1>2, <1>3, <1>10, <2>3 DEF FindEntry, FindFails, Moves, Making
<1>11. ASSUME InsertEntry(t)
       PROVE  Moves(t)
  <2>1. ASSUME NextRow(t)
        PROVE  job'[t].step = "find" /\ job'[t].repo = job[t].repo /\ \A u \in Thread : u # t => job'[u] = job[u]
    BY <1>1, <2>1 DEF NextRow, Job
  <2>2. job'[t].step \in {"find", "cleanup"} /\ job'[t].repo = job[t].repo
        /\ \A u \in Thread : u # t => job'[u] = job[u]
    BY <1>4, <1>11, <2>1 DEF InsertEntry
  <2> QED
    BY <1>2, <1>3, <1>11, <2>2 DEF InsertEntry, Moves, Making
<1>12. ASSUME RegisterRepo(t)
       PROVE  Moves(t)
  BY <1>2, <1>3, <1>4, <1>12 DEF RegisterRepo, Moves, Making
<1>13. ASSUME Answer(t)
       PROVE  Moves(t)
  <2>1. \A r \in Repo : r # job[t].repo => answered'[r] = answered[r]
    BY <1>1, <1>13 DEF Answer
  <2> QED
    BY <1>2, <1>3, <1>4, <1>13, <2>1 DEF Answer, Moves, Making
<1>14. ASSUME ReleaseRepo(t)
       PROVE  Moves(t)
  BY <1>1, <1>2, <1>3, <1>14 DEF ReleaseRepo, Idle, Moves, Making
<1> QED
  BY <1>6, <1>7, <1>8, <1>9, <1>10, <1>11, <1>12, <1>13, <1>14 DEF Work

\* What goes on to another step keeps all else, and what returns is at the step
\* it returns to.
LEMMA JobGoes ==
  ASSUME TypeInv, NEW t \in Thread, NEW s
  PROVE  /\ Return(t, s) => job'[t].step = s
         /\ Goto(t, s) =>
              /\ job'[t].step = s /\ job'[t].repo = job[t].repo /\ job'[t].kind = job[t].kind
              /\ job'[t].parts = job[t].parts /\ job'[t].rows = job[t].rows
<1>1. job \in [Thread -> Job]
  BY DEF TypeInv, LifecycleTypeOK
<1>2. Return(t, s) => job'[t].step = s
  BY <1>1 DEF Return, Idle
<1>3. ASSUME Goto(t, s)
      PROVE  /\ job'[t].step = s /\ job'[t].repo = job[t].repo /\ job'[t].kind = job[t].kind
             /\ job'[t].parts = job[t].parts /\ job'[t].rows = job[t].rows
  BY <1>1, <1>3 DEF Goto, Job
<1> QED
  BY <1>2, <1>3

\* A member that has been dealt with is taken off the list, which keeps the rest.
LEMMA NextRowGoes ==
  ASSUME TypeInv, NEW t \in Thread, NextRow(t)
  PROVE  /\ job'[t].step = "find" /\ job'[t].repo = job[t].repo /\ job'[t].kind = job[t].kind
         /\ job'[t].rows = Tail(job[t].rows)
<1>1. job \in [Thread -> Job]
  BY DEF TypeInv, LifecycleTypeOK
<1> QED
  BY <1>1 DEF NextRow, Job

\* A lookup in the directory may find the member, none, or a name for it.
LEMMA FindGoes ==
  ASSUME TypeInv, NEW t \in Thread, FindEntry(t) \/ FindFails(t)
  PROVE  /\ job'[t].step \in {"find", "insert", "register"} /\ job'[t].repo = job[t].repo
         /\ job'[t].kind = job[t].kind
         /\ job'[t].step = "register" => job[t].rows = << >>
         /\ \/ job'[t].rows = job[t].rows
            \/ /\ job'[t].rows = Tail(job[t].rows) /\ job[t].rows # << >>
               /\ Head(job[t].rows).id \in Ids(directory)
<1>1. job \in [Thread -> Job]
  BY DEF TypeInv, LifecycleTypeOK
<1>2. ASSUME job' = [job EXCEPT ![t].rows = Tail(@)]
      PROVE  /\ job'[t].step = job[t].step /\ job'[t].repo = job[t].repo /\ job'[t].kind = job[t].kind
             /\ job'[t].rows = Tail(job[t].rows)
  BY <1>1, <1>2 DEF Job
<1>3. ASSUME NEW name, job' = [job EXCEPT ![t].step = "insert", ![t].name = name]
      PROVE  /\ job'[t].step = "insert" /\ job'[t].repo = job[t].repo /\ job'[t].kind = job[t].kind
             /\ job'[t].rows = job[t].rows
  BY <1>1, <1>3 DEF Job
<1> QED
  BY <1>2, <1>3, JobGoes DEF FindEntry, FindFails

\* Every step is of one of these kinds.
LEMMA StepKinds ==
  ASSUME TypeInv, [LifecycleNext]_lifecycleVars
  PROVE  \/ \E t \in Thread, r \in Repo : Starts(t, r)
         \/ \E t \in Thread : Work(t) /\ Moves(t)
         \/ Restart
         \/ /\ UNCHANGED <<disk, repos, creating, job, answered, scars, torn>>
            /\ Ids(directory) \subseteq Ids(directory')
<1>1. CASE \E id \in Principal, k \in Key, t \in Thread, r \in Repo :
             CreateRepo(t, r, id, k) \/ \E mirror \in Mirrors : Mirror(t, r, mirror, id, k)
  BY <1>1, StartsReserved
<1>2. CASE \E t \in Thread : Work(t)
  BY <1>2, WorkMoves
<1>3. CASE \/ \E id \in Local, u \in Username, k \in Key : Register(id, u, k)
           \/ \E id \in Principal, old \in Key, k \in Key : Rekey(id, old, k)
           \/ UNCHANGED lifecycleVars
  BY <1>3, IdsStay DEF Register, Rekey, lifecycleVars
<1> QED
  BY <1>1, <1>2, <1>3 DEF LifecycleNext

-----------------------------------------------------------------------------
(* One creator, and what has been answered.                                *)

SafeInv ==
  TypeInv /\ Reserved /\ NotServed /\ (\A t \in Thread : Progress(t)) /\ AnsweredInv

LEMMA InitSafe == LifecycleInit => SafeInv
<1> SUFFICES ASSUME LifecycleInit PROVE SafeInv
  OBVIOUS
<1>1. \A t \in Thread : job[t].step = "idle"
  BY DEF LifecycleInit, Idle
<1>2. Reserved /\ NotServed /\ \A t \in Thread : Progress(t)
  BY <1>1 DEF LifecycleInit, Reserved, NamesHeld, NotServed, Progress, Working, Making
<1>3. AnsweredInv
  BY DEF LifecycleInit, AnsweredInv
<1> QED
  BY <1>2, <1>3, InitTyped DEF SafeInv

\* Names are reserved one request at a time.
LEMMA ReservedStep ==
  ASSUME SafeInv, [LifecycleNext]_lifecycleVars
  PROVE  Reserved' /\ NotServed'
<1>1. Reserved /\ NotServed
  BY DEF SafeInv
<1>2. ASSUME NEW t \in Thread, NEW r \in Repo, Starts(t, r)
      PROVE  Reserved' /\ NotServed'
  <2>1. Working(t)' /\ job'[t].repo = r /\ \A u \in Thread : Working(u) => job[u].repo # r
    BY <1>1, <1>2 DEF Starts, Reserved, NamesHeld, Working
  <2>2. \A u \in Thread : u # t => (Working(u)' <=> Working(u)) /\ job'[u].repo = job[u].repo
                                     /\ (Making(u)' <=> Making(u))
    BY <1>2 DEF Starts, Working, Making
  <2>3. NamesHeld'
    BY <1>1, <1>2, <2>1, <2>2 DEF Starts, Reserved, NamesHeld
  <2>4. \A u, v \in Thread : Working(u)' /\ Working(v)' /\ job'[u].repo = job'[v].repo => u = v
    BY <1>1, <2>1, <2>2 DEF Reserved
  <2>5. NotServed'
    BY <1>1, <1>2, <2>1, <2>2 DEF Starts, NotServed
  <2> QED
    BY <2>3, <2>4, <2>5 DEF Reserved
<1>3. ASSUME NEW t \in Thread, Moves(t)
      PROVE  Reserved' /\ NotServed'
  <2>1. \A u \in Thread : u # t => (Working(u)' <=> Working(u)) /\ job'[u].repo = job[u].repo
                                     /\ (Making(u)' <=> Making(u))
    BY <1>3 DEF Moves, Working, Making
  <2>2. \A u \in Thread : u # t /\ Working(u) => job[u].repo # job[t].repo
    BY <1>1, <1>3 DEF Moves, Reserved
  <2>3. ASSUME NEW u \in Thread, NEW v \in Thread, Working(u)', Working(v)', job'[u].repo = job'[v].repo
        PROVE  u = v
    <3>1. ASSUME NEW w \in Thread, Working(w)'
          PROVE  Working(w) /\ job'[w].repo = job[w].repo
      BY <1>3, <2>1, <3>1 DEF Moves, Working
    <3> QED
      BY <1>1, <2>3, <3>1 DEF Reserved
  <2>4. ASSUME Working(t)' PROVE Reserved'
    <3>1. job'[t].repo = job[t].repo /\ creating' = creating
      BY <1>3, <2>4 DEF Moves, Working
    <3>2. NamesHeld'
      BY <1>1, <1>3, <2>1, <2>4, <3>1 DEF Moves, Reserved, NamesHeld
    <3> QED
      BY <2>3, <3>2 DEF Reserved, Working
  <2>5. ASSUME ~ Working(t)' PROVE Reserved'
    <3>1. creating' = creating \ {job[t].repo}
      BY <1>3, <2>5 DEF Moves, Working
    <3>2. NamesHeld'
      BY <1>1, <1>3, <2>1, <2>2, <2>5, <3>1 DEF Moves, Reserved, NamesHeld
    <3> QED
      BY <2>3, <3>2 DEF Reserved, Working
  <2>6. ASSUME NEW u \in Thread, Making(u)'
        PROVE  job'[u].repo \notin repos'
    <3>1. CASE u = t
      <4>1. job'[t].repo = job[t].repo /\ Making(t) /\ repos' = repos
        BY <1>3, <2>6, <3>1 DEF Moves, Making
      <4> QED
        BY <1>1, <3>1, <4>1 DEF NotServed
    <3>2. CASE u # t
      <4>1. Making(u) /\ Working(u)
        BY <2>1, <2>6, <3>2 DEF Making, Working
      <4> QED
        BY <1>1, <1>3, <2>1, <2>2, <3>2, <4>1 DEF Moves, NotServed
    <3> QED
      BY <3>1, <3>2
  <2> QED
    BY <2>4, <2>5, <2>6 DEF NotServed
<1>4. CASE Restart
  <2>1. \A t \in Thread : job'[t].step = "idle"
    BY <1>4 DEF Restart, Idle
  <2> QED
    BY <1>4, <2>1 DEF Restart, Reserved, NamesHeld, NotServed, Working, Making
<1>5. CASE UNCHANGED <<repos, creating, job>>
  BY <1>1, <1>5 DEF Reserved, NamesHeld, NotServed, Working, Making
<1> QED
  BY <1>2, <1>3, <1>4, <1>5, StepKinds DEF SafeInv

\* What a request has written stays, as its name is its own.
LEMMA ProgressStep ==
  ASSUME SafeInv, [LifecycleNext]_lifecycleVars
  PROVE  \A t \in Thread : Progress(t)'
<1>1. /\ TypeInv /\ Reserved /\ \A t \in Thread : Progress(t)
      /\ job \in [Thread -> Job] /\ \A t \in Thread : JobOK(t)
      /\ disk \in [Repo -> [db : BOOLEAN, parts : SUBSET Parts, members : SUBSET Row]]
  BY DEF SafeInv, TypeInv, LifecycleTypeOK
<1>2. ASSUME NEW t \in Thread, NEW r \in Repo, Starts(t, r), NEW u \in Thread
      PROVE  Progress(u)'
  BY <1>1, <1>2 DEF Starts, Progress
<1>3. ASSUME NEW t \in Thread, Moves(t), NEW u \in Thread, u # t
      PROVE  Progress(u)'
  <2>1. CASE ~ Working(u)
    BY <1>3, <2>1 DEF Moves, Progress, Working
  <2>2. CASE Working(u)
    <3>1. job[u].repo \in Repo /\ job[u].repo # job[t].repo
      BY <1>1, <1>3, <2>2 DEF Moves, Reserved, JobOK
    <3>2. job'[u] = job[u] /\ disk'[job[u].repo] = disk[job[u].repo] /\ repos \subseteq repos'
      BY <1>3, <3>1 DEF Moves
    <3> QED
      BY <1>1, <3>2 DEF Progress
  <2> QED
    BY <2>1, <2>2
<1>4. ASSUME NEW t \in Thread, Work(t), Moves(t)
      PROVE  Progress(t)'
  <2>1. Working(t) /\ job[t].repo \in Repo /\ job[t] \in Job /\ Progress(t)
    BY <1>1, <1>4 DEF Moves
  <2>2. CASE job'[t].step \in {"idle", "cleanup", "release"}
    BY <2>2 DEF Progress
  <2>3. ASSUME LookUpEntry(t) \/ CheckMirror(t), job'[t].step \notin {"idle", "cleanup", "release"}
        PROVE  Progress(t)'
    <3>1. job'[t].step = "init" /\ job'[t].kind = job[t].kind /\ job'[t].parts = job[t].parts
      <4>1. ASSUME NEW rows, job' = [job EXCEPT ![t].step = "init", ![t].rows = rows]
            PROVE  job'[t].step = "init" /\ job'[t].kind = job[t].kind /\ job'[t].parts = job[t].parts
        BY <1>1, <4>1 DEF Job
      <4> QED
        BY <1>1, <2>3, <4>1, JobGoes DEF LookUpEntry, CheckMirror
    <3>2. job[t].step \in {"lookup", "check"}
      BY <2>3 DEF LookUpEntry, CheckMirror
    <3> QED
      BY <2>1, <3>1, <3>2 DEF Progress
  <2>4. ASSUME InitBare(t)
        PROVE  Progress(t)'
    <3>1. /\ job'[t].step = "write" /\ job'[t].kind = job[t].kind /\ job'[t].parts = job[t].parts
          /\ job'[t].repo = job[t].repo
      BY <1>1, <2>4, JobGoes DEF InitBare
    <3>2. disk'[job[t].repo].db
      BY <1>1, <2>1, <2>4 DEF InitBare
    <3> QED
      BY <2>1, <2>4, <3>1, <3>2 DEF InitBare, Progress
  <2>5. ASSUME WritePart(t)
        PROVE  Progress(t)'
    <3> DEFINE r == job[t].repo  part == Head(job[t].parts)  rest == Tail(job[t].parts)
    <3>1. job[t].parts \in Seq(Parts) /\ job[t].parts # << >> /\ job[t].step = "write"
      BY <1>1, <2>1, <2>5 DEF WritePart, JobOK, Job
    <3>2. ToSet(job[t].parts) = {part} \cup ToSet(rest)
      BY <3>1, RestOfList
    <3>3. /\ job'[t].kind = job[t].kind /\ job'[t].parts = rest /\ job'[t].repo = r
          /\ job'[t].step \in {"write", "find", "register"}
          /\ job'[t].step # "write" => rest = << >>
      BY <1>1, <2>5 DEF WritePart, Job
    <3>4. disk'[r].db = disk[r].db /\ disk'[r].parts = disk[r].parts \cup {part}
      BY <1>1, <2>1, <2>5 DEF WritePart
    <3>5. Required(job[t].kind) \subseteq disk'[r].parts \cup ToSet(rest) /\ disk'[r].db
      BY <2>1, <3>1, <3>2, <3>4 DEF Progress
    <3>6. rest = << >> => ToSet(rest) = {}
      BY DEF ToSet
    <3> HIDE DEF rest, r
    <3> QED
      BY <3>3, <3>5, <3>6 DEF Progress
  <2>6. ASSUME FindEntry(t) \/ FindFails(t)
        PROVE  Progress(t)'
    <3>1. /\ job'[t].kind = job[t].kind /\ job'[t].step \in {"find", "insert", "register"}
          /\ job'[t].repo = job[t].repo
      BY <1>1, <2>6, FindGoes
    <3>2. job[t].step = "find" /\ disk' = disk
      BY <2>6 DEF FindEntry, FindFails
    <3> QED
      BY <2>1, <3>1, <3>2 DEF Progress
  <2>7. ASSUME InsertEntry(t), job'[t].step \notin {"idle", "cleanup", "release"}
        PROVE  Progress(t)'
    <3>1. job'[t].kind = job[t].kind /\ job'[t].step = "find" /\ job'[t].repo = job[t].repo
      BY <1>1, <2>7, JobGoes, NextRowGoes DEF InsertEntry
    <3>2. job[t].step = "insert" /\ disk' = disk
      BY <2>7 DEF InsertEntry
    <3> QED
      BY <2>1, <3>1, <3>2 DEF Progress
  <2>8. ASSUME RegisterRepo(t)
        PROVE  Progress(t)'
    <3>1. job'[t].kind = job[t].kind /\ job'[t].step = "answer" /\ job'[t].repo = job[t].repo
      BY <1>1, <2>8, JobGoes DEF RegisterRepo
    <3>2. job[t].step = "register" /\ disk' = disk /\ repos' = repos \cup {job[t].repo}
      BY <2>8 DEF RegisterRepo
    <3> QED
      BY <2>1, <3>1, <3>2 DEF Progress
  <2>9. ASSUME InitFails(t) \/ WriteFails(t) \/ RemoveAll(t) \/ Answer(t) \/ ReleaseRepo(t)
        PROVE  job'[t].step \in {"idle", "cleanup", "release"}
    BY <1>1, <2>9, JobGoes DEF InitFails, WriteFails, RemoveAll, Answer, ReleaseRepo, Idle
  <2> QED
    BY <1>4, <2>2, <2>3, <2>4, <2>5, <2>6, <2>7, <2>8, <2>9 DEF Work
<1>5. CASE Restart
  <2>1. \A t \in Thread : job'[t].step = "idle"
    BY <1>5 DEF Restart, Idle
  <2> QED
    BY <2>1 DEF Progress
<1>6. CASE UNCHANGED <<disk, repos, job>>
  BY <1>1, <1>6 DEF Progress
<1> QED
  BY <1>1, <1>2, <1>3, <1>4, <1>5, <1>6, StepKinds

\* No step damages what was answered: a request that could is at work on
\* another name.
LEMMA AnsweredStep ==
  ASSUME SafeInv, [LifecycleNext]_lifecycleVars
  PROVE  AnsweredInv'
<1>1. /\ TypeInv /\ NotServed /\ AnsweredInv /\ \A t \in Thread : Progress(t)
      /\ answered \in [Repo -> SUBSET Parts] /\ \A t \in Thread : JobOK(t)
  BY DEF SafeInv, TypeInv, LifecycleTypeOK
<1>2. CASE UNCHANGED <<disk, repos, answered>>
  BY <1>1, <1>2 DEF AnsweredInv
<1>3. ASSUME NEW t \in Thread, Work(t), Moves(t)
      PROVE  AnsweredInv'
  <2>1. repos \subseteq repos' /\ \A r \in Repo : r # job[t].repo => disk'[r] = disk[r] /\ answered'[r] = answered[r]
    BY <1>3 DEF Moves
  <2>2. CASE Making(t)
    <3>1. answered[job[t].repo] = {} /\ answered' = answered
      BY <1>1, <1>3, <2>2 DEF Moves, Making, NotServed, AnsweredInv
    <3> QED
      BY <1>1, <2>1, <3>1 DEF AnsweredInv
  <2>3. CASE ~ Making(t)
    <3>1. UNCHANGED <<disk, repos>>
      BY <1>3, <2>3 DEF Moves
    <3>2. CASE job[t].step = "answer"
      <4>1. Answer(t)
        BY <1>3, <3>2 DEF Work, LookUpEntry, CheckMirror, InitBare, InitFails, WritePart, WriteFails,
          RemoveAll, FindEntry, FindFails, InsertEntry, RegisterRepo, ReleaseRepo
      <4>2. \A r \in Repo : answered'[r] \in
              {answered[r]} \cup IF r = job[t].repo THEN {Required(job[t].kind)} ELSE {}
        BY <1>1, <4>1 DEF Answer, Required, Parts
      <4>3. job[t].repo \in repos /\ disk[job[t].repo].db
            /\ Required(job[t].kind) \subseteq disk[job[t].repo].parts
        BY <1>1, <3>2 DEF Progress
      <4> QED
        BY <1>1, <3>1, <4>2, <4>3 DEF AnsweredInv
    <3>3. CASE job[t].step # "answer"
      BY <1>2, <1>3, <3>1, <3>3 DEF Moves
    <3> QED
      BY <3>2, <3>3
  <2> QED
    BY <2>2, <2>3
<1>4. CASE Restart
  BY <1>1, <1>4 DEF Restart, AnsweredInv
<1> QED
  BY <1>1, <1>2, <1>3, <1>4, StepKinds DEF Starts

THEOREM SafeAlways == LifecycleSpec => []SafeInv
<1>1. SafeInv /\ [LifecycleNext]_lifecycleVars => SafeInv'
  BY TypeStep, ReservedStep, ProgressStep, AnsweredStep DEF SafeInv
<1> QED
  BY <1>1, InitSafe, PTL DEF LifecycleSpec

\* No two identities share an id or a username, and all variables are well typed.
THEOREM LifecycleTyped == LifecycleSpec => []LifecycleTypeOK
BY SafeAlways, PTL DEF SafeInv, TypeInv

\* A name is reserved exactly as long as a request is at work on it.
THEOREM NamesAlwaysHeld == LifecycleSpec => []NamesHeld
BY SafeAlways, PTL DEF SafeInv, Reserved

\* No two requests make one repository, and none one that is served.
THEOREM OneCreatorAlways == LifecycleSpec => []OneCreator
<1>1. SafeInv => OneCreator
  <2> SUFFICES ASSUME SafeInv, NEW r \in Repo
               PROVE  /\ \A s, t \in Creators(r) : s = t
                      /\ Creators(r) # {} => r \notin repos
    BY DEF OneCreator
  <2>1. \A t \in Creators(r) : t \in Thread /\ job[t].repo = r /\ Working(t) /\ Making(t)
    BY DEF Creators, Working, Making
  <2> QED
    BY <2>1 DEF SafeInv, Reserved, NotServed
<1> QED
  BY <1>1, SafeAlways, PTL

\* A repository whose creation was answered is served with all that was written
\* of it, whatever else fails or is restarted.
THEOREM AnsweredAlwaysSurvives == LifecycleSpec => []AnsweredSurvives
<1>1. SafeInv => AnsweredSurvives
  BY DEF SafeInv, AnsweredInv, AnsweredSurvives
<1> QED
  BY <1>1, SafeAlways, PTL

\* An identity is never removed or renamed, and only its own rekey changes it.
THEOREM IdentitiesAlwaysStay == LifecycleSpec => IdentitiesStay
<1>1. ASSUME TypeInv, [LifecycleNext]_lifecycleVars, NEW row \in directory
      PROVE  row \in directory' \/ \E k \in Key : Rekey(row.id, row.key, k)
  <2>1. ASSUME NEW id \in Principal, NEW old \in Key, NEW k \in Key, Rekey(id, old, k)
        PROVE  row \in directory' \/ Rekey(row.id, row.key, k)
    <3>1. CASE row # RowOf(id)
      BY <2>1, <3>1 DEF Rekey
    <3>2. CASE row = RowOf(id)
      <4>1. PICK own \in directory : own.id = id /\ own.key = old
        BY <2>1 DEF Rekey, VerifyRequest
      <4>2. row.id = id
        BY <3>2, <4>1, RowOfIsRow DEF Ids
      <4>3. row = own
        BY <1>1, <4>1, <4>2 DEF TypeInv, LifecycleTypeOK, DirectoryUnique
      <4> QED
        BY <2>1, <4>1, <4>3
    <3> QED
      BY <3>1, <3>2
  <2>2. ASSUME NEW t \in Thread, Work(t)
        PROVE  directory \subseteq directory'
    BY <2>2 DEF Work, LookUpEntry, CheckMirror, InitBare, InitFails, WritePart, WriteFails, RemoveAll,
                FindEntry, FindFails, InsertEntry, RegisterRepo, Answer, ReleaseRepo
  <2>3. ASSUME LifecycleNext
        PROVE  \/ directory \subseteq directory'
               \/ \E id \in Principal, old \in Key, k \in Key : Rekey(id, old, k)
    BY <2>2, <2>3 DEF LifecycleNext, CreateRepo, Mirror, Register, Restart
  <2> QED
    BY <1>1, <2>1, <2>3 DEF lifecycleVars
<1>2. SafeInv /\ [LifecycleNext]_lifecycleVars => [StayButForRekey]_lifecycleVars
  BY <1>1 DEF SafeInv, StayButForRekey
<1> QED
  BY <1>2, SafeAlways, PTL DEF LifecycleSpec, IdentitiesStay

-----------------------------------------------------------------------------
(* What is served, and what a failure leaves.                              *)

\* A request finds nothing under its name that no failed call explains.
Fresh(t) ==
  job[t].step \in {"lookup", "check", "init"} /\ job[t].repo \notin scars => ~ disk[job[t].repo].db

EmptyWithoutStore == \A r \in Repo : ~ disk[r].db => disk[r].members = {}

\* The members that a request has written, and how they come to be known.
Known(t) ==
  LET rows == Ids(ToSet(job[t].rows))  members == Ids(disk[job[t].repo].members)
  IN  /\ job[t].kind = "create" /\ job[t].step \in {"init", "write"} => rows \subseteq Ids(directory)
      /\ job[t].repo \notin scars =>
           /\ job[t].step \in {"write", "find", "insert"} => members \subseteq Ids(directory) \cup rows
           /\ job[t].step = "register" => members \subseteq Ids(directory)

CompleteInv ==
  /\ LeftoverHasCause /\ ServedComplete /\ EmptyWithoutStore
  /\ \A t \in Thread : Fresh(t)
  /\ MembersKnown /\ \A t \in Thread : Known(t)

LEMMA InitComplete == LifecycleInit => CompleteInv
<1> SUFFICES ASSUME LifecycleInit PROVE CompleteInv
  OBVIOUS
<1>1. \A t \in Thread : job[t].step = "idle"
  BY DEF LifecycleInit, Idle
<1>2. \A r \in Repo : ~ disk[r].db /\ disk[r].members = {}
  BY DEF LifecycleInit, Nothing
<1> QED
  BY <1>1, <1>2 DEF LifecycleInit, CompleteInv, LeftoverHasCause, ServedComplete, EmptyWithoutStore,
                    Fresh, MembersKnown, Known

\* Leftovers: whoever stops making a repository has registered or removed it, or
\* leaves a scar.
LEMMA LeftoverStep ==
  ASSUME SafeInv, CompleteInv, [LifecycleNext]_lifecycleVars
  PROVE  LeftoverHasCause' /\ \A t \in Thread : Fresh(t)'
<1>1. /\ TypeInv /\ Reserved /\ LeftoverHasCause /\ \A t \in Thread : Fresh(t)
      /\ job \in [Thread -> Job] /\ \A t \in Thread : JobOK(t) /\ Progress(t)
      /\ disk \in [Repo -> [db : BOOLEAN, parts : SUBSET Parts, members : SUBSET Row]]
  BY DEF SafeInv, CompleteInv, TypeInv, LifecycleTypeOK
<1>2. ASSUME NEW t \in Thread, NEW r \in Repo, Starts(t, r)
      PROVE  LeftoverHasCause' /\ \A u \in Thread : Fresh(u)'
  <2>1. \A q \in Repo, u \in Thread : u \in Creators(q) => u \in Creators(q)'
    BY <1>2 DEF Starts, Creators, Working
  <2>2. LeftoverHasCause'
    BY <1>1, <1>2, <2>1 DEF Starts, LeftoverHasCause, Creators
  <2>3. Creators(r) = {}
    BY <1>1, <1>2 DEF Starts, Reserved, NamesHeld, Creators, Working
  <2>4. Fresh(t)'
    BY <1>1, <1>2, <2>3 DEF Starts, LeftoverHasCause, Fresh
  <2>5. \A u \in Thread : u # t => Fresh(u)'
    BY <1>1, <1>2 DEF Starts, Fresh
  <2> QED
    BY <2>2, <2>4, <2>5
<1>3. ASSUME NEW t \in Thread, Work(t), Moves(t)
      PROVE  LeftoverHasCause' /\ \A u \in Thread : Fresh(u)'
  <2> DEFINE r == job[t].repo
  <2>1. /\ r \in Repo /\ Working(t) /\ \A u \in Thread : u # t => job'[u] = job[u]
        /\ \A u \in Thread : u # t /\ Working(u) => job[u].repo \in Repo /\ job[u].repo # r
        /\ scars \subseteq scars' /\ \A q \in Repo : q # r => disk'[q] = disk[q] /\ (q \in scars' => q \in scars)
        /\ repos \subseteq repos'
        /\ job'[t].step # "idle" => job'[t].repo = r
    BY <1>1, <1>3 DEF Moves, Reserved, JobOK
  <2>2. ASSUME NEW u \in Thread, u # t
        PROVE  Fresh(u)'
    BY <1>1, <2>1, <2>2 DEF Fresh, Working
  <2>3. ASSUME NEW q \in Repo, q # r, disk'[q].db
        PROVE  q \in repos' \/ Creators(q)' # {} \/ q \in scars'
    <3>1. \A u \in Thread : u \in Creators(q) => u \in Creators(q)'
      BY <2>1, <2>3 DEF Creators
    <3> QED
      BY <1>1, <2>1, <2>3, <3>1 DEF LeftoverHasCause, Creators
  <2>4. job'[t].step \in {"init", "write", "find", "insert", "cleanup", "register"} => Creators(r)' # {}
    BY <2>1 DEF Creators
  <2>5. CASE LookUpEntry(t) \/ CheckMirror(t)
    <3>1. UNCHANGED <<disk, scars, repos>> /\ job[t].step \in {"lookup", "check"} /\ job'[t].step \in {"init", "release"}
      <4>1. job'[t].step \in {"init", "release"}
        <5>1. ASSUME NEW rows, job' = [job EXCEPT ![t].step = "init", ![t].rows = rows]
              PROVE  job'[t].step = "init"
          BY <1>1, <5>1 DEF Job
        <5> QED
          BY <1>1, <2>5, <5>1, JobGoes DEF LookUpEntry, CheckMirror
      <4> QED
        BY <2>5, <4>1 DEF LookUpEntry, CheckMirror
    <3>2. Fresh(t)'
      BY <1>1, <2>1, <3>1 DEF Fresh
    <3>3. disk[r].db => r \in scars
      BY <1>1, <3>1 DEF Fresh
    <3> QED
      BY <2>1, <2>2, <2>3, <3>1, <3>2, <3>3 DEF LeftoverHasCause
  <2>6. CASE job'[t].step \notin {"idle", "lookup", "check", "init", "release", "answer"}
    <3>1. job'[t].step \in {"init", "write", "find", "insert", "cleanup", "register"} /\ Fresh(t)'
      <4>1. job' \in [Thread -> Job]
        BY <1>1, TypeStep, <1>3 DEF TypeInv, LifecycleTypeOK, LifecycleNext
      <4> QED
        BY <2>6, <4>1 DEF Job, Fresh
    <3> QED
      BY <2>1, <2>2, <2>3, <2>4, <3>1 DEF LeftoverHasCause
  <2>7. ASSUME job'[t].step \in {"idle", "release", "answer"}, r \in repos' \/ r \in scars' \/ ~ disk'[r].db
        PROVE  LeftoverHasCause' /\ \A u \in Thread : Fresh(u)'
    <3>1. Fresh(t)'
      BY <2>7 DEF Fresh
    <3> QED
      BY <2>1, <2>2, <2>3, <2>7, <3>1 DEF LeftoverHasCause
  <2>8. CASE InitFails(t) \/ RemoveAll(t)
    <3>1. job'[t].step = "release"
      BY <1>1, <2>8, JobGoes DEF InitFails, RemoveAll
    <3>2. r \in scars' \/ ~ disk'[r].db
      BY <1>1, <2>1, <2>8 DEF InitFails, RemoveAll, Nothing
    <3> QED
      BY <2>7, <3>1, <3>2
  <2>9. CASE RegisterRepo(t)
    BY <1>1, <2>7, <2>9, JobGoes DEF RegisterRepo
  <2>10. CASE Answer(t)
    <3>1. job'[t].step = "release" /\ repos' = repos /\ r \in repos
      BY <1>1, <2>10, JobGoes DEF Answer, Progress
    <3> QED
      BY <2>7, <3>1
  <2>11. CASE ReleaseRepo(t)
    <3>1. job'[t].step = "idle" /\ UNCHANGED <<disk, repos, scars>> /\ job[t].step = "release"
      BY <1>1, <2>11 DEF ReleaseRepo, Idle
    <3>2. Creators(r) = {}
      BY <2>1, <3>1 DEF Creators, Working
    <3> QED
      BY <1>1, <2>1, <2>7, <3>1, <3>2 DEF LeftoverHasCause
  <2>12. ASSUME InitBare(t) \/ WritePart(t) \/ WriteFails(t) \/ FindEntry(t) \/ FindFails(t) \/ InsertEntry(t)
         PROVE  job'[t].step \notin {"idle", "lookup", "check", "init", "release", "answer"}
    <3>1. ASSUME WritePart(t)
          PROVE  job'[t].step \in {"write", "find", "register"}
      BY <1>1, <3>1 DEF WritePart, Job
    <3> QED
      BY <1>1, <2>12, <3>1, JobGoes, FindGoes, NextRowGoes DEF InitBare, WriteFails, InsertEntry
  <2> QED
    BY <1>3, <2>5, <2>6, <2>8, <2>9, <2>10, <2>11, <2>12 DEF Work
<1>4. CASE Restart
  <2>1. \A t \in Thread : job'[t].step = "idle"
    BY <1>4 DEF Restart, Idle
  <2> QED
    BY <1>1, <1>4, <2>1 DEF Restart, LeftoverHasCause, Fresh
<1>5. CASE UNCHANGED <<disk, repos, job, scars>>
  BY <1>1, <1>5 DEF LeftoverHasCause, Creators, Fresh
<1> QED
  BY <1>1, <1>2, <1>3, <1>4, <1>5, StepKinds

\* A store that nobody served before a start of the server was being made, or
\* was left by a call that failed, and no request for it was answered.
LEMMA UnservedIsTorn ==
  ASSUME SafeInv, CompleteInv, Restart, NEW r \in Repo, disk[r].db, r \notin torn'
  PROVE  r \in repos
<1>1. r \in repos \/ Creators(r) # {} \/ r \in scars
  BY DEF CompleteInv, LeftoverHasCause
<1>2. answered[r] # {} => r \in repos
  BY DEF SafeInv, AnsweredInv
<1> QED
  BY <1>1, <1>2 DEF Restart

\* What is served was complete when it was registered, and is not touched after.
LEMMA ServedStep ==
  ASSUME SafeInv, CompleteInv, [LifecycleNext]_lifecycleVars
  PROVE  ServedComplete' /\ EmptyWithoutStore'
<1>1. /\ TypeInv /\ Reserved /\ NotServed /\ ServedComplete /\ EmptyWithoutStore
      /\ job \in [Thread -> Job] /\ \A t \in Thread : JobOK(t) /\ Progress(t)
      /\ disk \in [Repo -> [db : BOOLEAN, parts : SUBSET Parts, members : SUBSET Row]]
      /\ repos \subseteq Repo
  BY DEF SafeInv, CompleteInv, TypeInv, LifecycleTypeOK
<1>2. ASSUME NEW t \in Thread, Work(t), Moves(t)
      PROVE  ServedComplete' /\ EmptyWithoutStore'
  <2> DEFINE r == job[t].repo
  <2>1. r \in Repo /\ \A q \in Repo : q # r => disk'[q] = disk[q]
    BY <1>2 DEF Moves
  <2>2. ~ disk'[r].db => disk'[r].members = {}
    <3>1. CASE UNCHANGED disk
      BY <1>1, <2>1, <3>1 DEF EmptyWithoutStore
    <3>2. CASE InitBare(t) \/ InitFails(t)
      <4>1. ASSUME NEW db \in BOOLEAN, disk' = [disk EXCEPT ![r].db = @ \/ db]
            PROVE  disk'[r].members = disk[r].members /\ (disk[r].db => disk'[r].db)
        BY <1>1, <2>1, <4>1
      <4>2. CASE InitBare(t)
        <5>1. disk'[r].db
          BY <1>1, <2>1, <4>2 DEF InitBare
        <5> QED
          BY <5>1
      <4>3. CASE InitFails(t)
        BY <1>1, <2>1, <4>1, <4>3 DEF InitFails, EmptyWithoutStore
      <4> QED
        BY <3>2, <4>2, <4>3
    <3>3. CASE WritePart(t)
      <4>1. disk[r].db
        BY <1>1, <3>3 DEF WritePart, Progress
      <4> QED
        BY <1>1, <2>1, <3>3, <4>1 DEF WritePart
    <3>4. CASE RemoveAll(t)
      BY <1>1, <2>1, <3>4, <3>1 DEF RemoveAll, Nothing
    <3> QED
      BY <1>2, <3>1, <3>2, <3>3, <3>4 DEF Work, LookUpEntry, CheckMirror, WriteFails,
        FindEntry, FindFails, InsertEntry, RegisterRepo, Answer, ReleaseRepo
  <2>3. EmptyWithoutStore'
    BY <1>1, <2>1, <2>2 DEF EmptyWithoutStore
  <2>4. ASSUME r \in repos', r \notin torn
        PROVE  disk'[r].db /\ ToSet(CreateParts) \subseteq disk'[r].parts
    <3>1. CASE r \in repos
      <4>1. UNCHANGED disk
        BY <1>1, <1>2, <3>1 DEF Moves, NotServed
      <4> QED
        BY <1>1, <2>4, <3>1, <4>1 DEF ServedComplete
    <3>2. CASE r \notin repos
      <4>1. RegisterRepo(t)
        BY <1>2, <2>4, <3>2 DEF Work, LookUpEntry, CheckMirror, InitBare, InitFails, WritePart, WriteFails,
          RemoveAll, FindEntry, FindFails, InsertEntry, Answer, ReleaseRepo
      <4>2. disk[r].db /\ Required(job[t].kind) \subseteq disk[r].parts /\ disk' = disk
        BY <1>1, <4>1 DEF RegisterRepo, Progress
      <4>3. ToSet(CreateParts) \subseteq Required(job[t].kind)
        BY PartsAre DEF Required
      <4> QED
        BY <4>2, <4>3
    <3> QED
      BY <3>1, <3>2
  <2>5. ServedComplete'
    BY <1>1, <1>2, <2>1, <2>4 DEF Moves, ServedComplete
  <2> QED
    BY <2>3, <2>5
<1>3. CASE Restart
  <2>1. ASSUME NEW r \in Repo, disk[r].db, r \notin torn'
        PROVE  r \in repos
    BY <2>1, <1>3, UnservedIsTorn
  <2>2. UNCHANGED disk /\ torn \subseteq torn' /\ \A r \in repos' : r \in Repo /\ disk[r].db
    BY <1>3 DEF Restart
  <2>3. \A r \in repos' \ torn' : r \in repos \ torn
    BY <2>1, <2>2
  <2> QED
    BY <1>1, <2>2, <2>3 DEF ServedComplete, EmptyWithoutStore
<1>4. CASE UNCHANGED <<disk, repos, torn>>
  BY <1>1, <1>4 DEF ServedComplete, EmptyWithoutStore
<1> QED
  BY <1>1, <1>2, <1>3, <1>4, StepKinds DEF Starts

\* What a request still has to do for the members that it writes.
LEMMA KnownStep ==
  ASSUME SafeInv, CompleteInv, NEW t \in Thread, Work(t), Moves(t),
         Ids(directory) \subseteq Ids(directory')
  PROVE  Known(t)'
<1> DEFINE r == job[t].repo
<1>1. /\ TypeInv /\ Reserved /\ EmptyWithoutStore /\ Fresh(t) /\ Known(t) /\ JobOK(t) /\ Progress(t)
      /\ job \in [Thread -> Job] /\ job[t] \in Job /\ r \in Repo
      /\ disk \in [Repo -> [db : BOOLEAN, parts : SUBSET Parts, members : SUBSET Row]]
  BY DEF SafeInv, CompleteInv, TypeInv, LifecycleTypeOK, Moves
<1>2. CASE job'[t].step \in {"idle", "cleanup", "release", "answer"}
  BY <1>2 DEF Known
<1>3. ASSUME LookUpEntry(t) \/ CheckMirror(t), job'[t].step \notin {"idle", "cleanup", "release", "answer"}
      PROVE  Known(t)'
  <2>1. CASE LookUpEntry(t)
    <3>1. job' = [job EXCEPT ![t].step = "init", ![t].rows = <<RowOf(job[t].who)>>]
      BY <1>1, <1>3, <2>1, JobGoes DEF LookUpEntry
    <3>2. job'[t].step = "init" /\ job'[t].rows = <<RowOf(job[t].who)>>
      BY <1>1, <3>1 DEF Job
    <3>3. RowOf(job[t].who) \in directory
      BY <1>1, <2>1, RowOfIsRow DEF LookUpEntry, JobOK
    <3>4. ToSet(job'[t].rows) = {RowOf(job[t].who)}
      BY <3>2 DEF ToSet
    <3>5. Ids(ToSet(job'[t].rows)) \subseteq Ids(directory')
      BY <3>3, <3>4 DEF Ids
    <3> QED
      BY <3>2, <3>5 DEF Known
  <2>2. CASE CheckMirror(t)
    <3>1. job'[t].step = "init" /\ job'[t].kind = "mirror"
      BY <1>1, <1>3, <2>2, JobGoes DEF CheckMirror, JobOK
    <3> QED
      BY <3>1 DEF Known
  <2> QED
    BY <1>3, <2>1, <2>2
<1>4. ASSUME InitBare(t)
      PROVE  Known(t)'
  <2>1. job'[t].step = "write" /\ job'[t].repo = r /\ job'[t].kind = job[t].kind /\ job'[t].rows = job[t].rows
    BY <1>1, <1>4, JobGoes DEF InitBare
  <2>2. disk'[r].members = disk[r].members /\ scars' = scars /\ job[t].step = "init" /\ directory' = directory
    BY <1>1, <1>4 DEF InitBare
  <2>3. r \notin scars => Ids(disk[r].members) = {}
    BY <1>1, <2>2 DEF Ids, Fresh, EmptyWithoutStore
  <2> QED
    BY <1>1, <2>1, <2>2, <2>3 DEF Known
<1>5. ASSUME WritePart(t)
      PROVE  Known(t)'
  <2> DEFINE rows == Ids(ToSet(job[t].rows))
  <2>1. /\ job'[t].step \in {"write", "find", "register"} /\ job'[t].repo = r
        /\ job'[t].kind = job[t].kind /\ job'[t].rows = job[t].rows
        /\ job'[t].step = "find" => job[t].kind = "mirror"
        /\ job'[t].step = "register" => job[t].kind # "mirror"
    BY <1>1, <1>5 DEF WritePart, Job
  <2>2. job[t].kind \in {"create", "mirror"} /\ job[t].step = "write" /\ UNCHANGED <<directory, scars>>
    BY <1>1, <1>5 DEF WritePart, JobOK
  <2>3. disk'[r].members \subseteq disk[r].members \cup ToSet(job[t].rows)
    BY <1>1, <1>5 DEF WritePart, WithMembers
  <2>4. Ids(disk'[r].members) \subseteq Ids(disk[r].members) \cup rows
    BY <2>3 DEF Ids
  <2>5. job[t].kind = "create" => rows \subseteq Ids(directory)
    BY <1>1, <2>2 DEF Known
  <2>6. r \notin scars => Ids(disk[r].members) \subseteq Ids(directory) \cup rows
    BY <1>1, <2>2 DEF Known
  <2> QED
    BY <2>1, <2>2, <2>4, <2>5, <2>6 DEF Known
\* The member at the head of the list is in the directory when it is taken off.
<1>6. ASSUME job[t].step \in {"find", "insert"}, job[t].kind = "mirror", job'[t].kind = "mirror",
             job'[t].repo = r, UNCHANGED <<disk, scars>>,
             job'[t].step \in {"find", "insert"} \/ (job'[t].step = "register" /\ job[t].rows = << >>),
             \/ job'[t].rows = job[t].rows
             \/ /\ job'[t].rows = Tail(job[t].rows) /\ job[t].rows # << >>
                /\ Head(job[t].rows).id \in Ids(directory')
      PROVE  Known(t)'
  <2>1. r \notin scars => Ids(disk[r].members) \subseteq Ids(directory') \cup Ids(ToSet(job[t].rows))
    BY <1>1, <1>6 DEF Known
  <2>2. ASSUME job'[t].rows = Tail(job[t].rows), job[t].rows # << >>, Head(job[t].rows).id \in Ids(directory')
        PROVE  Ids(ToSet(job[t].rows)) \subseteq Ids(directory') \cup Ids(ToSet(job'[t].rows))
    <3>1. job[t].rows \in Seq(Row)
      BY <1>1 DEF Job
    <3>2. ToSet(job[t].rows) = {Head(job[t].rows)} \cup ToSet(Tail(job[t].rows))
      BY <2>2, <3>1, RestOfList
    <3>3. Ids(ToSet(job[t].rows)) = {Head(job[t].rows).id} \cup Ids(ToSet(Tail(job[t].rows)))
      BY <3>2 DEF Ids
    <3> QED
      BY <2>2, <3>3
  <2>3. Ids(ToSet(job[t].rows)) \subseteq Ids(directory') \cup Ids(ToSet(job'[t].rows))
    BY <1>6, <2>2
  <2>4. job[t].rows = << >> => Ids(ToSet(job[t].rows)) = {}
    BY DEF ToSet, Ids
  <2> HIDE DEF r
  <2> QED
    BY <1>6, <2>1, <2>3, <2>4 DEF Known
<1>7. ASSUME FindEntry(t) \/ FindFails(t)
      PROVE  Known(t)'
  <2>1. job[t].step = "find" /\ job[t].kind = "mirror" /\ UNCHANGED <<directory, disk, scars>>
    BY <1>1, <1>7 DEF FindEntry, FindFails, JobOK
  <2> QED
    BY <1>1, <1>6, <1>7, <2>1, FindGoes
<1>8. ASSUME InsertEntry(t), job'[t].step \notin {"idle", "cleanup", "release", "answer"}
      PROVE  Known(t)'
  <2>1. job[t].step = "insert" /\ job[t].kind = "mirror" /\ job[t].rows # << >> /\ UNCHANGED <<disk, scars>>
    BY <1>1, <1>8 DEF InsertEntry, JobOK
  <2>2. NextRow(t) /\ directory' = directory \cup {Seeded(t)}
    BY <1>1, <1>8, JobGoes DEF InsertEntry
  <2>3. Seeded(t).id = Head(job[t].rows).id
    <3>1. job[t].rows \in Seq(Row)
      BY <1>1 DEF Job
    <3>2. Head(job[t].rows) \in Row
      BY <2>1, <3>1, RestOfList
    <3> QED
      BY <3>2 DEF Seeded, Row
  <2>4. Head(job[t].rows).id \in Ids(directory')
    BY <2>2, <2>3 DEF Ids
  <2> QED
    BY <1>1, <1>6, <2>1, <2>2, <2>4, NextRowGoes
<1>9. ASSUME RegisterRepo(t) \/ InitFails(t) \/ WriteFails(t) \/ RemoveAll(t) \/ Answer(t) \/ ReleaseRepo(t)
      PROVE  job'[t].step \in {"idle", "cleanup", "release", "answer"}
  BY <1>1, <1>9, JobGoes DEF RegisterRepo, InitFails, WriteFails, RemoveAll, Answer, ReleaseRepo, Idle
<1> QED
  BY <1>2, <1>3, <1>4, <1>5, <1>7, <1>8, <1>9 DEF Work

LEMMA MembersStep ==
  ASSUME SafeInv, CompleteInv, [LifecycleNext]_lifecycleVars
  PROVE  MembersKnown' /\ \A t \in Thread : Known(t)'
<1>1. /\ TypeInv /\ Reserved /\ NotServed /\ repos \subseteq Repo
      /\ job \in [Thread -> Job] /\ \A t \in Thread : JobOK(t) /\ Progress(t)
      /\ Ids(directory) \subseteq Ids(directory')
  BY IdsStay DEF SafeInv, TypeInv, LifecycleTypeOK
<1>2. MembersKnown /\ \A t \in Thread : Known(t)
  BY DEF CompleteInv
<1>3. ASSUME NEW t \in Thread, NEW r \in Repo, Starts(t, r)
      PROVE  MembersKnown' /\ \A u \in Thread : Known(u)'
  <2>1. MembersKnown'
    BY <1>2, <1>3 DEF Starts, MembersKnown
  <2>2. Known(t)'
    BY <1>3 DEF Starts, Known
  <2>3. \A u \in Thread : u # t => Known(u)'
    BY <1>2, <1>3 DEF Starts, Known
  <2> QED
    BY <2>1, <2>2, <2>3
<1>4. ASSUME NEW t \in Thread, Work(t), Moves(t)
      PROVE  MembersKnown' /\ \A u \in Thread : Known(u)'
  <2> DEFINE r == job[t].repo
  <2>1. /\ r \in Repo /\ \A u \in Thread : u # t => job'[u] = job[u]
        /\ \A u \in Thread : u # t /\ Working(u) => job[u].repo \in Repo /\ job[u].repo # r
        /\ scars \subseteq scars' /\ \A q \in Repo : q # r => disk'[q] = disk[q]
        /\ torn' = torn /\ \A q \in repos' : q \in repos \/ q = r
    BY <1>1, <1>4 DEF Moves, Reserved, JobOK
  <2>2. ASSUME NEW u \in Thread, u # t
        PROVE  Known(u)'
    <3>1. CASE Working(u)
      BY <1>1, <1>2, <2>1, <2>2, <3>1 DEF Known
    <3>2. CASE ~ Working(u)
      BY <2>1, <2>2, <3>2 DEF Known, Working
    <3> QED
      BY <3>1, <3>2
  <2>3. Known(t)'
    BY <1>1, <1>2, <1>4, KnownStep
  <2>4. ASSUME r \in repos', r \notin scars' \cup torn'
        PROVE  Ids(disk'[r].members) \subseteq Ids(directory')
    <3>1. CASE r \in repos
      <4>1. UNCHANGED disk
        BY <1>1, <1>4, <3>1 DEF Moves, NotServed
      <4> QED
        BY <1>1, <1>2, <2>1, <2>4, <3>1, <4>1 DEF MembersKnown
    <3>2. CASE r \notin repos
      <4>1. RegisterRepo(t)
        BY <1>4, <2>4, <3>2 DEF Work, LookUpEntry, CheckMirror, InitBare, InitFails, WritePart, WriteFails,
          RemoveAll, FindEntry, FindFails, InsertEntry, Answer, ReleaseRepo
      <4>2. job[t].step = "register" /\ disk' = disk
        BY <4>1 DEF RegisterRepo
      <4> QED
        BY <1>1, <1>2, <2>1, <2>4, <4>2 DEF Known
    <3> QED
      BY <3>1, <3>2
  <2>5. MembersKnown'
    BY <1>1, <1>2, <2>1, <2>4 DEF MembersKnown
  <2> QED
    BY <2>2, <2>3, <2>5
<1>5. CASE UNCHANGED <<disk, repos, job, scars, torn>>
  BY <1>1, <1>2, <1>5 DEF MembersKnown, Known
<1>6. CASE Restart
  <2>1. \A t \in Thread : Known(t)'
    BY <1>6 DEF Restart, Known, Idle
  <2>2. UNCHANGED <<directory, disk, scars>> /\ torn \subseteq torn'
        /\ \A r \in repos' : r \in Repo /\ disk[r].db
    BY <1>6 DEF Restart
  <2>3. \A r \in repos' \ (scars' \cup torn') : r \in repos \ (scars \cup torn)
    BY <1>6, <2>2, UnservedIsTorn
  <2> QED
    BY <1>2, <2>1, <2>2, <2>3 DEF MembersKnown
<1> QED
  BY <1>1, <1>3, <1>4, <1>5, <1>6, StepKinds

THEOREM CompleteAlways == LifecycleSpec => []CompleteInv
<1>1. SafeInv /\ CompleteInv /\ [LifecycleNext]_lifecycleVars => CompleteInv'
  BY LeftoverStep, ServedStep, MembersStep DEF CompleteInv
<1> QED
  BY <1>1, InitComplete, SafeAlways, PTL DEF LifecycleSpec

\* A store that nobody serves or makes comes only from a call that failed.
THEOREM LeftoversHaveCause == LifecycleSpec => []LeftoverHasCause
BY CompleteAlways, PTL DEF CompleteInv

\* What is served has its members, an admin and grants, unless a start of the
\* server found it half made.
THEOREM ServedIsComplete == LifecycleSpec => []ServedComplete
BY CompleteAlways, PTL DEF CompleteInv

\* The members of what is served are in the directory, unless a start of the
\* server found it half made or a failed call left some behind.
THEOREM MembersAreKnown == LifecycleSpec => []MembersKnown
<1>1. CompleteInv => MembersKnown
  BY DEF CompleteInv, MembersKnown
<1> QED
  BY <1>1, CompleteAlways, PTL
=============================================================================
