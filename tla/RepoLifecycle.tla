---------------------------- MODULE RepoLifecycle ----------------------------
(***************************************************************************)
(* How repositories come to be on a server, and who its directory knows:   *)
(* createRepo and handleMirror with the reservation of the name, the seeds *)
(* of the new store, the clean-up of a failure and the registration; the   *)
(* directory of identities; and the start of the server, which opens every *)
(* store it finds (internal/server: server.go, mirror.go, auth.go,         *)
(* identity_handlers.go; initStore of internal/store/store.go).            *)
(*                                                                         *)
(* A request runs in a goroutine of its own; each statement against a      *)
(* database, each change of the maps under srv.mu and each call of the     *)
(* file system is one step.  Any of them may fail and the process may be   *)
(* killed between any two.                                                 *)
(***************************************************************************)
EXTENDS Integers, Sequences, FiniteSets, SequencesExt

CONSTANTS
  Thread,      \* goroutines that serve requests
  Repo,        \* names of repositories
  Local,       \* principal ids that registration here may mint
  Foreign,     \* principal ids minted by other servers
  Username, Key,
  Candidates,  \* Candidates[u]: u, u-2, u-3, ...
  Mirrors,     \* the mirrors that clients send: their rosters and admins
  MaxFaults    \* bound: failed calls and restarts

Principal == Local \cup Foreign

\* A row of the directory or of the principals of a repository.
Row == [id : Principal, username : Username, key : Key]

ASSUME LifecycleConstants ==
  /\ Local \cap Foreign = {} /\ MaxFaults \in Nat
  /\ Candidates \in [Username -> Seq(Username)]
  /\ \A m \in Mirrors : m.rows \in Seq(Row) /\ m.admins \subseteq Principal

\* What is written into a new store, in this order.
CreateParts == <<"roster", "roles", "grants">>
MirrorParts == <<"roster", "objects", "commits", "grants", "roles">>
Parts       == ToSet(MirrorParts)

\* The directory of a repository: whether store.db is there, what has been
\* written to it, and its members.
Nothing == [db |-> FALSE, parts |-> {}, members |-> {}]

VARIABLES
  directory,   \* the rows of the identity directory, in server.db
  disk,        \* disk[r]: what the directory of r holds
  repos,       \* srv.repos: the repositories that are served
  creating,    \* srv.creating: the names that are reserved
  job,         \* job[t]: the request that goroutine t is working on
  answered,    \* answered[r]: the parts of r when the request for it was answered
  scars,       \* repositories that a failed call may have left half made
  faults,      \* number of failed calls and restarts
  torn         \* repositories that a start of the server found half made: by a
               \* request that died with the process, or by a call that failed

lifecycleVars ==
  <<directory, disk, repos, creating, job, answered, scars, faults, torn>>

\* What a request is about to do, and what it needs for that.
Job == [step : {"idle", "lookup", "check", "init", "write", "find", "insert", "register",
                "answer", "cleanup", "release"},
        kind : {"none", "create", "mirror"}, repo : Repo \cup {"none"},
        who : Principal \cup {"none"}, rows : Seq(Row), parts : Seq(Parts),
        name : Username \cup {"none"}]

\* A goroutine between two requests.
Idle == [step |-> "idle", kind |-> "none", repo |-> "none", who |-> "none",
         rows |-> << >>, parts |-> << >>, name |-> "none"]

LifecycleInit ==
  /\ directory = {} /\ disk = [r \in Repo |-> Nothing]
  /\ repos = {} /\ creating = {}
  /\ job = [t \in Thread |-> Idle]
  /\ answered = [r \in Repo |-> {}] /\ scars = {}
  /\ faults = 0 /\ torn = {}

Ids(rows)       == {row.id : row \in rows}
Usernames(rows) == {row.username : row \in rows}
RowOf(id)       == CHOOSE row \in directory : row.id = id

Goto(t, s) == job' = [job EXCEPT ![t].step = s]

\* The request is over but for its deferred calls.
Return(t, s) == job' = [job EXCEPT ![t] = [Idle EXCEPT !.step = s, !.repo = job[t].repo]]

Fault == faults < MaxFaults /\ faults' = faults + 1

-----------------------------------------------------------------------------
(* The directory, and who a request comes from.                            *)

\* A request is signed with a key, and it is the principal's if that is the key
\* that the directory has for him.
VerifyRequest(id, k) == \E row \in directory : row.id = id /\ row.key = k

\* A mirror is verified by what it carries itself: its signer has this key in
\* the first row of the roster with his id, and is an admin of it.
VerifyMirror(mirror, id, k) ==
  /\ id \in mirror.admins
  /\ \E i \in DOMAIN mirror.rows :
       /\ mirror.rows[i].id = id /\ mirror.rows[i].key = k
       /\ \A j \in 1 .. i - 1 : mirror.rows[j].id # id

\* POST /register mints an id; a username that is taken is refused.
Register(id, u, k) ==
  /\ id \in Local /\ id \notin Ids(directory) /\ u \notin Usernames(directory)
  /\ directory' = directory \cup {[id |-> id, username |-> u, key |-> k]}
  /\ UNCHANGED <<disk, repos, creating, job, answered, scars, faults, torn>>

\* POST /rekey replaces the caller's own key, in the directory alone.
Rekey(id, old, k) ==
  /\ VerifyRequest(id, old) /\ old # k
  /\ directory' = (directory \ {RowOf(id)}) \cup {[RowOf(id) EXCEPT !.key = k]}
  /\ UNCHANGED <<disk, repos, creating, job, answered, scars, faults, torn>>

-----------------------------------------------------------------------------
(* Creation of a repository.                                               *)

\* Mistake: only the repositories that are served already count.
ReserveUnserved(r) == r \notin repos /\ creating' = creating \cup {r}

\* The name is claimed unless the repository exists or is being created.
ReserveRepo(r) == r \notin repos /\ r \notin creating /\ creating' = creating \cup {r}

\* An authenticated caller asks for a new repository.
CreateRepo(t, r, id, k) ==
  /\ job[t].step = "idle" /\ VerifyRequest(id, k)
  /\ ReserveRepo(r)
  /\ job' = [job EXCEPT ![t] =
       [Idle EXCEPT !.step = "lookup", !.kind = "create", !.repo = r, !.who = id,
                    !.parts = CreateParts]]
  /\ UNCHANGED <<directory, disk, repos, answered, scars, faults, torn>>

\* A repository moves here with its members, its history and its grants.
Mirror(t, r, mirror, id, k) ==
  /\ job[t].step = "idle" /\ VerifyMirror(mirror, id, k)
  /\ ReserveRepo(r)
  /\ job' = [job EXCEPT ![t] =
       [Idle EXCEPT !.step = "check", !.kind = "mirror", !.repo = r, !.rows = mirror.rows,
                    !.parts = MirrorParts]]
  /\ UNCHANGED <<directory, disk, repos, answered, scars, faults, torn>>

\* The creator's entry; his key may change after that.
LookUpEntry(t) ==
  /\ job[t].step = "lookup"
  /\ \/ /\ job' = [job EXCEPT ![t].step = "init", ![t].rows = <<RowOf(job[t].who)>>]
        /\ UNCHANGED faults
     \/ Fault /\ Return(t, "release")
  /\ UNCHANGED <<directory, disk, repos, creating, answered, scars, torn>>

\* Paths, numbers, roles and limits of a mirror are accepted or not.
CheckMirror(t) ==
  /\ job[t].step = "check"
  /\ Goto(t, "init") \/ Return(t, "release")
  /\ UNCHANGED <<directory, disk, repos, creating, answered, scars, faults, torn>>

\* Directories and tables are made where they are not there yet; what a failed
\* creation left stays.
InitBare(t) ==
  /\ job[t].step = "init"
  /\ disk' = [disk EXCEPT ![job[t].repo].db = TRUE]
  /\ Goto(t, "write")
  /\ UNCHANGED <<directory, repos, creating, answered, scars, faults, torn>>

\* Mistake: the reservation is kept.
InitLeaks(t) ==
  /\ job[t].step = "init"
  /\ Fault
  /\ job' = [job EXCEPT ![t] = Idle]
  /\ UNCHANGED <<directory, disk, repos, creating, answered, scars, torn>>

\* If it fails, nothing is removed: store.db may be there.
InitFails(t) ==
  LET r == job[t].repo
  IN  /\ job[t].step = "init"
      /\ Fault
      /\ \E db \in BOOLEAN : disk' = [disk EXCEPT ![r].db = @ \/ db]
      /\ scars' = scars \cup {r}
      /\ Return(t, "release")
      /\ UNCHANGED <<directory, repos, creating, answered, torn>>

\* AddPrincipal replaces a member with the same id.
WithMembers(members, rows) == {m \in members : m.id \notin Ids(rows)} \cup rows

\* The next kind of rows or files; a mirror then turns to the directory.
WritePart(t) ==
  LET r == job[t].repo  part == Head(job[t].parts)  rest == Tail(job[t].parts)
  IN  /\ job[t].step = "write"
      /\ disk' = [disk EXCEPT ![r].parts = @ \cup {part},
                              ![r].members = IF part = "roster" THEN WithMembers(@, ToSet(job[t].rows)) ELSE @]
      /\ job' = [job EXCEPT ![t].parts = rest,
                            ![t].step = IF rest # << >> THEN "write"
                                        ELSE IF job[t].kind = "mirror" THEN "find" ELSE "register"]
      /\ UNCHANGED <<directory, repos, creating, answered, scars, faults, torn>>

\* Mistakes: the name is free again before the directory is removed; the
\* directory is not removed.
FailAndRelease(t) ==
  /\ job[t].step \in {"write", "insert"}
  /\ Fault
  /\ creating' = creating \ {job[t].repo}
  /\ Return(t, "cleanup")
  /\ UNCHANGED <<directory, disk, repos, answered, scars, torn>>
FailAndLeave(t) ==
  /\ job[t].step \in {"write", "insert"}
  /\ Fault
  /\ Return(t, "release")
  /\ UNCHANGED <<directory, disk, repos, creating, answered, scars, torn>>

\* A write fails, or a commit of the mirror has another id than it should.
WriteFails(t) ==
  /\ job[t].step \in {"write", "insert"}
  /\ Fault
  /\ Return(t, "cleanup")
  /\ UNCHANGED <<directory, disk, repos, creating, answered, scars, torn>>

\* The clean-up removes the directory, or fails without anyone noticing.
RemoveAll(t) ==
  LET r == job[t].repo
  IN  /\ job[t].step = "cleanup"
      /\ \/ disk' = [disk EXCEPT ![r] = Nothing] /\ UNCHANGED <<scars, faults>>
         \/ Fault /\ scars' = scars \cup {r} /\ UNCHANGED disk
      /\ Return(t, "release")
      /\ UNCHANGED <<directory, repos, creating, answered, torn>>

\* The candidates for the username u before the k-th one are taken.
TakenBefore(u, k) == \A j \in 1 .. k - 1 : Candidates[u][j] \in Usernames(directory)

\* The members of a mirror are seeded one by one: one whose id is known is
\* left alone, for another the first free username is looked up.
FindEntry(t) ==
  LET p == Head(job[t].rows)  c == Candidates[p.username]
  IN  /\ job[t].step = "find"
      /\ \/ /\ job[t].rows = << >>
            /\ Goto(t, "register")
         \/ /\ job[t].rows # << >> /\ p.id \in Ids(directory)
            /\ job' = [job EXCEPT ![t].rows = Tail(@)]
         \/ /\ job[t].rows # << >> /\ p.id \notin Ids(directory)
            /\ \E k \in DOMAIN c :
                 /\ TakenBefore(p.username, k) /\ c[k] \notin Usernames(directory)
                 /\ job' = [job EXCEPT ![t].step = "insert", ![t].name = c[k]]
      /\ UNCHANGED <<directory, disk, repos, creating, answered, scars, faults, torn>>

\* A lookup that fails counts as one that found nothing: the member as unknown,
\* or the candidate that was looked up as free.
FindFails(t) ==
  LET p == Head(job[t].rows)  c == Candidates[p.username]
  IN  /\ job[t].step = "find" /\ job[t].rows # << >>
      /\ Fault
      /\ \E k \in DOMAIN c :
           /\ TakenBefore(p.username, k)
           /\ job' = [job EXCEPT ![t].step = "insert", ![t].name = c[k]]
      /\ UNCHANGED <<directory, disk, repos, creating, answered, scars, torn>>

Seeded(t) == [Head(job[t].rows) EXCEPT !.username = job[t].name]

NextRow(t) == job' = [job EXCEPT ![t].step = "find", ![t].rows = Tail(@), ![t].name = "none"]

\* Mistakes: a second row is made; a row with the same id or name is replaced; a
\* row whose id or name has been taken meanwhile is passed over.
InsertAnyway(t) ==
  /\ job[t].step = "insert"
  /\ directory' = directory \cup {Seeded(t)}
  /\ NextRow(t)
  /\ UNCHANGED <<disk, repos, creating, answered, scars, faults, torn>>
InsertOrReplace(t) ==
  /\ job[t].step = "insert"
  /\ directory' = {row \in directory : row.id # Seeded(t).id /\ row.username # Seeded(t).username}
                     \cup {Seeded(t)}
  /\ NextRow(t)
  /\ UNCHANGED <<disk, repos, creating, answered, scars, faults, torn>>
InsertOrIgnore(t) ==
  /\ job[t].step = "insert"
  /\ directory' = directory \cup
       {row \in {Seeded(t)} : row.id \notin Ids(directory) /\ row.username \notin Usernames(directory)}
  /\ NextRow(t)
  /\ UNCHANGED <<disk, repos, creating, answered, scars, faults, torn>>

\* Somebody may have taken the id or the name since: then the mirror fails.
InsertEntry(t) ==
  /\ job[t].step = "insert"
  /\ IF Seeded(t).id \in Ids(directory) \/ Seeded(t).username \in Usernames(directory)
       THEN Return(t, "cleanup") /\ UNCHANGED directory
       ELSE directory' = directory \cup {Seeded(t)} /\ NextRow(t)
  /\ UNCHANGED <<disk, repos, creating, answered, scars, faults, torn>>

\* The repository is served from here on.
RegisterRepo(t) ==
  /\ job[t].step = "register"
  /\ repos' = repos \cup {job[t].repo}
  /\ Goto(t, "answer")
  /\ UNCHANGED <<directory, disk, creating, answered, scars, faults, torn>>

\* The caller is told that the repository is made.  For a mirror the signer's
\* username is read first: if that fails he is told otherwise, and the repository
\* is served all the same.
Answer(t) ==
  LET r == job[t].repo
  IN  /\ job[t].step = "answer"
      /\ answered' = [answered EXCEPT ![r] =
           ToSet(IF job[t].kind = "mirror" THEN MirrorParts ELSE CreateParts)]
      /\ UNCHANGED faults \/ (job[t].kind = "mirror" /\ Fault)
      /\ Return(t, "release")
      /\ UNCHANGED <<directory, disk, repos, creating, scars, torn>>

ReleaseRepo(t) ==
  /\ job[t].step = "release"
  /\ creating' = creating \ {job[t].repo}
  /\ job' = [job EXCEPT ![t] = Idle]
  /\ UNCHANGED <<directory, disk, repos, answered, scars, faults, torn>>

\* Goroutines that may touch the directory of their repository.
Creators(r) ==
  {t \in Thread : job[t].repo = r
                    /\ job[t].step \in {"init", "write", "find", "insert", "cleanup", "register"}}

\* The process ends, and the next one serves every store it finds.
Restart ==
  /\ Fault
  /\ torn' = torn \cup {r \in Repo : /\ disk[r].db /\ answered[r] = {}
                                     /\ Creators(r) # {} \/ r \in scars}
  /\ job' = [t \in Thread |-> Idle] /\ creating' = {}
  /\ repos' = {r \in Repo : disk[r].db}
  /\ UNCHANGED <<directory, disk, answered, scars>>

Work(t) ==
  \/ LookUpEntry(t) \/ CheckMirror(t) \/ InitBare(t) \/ InitFails(t) \/ WritePart(t)
  \/ WriteFails(t) \/ RemoveAll(t) \/ FindEntry(t) \/ FindFails(t) \/ InsertEntry(t) \/ RegisterRepo(t)
  \/ Answer(t) \/ ReleaseRepo(t)

LifecycleNext ==
  \/ \E t \in Thread : Work(t)
  \/ \E id \in Principal, k \in Key :
       \/ \E t \in Thread, r \in Repo : CreateRepo(t, r, id, k)
       \/ \E t \in Thread, r \in Repo, mirror \in Mirrors : Mirror(t, r, mirror, id, k)
       \/ \E new \in Key : Rekey(id, k, new)
  \/ \E id \in Local, u \in Username, k \in Key : Register(id, u, k)
  \/ Restart

LifecycleSpec == LifecycleInit /\ [][LifecycleNext]_lifecycleVars

-----------------------------------------------------------------------------
(* Properties.                                                             *)

Working(t) == job[t].step # "idle"

\* No two identities share an id or a username.
DirectoryUnique ==
  \A a, b \in directory : a.id = b.id \/ a.username = b.username => a = b

LifecycleTypeOK ==
  /\ directory \subseteq Row /\ DirectoryUnique
  /\ disk \in [Repo -> [db : BOOLEAN, parts : SUBSET Parts, members : SUBSET Row]]
  /\ job \in [Thread -> Job]
  /\ repos \subseteq Repo /\ creating \subseteq Repo /\ scars \subseteq Repo /\ torn \subseteq Repo
  /\ answered \in [Repo -> SUBSET Parts]
  /\ faults \in 0 .. MaxFaults

\* Only one request at a time makes a repository, and none one that is served
\* already: no two handles to one store, each with a lock of its own
\* (reserveRepo, "guarantees only one creator touches a given repo directory").
OneCreator ==
  \A r \in Repo :
    /\ \A s, t \in Creators(r) : s = t
    /\ Creators(r) # {} => r \notin repos

\* A repository whose creation was answered is never damaged or removed, by no
\* other request that fails over the same name and by no restart
\* (createRepo, applyMirror: the deferred RemoveAll and releaseRepo).
AnsweredSurvives ==
  \A r \in Repo : answered[r] # {} => r \in repos /\ answered[r] \subseteq disk[r].parts

\* A repository is served only with its members, an admin and grants in place,
\* before and after any number of starts of the server, except where a start
\* found the store that a dying process or a failed call had left half made
\* (createRepo, applyMirror, loadExistingRepos).
ServedComplete ==
  \A r \in repos \ torn : disk[r].db /\ ToSet(CreateParts) \subseteq disk[r].parts

\* The members of a repository that is served are in the directory, so that they
\* can sign requests and no grant dangles, unless the store was found half made,
\* or a failed call left rows that the next repository of that name took over
\* (seedDirectory).
MembersKnown ==
  \A r \in repos \ (scars \cup torn) : Ids(disk[r].members) \subseteq Ids(directory)

\* A store that is neither served nor being made comes only from a call that
\* failed: no failure of a seed leaves one that the next start would serve
\* ("no partial repo lingers", createRepo).
LeftoverHasCause ==
  \A r \in Repo : disk[r].db => r \in repos \/ Creators(r) # {} \/ r \in scars

\* What a step leaves of the identities.
StayButForRekey ==
  \A row \in directory : row \in directory' \/ \E k \in Key : Rekey(row.id, row.key, k)

\* An identity stays: nobody's mirror, registration or failure removes a row,
\* renames it or replaces its key; a step changes one row at most, and an
\* existing one only by its own rekey (seedDirectory: "Already present by
\* principal_id? Leave as is").
IdentitiesStay == [][StayButForRekey]_lifecycleVars

\* A name is reserved exactly as long as a request is at work on it: whatever
\* fails, none stays blocked (createRepo, handleMirror: the deferred releaseRepo).
NamesHeld == creating = {job[t].repo : t \in {u \in Thread : Working(u)}}
=============================================================================
