----------------------------- MODULE ObjectStore -----------------------------
(***************************************************************************)
(* The store of file contents: ObjectStore of internal/store/objects.go,   *)
(* the upload handler in front of it, and the pushes that refer to what it *)
(* holds.                                                                  *)
(*                                                                         *)
(* An object is a file named by its hash.  WriteObject writes a temporary  *)
(* file, one per hash, flushes it, renames it to the final name and syncs  *)
(* the directory.  Any of these calls may fail, the removal of the         *)
(* temporary file after a failure too.  The process may be killed between  *)
(* two calls, and the machine may lose power, which leaves each directory  *)
(* in some state it had since it was last synced and unflushed files cut   *)
(* short.                                                                  *)
(*                                                                         *)
(* Every object has size 1.  The process is not root: it cannot open an    *)
(* existing file of mode 0444 for writing.  A new subdirectory is durable  *)
(* with its contents, as journalling file systems have it.                 *)
(***************************************************************************)
EXTENDS Integers, FiniteSets

CONSTANTS
  Writer,     \* uploads that may be in progress at once
  Hash,       \* the objects, by their hash
  File,       \* numbers of files
  Limit,      \* MaxRepoSizeBytes in objects, 0 for no limit
  MaxFaults   \* bound: failed calls and deaths of the process

None == 0

ASSUME ObjectConstants ==
  /\ IsFiniteSet(Writer) /\ IsFiniteSet(Hash) /\ None \notin Hash /\ File \subseteq Nat \ {0}
  /\ Limit \in Nat /\ MaxFaults \in Nat

\* What the two names of an object stand for.
Names == [tmp : File \cup {None}, final : File \cup {None}]

Absent == [tmp |-> None, final |-> None]

Steps == {"idle", "measure", "stat", "open", "write", "sync", "rename", "remove", "syncdir"}

VARIABLES
  job,       \* job[w]: the next call of upload w, and the object it uploads
  names,     \* names[h]: the directory entries of h
  past,      \* past[h]: the entries of h since its directory was synced, the
             \* present ones among them: what a loss of power may leave
  whole,     \* files that hold all of their object
  flushed,   \* files whose contents have reached the disk
  refs,      \* hashes that rows of commit_files refer to
  kept,      \* hashes that WriteObject has stored and whose directory it synced
  faults,    \* how many calls have failed, and how often the process has died
  death,     \* the worst death so far: "none", "killed" or "power"
  left       \* history: hashes whose temporary file was left to nobody

objectVars == <<job, names, past, whole, flushed, refs, kept, faults, death, left>>

Idle == [step |-> "idle", object |-> None]

ObjectInit ==
  /\ job = [w \in Writer |-> Idle]
  /\ names = [h \in Hash |-> Absent] /\ past = [h \in Hash |-> {Absent}]
  /\ whole = {} /\ flushed = {} /\ refs = {} /\ kept = {}
  /\ faults = 0 /\ death = "none" /\ left = {}

-----------------------------------------------------------------------------
\* Mistake: a temporary file counts as the object.
HasAnyFile(h) == names[h] # Absent

HasObject(h) == names[h].final # None

\* TotalSize walks over all files, the temporary ones too.  One cut short by a
\* failed write counts for nothing here.
TotalSize ==
  Cardinality({h \in Hash : names[h].final \in whole})
    + Cardinality({h \in Hash : names[h].tmp \in whole})

\* The files that directories in the states p may name.
FilesIn(p) == UNION {{e.tmp, e.final} : e \in UNION {p[h] : h \in Hash}}

Goto(w, s) == job' = [job EXCEPT ![w].step = s]

Return(w) == job' = [job EXCEPT ![w] = Idle]

\* One more of the faults that may happen.
Fault == faults < MaxFaults /\ faults' = faults + 1

\* The entries of h change; the change is durable only once it is synced.
SetNames(h, e) ==
  /\ names' = [names EXCEPT ![h] = e]
  /\ past' = [past EXCEPT ![h] = @ \cup {e}]

-----------------------------------------------------------------------------
(* One upload: handleUploadObject, and WriteObject from its Stat on.       *)

\* A caller who may write somewhere sends an acceptable object: what is there
\* already is answered at once.
Upload(w, h) ==
  /\ job[w].step = "idle" /\ ~ HasObject(h)
  /\ job' = [job EXCEPT ![w] = [step |-> IF Limit = 0 THEN "stat" ELSE "measure", object |-> h]]
  /\ UNCHANGED <<names, past, whole, flushed, refs, kept, faults, death, left>>

\* Mistake: the size of the new object is left out.
MeasureOld(w) ==
  /\ job[w].step = "measure"
  /\ IF TotalSize > Limit THEN Return(w) ELSE Goto(w, "stat")
  /\ UNCHANGED <<names, past, whole, flushed, refs, kept, faults, death, left>>

Measure(w) ==
  /\ job[w].step = "measure"
  /\ IF TotalSize + 1 > Limit THEN Return(w) ELSE Goto(w, "stat")
  /\ UNCHANGED <<names, past, whole, flushed, refs, kept, faults, death, left>>

\* Somebody else may have stored it meanwhile.
Stat(w) ==
  /\ job[w].step = "stat"
  /\ IF HasObject(job[w].object) THEN Return(w) ELSE Goto(w, "open")
  /\ UNCHANGED <<names, past, whole, flushed, refs, kept, faults, death, left>>

\* A new temporary file.  One that is there already is read-only: the upload
\* fails and leaves it.
OpenTmp(w) ==
  LET h == job[w].object
  IN  /\ job[w].step = "open"
      /\ IF names[h].tmp # None
           THEN Return(w) /\ UNCHANGED <<names, past>>
           ELSE /\ ~ File \subseteq FilesIn(past)
                /\ SetNames(h, [names[h] EXCEPT !.tmp = CHOOSE f \in File : f \notin FilesIn(past)])
                /\ Goto(w, "write")
      /\ UNCHANGED <<whole, flushed, refs, kept, faults, death, left>>

\* Mistake: the contents are not flushed before the rename.
WriteOnly(w) ==
  /\ job[w].step = "write"
  /\ whole' = whole \cup {names[job[w].object].tmp}
  /\ Goto(w, "rename")
  /\ UNCHANGED <<names, past, flushed, refs, kept, faults, death, left>>

WriteTmp(w) ==
  /\ job[w].step = "write"
  /\ whole' = whole \cup {names[job[w].object].tmp}
  /\ Goto(w, "sync")
  /\ UNCHANGED <<names, past, flushed, refs, kept, faults, death, left>>

SyncTmp(w) ==
  /\ job[w].step = "sync"
  /\ flushed' = flushed \cup {names[job[w].object].tmp}
  /\ Goto(w, "rename")
  /\ UNCHANGED <<names, past, whole, refs, kept, faults, death, left>>

Rename(w) ==
  /\ job[w].step = "rename"
  /\ SetNames(job[w].object, [tmp |-> None, final |-> names[job[w].object].tmp])
  /\ Goto(w, "syncdir")
  /\ UNCHANGED <<whole, flushed, refs, kept, faults, death, left>>

\* Mistake: the temporary file is not removed.
LeaveTmp(w) ==
  /\ job[w].step \in {"write", "sync", "rename"}
  /\ Fault
  /\ Return(w)
  /\ UNCHANGED <<names, past, whole, flushed, refs, kept, death, left>>

\* A write, a flush, the close or the rename fails.
WriteFails(w) ==
  /\ job[w].step \in {"write", "sync", "rename"}
  /\ Fault
  /\ Goto(w, "remove")
  /\ UNCHANGED <<names, past, whole, flushed, refs, kept, death, left>>

\* Mistake: the object is removed with the temporary file.
RemoveBoth(w) ==
  /\ job[w].step = "remove"
  /\ SetNames(job[w].object, Absent)
  /\ Return(w)
  /\ UNCHANGED <<whole, flushed, refs, kept, faults, death, left>>

\* The temporary file is removed, and the upload answered with an error.
RemoveTmp(w) ==
  /\ job[w].step = "remove"
  /\ SetNames(job[w].object, [names[job[w].object] EXCEPT !.tmp = None])
  /\ Return(w)
  /\ UNCHANGED <<whole, flushed, refs, kept, faults, death, left>>

\* An error of the removal is not looked at: the file stays, and being
\* read-only it stands in the way of every later upload of the object.
RemoveFails(w) ==
  /\ job[w].step = "remove"
  /\ Fault
  /\ left' = left \cup {job[w].object}
  /\ Return(w)
  /\ UNCHANGED <<names, past, whole, flushed, refs, kept, death>>

\* Mistake: the directory is not synced.
SyncNothing(w) ==
  /\ job[w].step = "syncdir"
  /\ kept' = kept \cup {job[w].object}
  /\ Return(w)
  /\ UNCHANGED <<names, past, whole, flushed, refs, faults, death, left>>

SyncDir(w) ==
  LET h == job[w].object
  IN  /\ job[w].step = "syncdir"
      /\ past' = [past EXCEPT ![h] = {names[h]}]
      /\ kept' = kept \cup {h}
      /\ whole' = whole \cap FilesIn(past') /\ flushed' = flushed \cap FilesIn(past')
      /\ Return(w)
      /\ UNCHANGED <<names, refs, faults, death, left>>

\* An error of the last sync is not looked at: the upload succeeds all the same.
SyncDirFails(w) ==
  /\ job[w].step = "syncdir"
  /\ Fault
  /\ Return(w)
  /\ UNCHANGED <<names, past, whole, flushed, refs, kept, death, left>>

-----------------------------------------------------------------------------
\* A push is accepted only if the objects it names are there (handlePush); its
\* rows are durable when it is answered.
Refer(h) ==
  /\ HasObject(h) /\ h \notin refs
  /\ refs' = refs \cup {h}
  /\ UNCHANGED <<job, names, past, whole, flushed, kept, faults, death, left>>

\* The process is killed; files and directories stay as they are.
Die ==
  /\ Fault
  /\ death' = IF death = "none" THEN "killed" ELSE death
  /\ job' = [w \in Writer |-> Idle]
  /\ left' = {h \in Hash : names[h].tmp # None}
  /\ UNCHANGED <<names, past, whole, flushed, refs, kept>>

\* The machine stops: every directory falls back to some state since its last
\* sync, and files that were not flushed may be cut short.
PowerLoss ==
  /\ Fault
  /\ death' = "power"
  /\ job' = [w \in Writer |-> Idle]
  /\ \E e \in [Hash -> UNION {past[h] : h \in Hash}] :
       /\ \A h \in Hash : e[h] \in past[h]
       /\ names' = e
       /\ past' = [h \in Hash |-> {e[h]}]
       /\ left' = {h \in Hash : e[h].tmp # None}
  /\ \E cut \in SUBSET (whole \ flushed) : whole' = (whole \ cut) \cap FilesIn(past')
  /\ flushed' = whole'
  /\ UNCHANGED <<refs, kept>>

UploadStep(w) ==
  \/ Measure(w) \/ Stat(w) \/ OpenTmp(w) \/ WriteTmp(w) \/ SyncTmp(w)
  \/ Rename(w) \/ WriteFails(w) \/ RemoveTmp(w) \/ RemoveFails(w) \/ SyncDir(w) \/ SyncDirFails(w)

ObjectNext ==
  \/ \E w \in Writer : UploadStep(w)
  \/ \E w \in Writer, h \in Hash : Upload(w, h)
  \/ \E h \in Hash : Refer(h)
  \/ Die
  \/ PowerLoss

ObjectSpec == ObjectInit /\ [][ObjectNext]_objectVars

-----------------------------------------------------------------------------
(* Properties.                                                             *)

ObjectTypeOK ==
  /\ job \in [Writer -> [step : Steps, object : Hash \cup {None}]]
  /\ \A w \in Writer : job[w].object = None <=> job[w].step = "idle"
  /\ names \in [Hash -> Names]
  /\ past \in [Hash -> SUBSET Names] /\ \A h \in Hash : names[h] \in past[h]
  /\ whole \subseteq File /\ flushed \subseteq File
  /\ refs \subseteq Hash /\ kept \subseteq Hash
  /\ faults \in 0 .. MaxFaults /\ death \in {"none", "killed", "power"}
  /\ left \subseteq Hash

\* What carries the name of an object is complete and on the disk: now, and in
\* every state that a loss of power could leave (WriteObject, "fsync'd to disk
\* before the rename that makes it visible").
WholeUnderName ==
  \A h \in Hash : \A e \in past[h] : e.final # None => e.final \in whole \cap flushed

\* A stored object whose directory was synced is never lost again, whatever
\* dies after that and whoever writes the same object once more (WriteObject,
\* "Sync the containing directory so the rename is durable").
KeptSurvives == \A h \in kept : \A e \in past[h] : e.final # None

\* As long as the power stays on, no accepted commit refers to an object that
\* is missing, whatever uploads fail and however often the server is killed
\* (handlePush, HasObject).
RefsResolve == death # "power" => \A h \in refs : HasObject(h)

\* Uploads that have passed the size check and not yet added their object.
Admitted == {w \in Writer : job[w].step \in {"stat", "open", "write"}}

\* The size check is made before the write and without a lock: uploads side by
\* side pass the limit, by less than one object each (handleUploadObject).  A
\* loss of power may bring back temporary files that were removed.
QuotaOvershoot ==
  Limit > 0 /\ death # "power" =>
    TotalSize + Cardinality(Admitted) <= Limit + Cardinality(Writer) - 1

\* Every temporary file belongs to one upload at work, or was left to nobody by
\* a removal that failed or by the death of the process; no two uploads share
\* one, and none works on one that was left (WriteObject).
TmpHasOwner ==
  \A h \in Hash :
    LET owners == {w \in Writer : /\ job[w].object = h
                                  /\ job[w].step \in {"write", "sync", "rename", "remove"}}
    IN  Cardinality(owners) = (IF names[h].tmp = None \/ h \in left THEN 0 ELSE 1)

\* Files, names and calls together behave as the set of whole objects of
\* ObjectSet, which PushServer takes the store for: an object appears at once
\* and complete, whatever happens to the upload, and none disappears while the
\* power stays on, whichever upload fails in its clean-up (WriteObject).
Intact == {h \in Hash : names[h].final \in whole}
Objects == INSTANCE ObjectSet WITH present <- Intact, lasting <- kept, dark <- (death = "power")
ImplementsSet == Objects!SetSpec
=============================================================================
