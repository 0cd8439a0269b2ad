---------------------------- MODULE ObjectProofs ----------------------------
(***************************************************************************)
(* Proofs about ObjectStore, for any number of uploads, objects and        *)
(* faults, and any limit.                                                  *)
(*                                                                         *)
(* ObjectInv adds to the properties what an upload has done to its file at *)
(* each of its calls, and that it has the temporary name to itself.        *)
(***************************************************************************)
EXTENDS ObjectStore, FiniteSetTheorems, TLAPS

Holding(w) == job[w].step \in {"write", "sync", "rename", "remove"}

\* The contents that have been written and flushed so far are there.
UploadOK(w) ==
  LET e == names[job[w].object]
  IN  /\ Holding(w) => e.tmp # None
      /\ job[w].step \in {"sync", "rename"} => e.tmp \in whole
      /\ job[w].step = "rename" => e.tmp \in flushed
      /\ job[w].step = "syncdir" => e.final # None

OneHolder ==
  \A v, w \in Writer : Holding(v) /\ Holding(w) /\ job[v].object = job[w].object => v = w

\* A temporary file is held by an upload at work or was left, and not both.
TmpHeld ==
  /\ \A h \in Hash : names[h].tmp # None =>
       h \in left \/ \E w \in Writer : Holding(w) /\ job[w].object = h
  /\ \A h \in left : names[h].tmp # None /\ \A w \in Writer : Holding(w) => job[w].object # h

ObjectInv ==
  /\ ObjectTypeOK /\ OneHolder /\ TmpHeld /\ \A w \in Writer : UploadOK(w)
  /\ WholeUnderName /\ KeptSurvives /\ RefsResolve

-----------------------------------------------------------------------------

LEMMA InitObjects == ObjectInit => ObjectInv
<1> SUFFICES ASSUME ObjectInit PROVE ObjectInv
  OBVIOUS
<1>1. \A w \in Writer : job[w].step = "idle"
  BY DEF ObjectInit, Idle
<1>2. \A h \in Hash : names[h].tmp = None /\ past[h] = {names[h]} /\ names[h].final = None
  BY DEF ObjectInit, Absent
<1>3. ObjectTypeOK
  <2>1. Absent \in Names /\ Idle \in [step : Steps, object : Hash \cup {None}]
    BY DEF Absent, Names, Idle, Steps
  <2>2. 0 \in 0 .. MaxFaults
    BY ObjectConstants
  <2>3. \A h \in Hash : names[h] \in past[h]
    BY <1>2
  <2>4. \A w \in Writer : job[w].object = None
    BY DEF ObjectInit, Idle
  <2> QED
    BY <1>1, <2>1, <2>2, <2>3, <2>4 DEF ObjectInit, ObjectTypeOK
<1>4. OneHolder /\ TmpHeld /\ \A w \in Writer : UploadOK(w)
  <2>1. left = {}
    BY DEF ObjectInit
  <2>2. \A w \in Writer : ~ Holding(w)
    BY <1>1 DEF Holding
  <2>3. \A w \in Writer : UploadOK(w)
    BY <1>1, <2>2 DEF UploadOK
  <2> QED
    BY <1>2, <2>1, <2>2, <2>3 DEF OneHolder, TmpHeld
<1>5. WholeUnderName /\ KeptSurvives /\ RefsResolve
  BY <1>2 DEF ObjectInit, WholeUnderName, KeptSurvives, RefsResolve
<1> QED
  BY <1>3, <1>4, <1>5 DEF ObjectInv

\* An upload goes on to another call: the others stay where they are.
LEMMA JobGoes ==
  ASSUME ObjectTypeOK, NEW w \in Writer, job[w].step # "idle", NEW s \in Steps \ {"idle"}
  PROVE  /\ Goto(w, s) =>
              /\ job' \in [Writer -> [step : Steps, object : Hash \cup {None}]]
              /\ job'[w].step = s /\ job'[w].object = job[w].object
         /\ Return(w) =>
              /\ job' \in [Writer -> [step : Steps, object : Hash \cup {None}]]
              /\ job'[w].step = "idle" /\ job'[w].object = None
         /\ Goto(w, s) \/ Return(w) => \A v \in Writer : v # w => job'[v] = job[v]
         /\ job[w].object \in Hash
<1>1. job \in [Writer -> [step : Steps, object : Hash \cup {None}]] /\ job[w].object # None
  BY DEF ObjectTypeOK
<1>2. Idle \in [step : Steps, object : Hash \cup {None}] /\ Idle.step = "idle" /\ Idle.object = None
  BY DEF Idle, Steps
<1>3. Goto(w, s) => /\ job' \in [Writer -> [step : Steps, object : Hash \cup {None}]]
                    /\ job'[w].step = s /\ job'[w].object = job[w].object
                    /\ \A v \in Writer : v # w => job'[v] = job[v]
  BY <1>1 DEF Goto
<1>4. Return(w) => /\ job' \in [Writer -> [step : Steps, object : Hash \cup {None}]]
                   /\ job'[w].step = "idle" /\ job'[w].object = None
                   /\ \A v \in Writer : v # w => job'[v] = job[v]
  BY <1>1, <1>2 DEF Return
<1> QED
  BY <1>1, <1>3, <1>4

\* The faults so far stay within their bound.
LEMMA FaultCounts ==
  ASSUME ObjectTypeOK
  PROVE  Fault => faults' \in 0 .. MaxFaults
BY ObjectConstants DEF Fault, ObjectTypeOK

\* New entries for h, which the disk may or may not have after a loss of power.
LEMMA SetNamesTyped ==
  ASSUME ObjectTypeOK, NEW h \in Hash, NEW e \in Names, SetNames(h, e)
  PROVE  /\ names' \in [Hash -> Names] /\ names'[h] = e /\ past' \in [Hash -> SUBSET Names]
         /\ past'[h] = past[h] \cup {e}
         /\ \A g \in Hash : g # h => names'[g] = names[g] /\ past'[g] = past[g]
         /\ \A g \in Hash : names'[g] \in past'[g]
BY DEF SetNames, ObjectTypeOK

-----------------------------------------------------------------------------
(* Types.                                                                  *)

LEMMA TypeStep ==
  ASSUME ObjectInv, [ObjectNext]_objectVars
  PROVE  ObjectTypeOK'
<1>1. /\ ObjectTypeOK
      /\ job \in [Writer -> [step : Steps, object : Hash \cup {None}]]
      /\ \A w \in Writer : job[w].object = None <=> job[w].step = "idle"
      /\ names \in [Hash -> Names]
      /\ past \in [Hash -> SUBSET Names] /\ \A h \in Hash : names[h] \in past[h]
      /\ whole \subseteq File /\ flushed \subseteq File
      /\ refs \subseteq Hash /\ kept \subseteq Hash
      /\ faults \in 0 .. MaxFaults /\ death \in {"none", "killed", "power"} /\ left \subseteq Hash
  BY DEF ObjectInv, ObjectTypeOK
<1>2. ASSUME NEW w \in Writer, job[w].step # "idle", NEW s \in Steps \ {"idle"}, Goto(w, s) \/ Return(w)
      PROVE  /\ job' \in [Writer -> [step : Steps, object : Hash \cup {None}]]
             /\ \A v \in Writer : job'[v].object = None <=> job'[v].step = "idle"
  BY <1>1, <1>2, JobGoes
<1>3. ASSUME NEW w \in Writer, NEW h \in Hash, Upload(w, h)
      PROVE  ObjectTypeOK'
  <2> DEFINE j == [step |-> IF Limit = 0 THEN "stat" ELSE "measure", object |-> h]
  <2>1. j \in [step : Steps, object : Hash \cup {None}] /\ j.step # "idle" /\ j.object # None
    BY ObjectConstants DEF Steps, None
  <2>2. job' = [job EXCEPT ![w] = j]
    BY <1>3 DEF Upload
  <2> HIDE DEF j
  <2>3. job' \in [Writer -> [step : Steps, object : Hash \cup {None}]]
        /\ \A v \in Writer : job'[v].object = None <=> job'[v].step = "idle"
    BY <1>1, <2>1, <2>2
  <2> QED
    BY <1>1, <1>3, <2>3 DEF Upload, ObjectTypeOK
<1>4. ASSUME NEW w \in Writer, \/ Measure(w) \/ Stat(w) \/ WriteTmp(w) \/ SyncTmp(w)
                               \/ WriteFails(w) \/ RemoveFails(w) \/ SyncDirFails(w)
      PROVE  ObjectTypeOK'
  <2>1. /\ job' \in [Writer -> [step : Steps, object : Hash \cup {None}]]
        /\ \A v \in Writer : job'[v].object = None <=> job'[v].step = "idle"
    BY <1>2, <1>4 DEF Measure, Stat, WriteTmp, SyncTmp, WriteFails, RemoveFails, SyncDirFails, Steps
  <2>2. Holding(w) /\ (WriteTmp(w) \/ SyncTmp(w)) => names[job[w].object].tmp \in File
    <3>1. ASSUME Holding(w) PROVE names[job[w].object].tmp \in File
      <4>1. job[w].object \in Hash /\ names[job[w].object].tmp # None
        BY <1>1, <3>1 DEF Holding, ObjectInv, UploadOK
      <4> QED
        BY <1>1, <4>1 DEF Names
    <3> QED
      BY <3>1
  <2>3. whole' \subseteq File /\ flushed' \subseteq File
    BY <1>1, <1>4, <2>2 DEF Measure, Stat, WriteTmp, SyncTmp, WriteFails, RemoveFails, SyncDirFails, Holding
  <2>4. faults' \in 0 .. MaxFaults /\ UNCHANGED <<names, past, refs, kept, death>>
    BY <1>1, <1>4, FaultCounts DEF Measure, Stat, WriteTmp, SyncTmp, WriteFails, RemoveFails, SyncDirFails
  <2>5. left' \subseteq Hash
    <3>1. CASE RemoveFails(w)
      <4>1. job[w].object \in Hash
        BY <1>1, <3>1 DEF RemoveFails
      <4> QED
        BY <1>1, <3>1, <4>1 DEF RemoveFails
    <3>2. CASE ~ RemoveFails(w)
      BY <1>1, <1>4, <3>2 DEF Measure, Stat, WriteTmp, SyncTmp, WriteFails, SyncDirFails
    <3> QED
      BY <3>1, <3>2
  <2> QED
    BY <1>1, <2>1, <2>3, <2>4, <2>5 DEF ObjectTypeOK
<1>5. ASSUME NEW w \in Writer, OpenTmp(w) \/ Rename(w) \/ RemoveTmp(w)
      PROVE  ObjectTypeOK'
  <2> DEFINE h == job[w].object
  <2>1. job[w].step # "idle" /\ h \in Hash /\ names[h] \in Names
    BY <1>1, <1>5 DEF OpenTmp, Rename, RemoveTmp
  <2>2. /\ job' \in [Writer -> [step : Steps, object : Hash \cup {None}]]
        /\ \A v \in Writer : job'[v].object = None <=> job'[v].step = "idle"
    BY <1>2, <1>5, <2>1 DEF OpenTmp, Rename, RemoveTmp, Steps
  <2>3. UNCHANGED <<names, past>> \/ \E e \in Names : SetNames(h, e)
    <3>1. CASE OpenTmp(w)
      <4> DEFINE f == CHOOSE g \in File : g \notin FilesIn(past)
      <4>1. ASSUME ~ File \subseteq FilesIn(past) PROVE f \in File
        BY <4>1
      <4>2. ASSUME f \in File PROVE [names[h] EXCEPT !.tmp = f] \in Names
        BY <2>1, <4>2 DEF Names
      <4> QED
        BY <3>1, <4>1, <4>2 DEF OpenTmp
    <3>2. CASE Rename(w)
      <4>1. [tmp |-> None, final |-> names[h].tmp] \in Names
        BY <2>1 DEF Names
      <4> QED
        BY <3>2, <4>1 DEF Rename
    <3>3. CASE RemoveTmp(w)
      <4>1. [names[h] EXCEPT !.tmp = None] \in Names
        BY <2>1 DEF Names
      <4> QED
        BY <3>3, <4>1 DEF RemoveTmp
    <3> QED
      BY <1>5, <3>1, <3>2, <3>3
  <2>4. /\ names' \in [Hash -> Names]
        /\ past' \in [Hash -> SUBSET Names] /\ \A g \in Hash : names'[g] \in past'[g]
    BY <1>1, <2>1, <2>3, SetNamesTyped
  <2>5. faults' \in 0 .. MaxFaults /\ UNCHANGED <<whole, flushed, refs, kept, death, left>>
    BY <1>1, <1>5, FaultCounts DEF OpenTmp, Rename, RemoveTmp
  <2> QED
    BY <1>1, <2>2, <2>4, <2>5 DEF ObjectTypeOK
<1>6. ASSUME NEW w \in Writer, SyncDir(w)
      PROVE  ObjectTypeOK'
  <2>1. job[w].step # "idle" /\ job[w].object \in Hash
    BY <1>1, <1>6 DEF SyncDir
  <2>2. /\ job' \in [Writer -> [step : Steps, object : Hash \cup {None}]]
        /\ \A v \in Writer : job'[v].object = None <=> job'[v].step = "idle"
    BY <1>2, <1>6, <2>1 DEF SyncDir, Steps
  <2>3. past' \in [Hash -> SUBSET Names] /\ \A g \in Hash : names'[g] \in past'[g]
    BY <1>1, <1>6, <2>1 DEF SyncDir
  <2> QED
    BY <1>1, <1>6, <2>1, <2>2, <2>3 DEF SyncDir, ObjectTypeOK
<1>7. ASSUME NEW h \in Hash, Refer(h)
      PROVE  ObjectTypeOK'
  BY <1>1, <1>7 DEF Refer, ObjectTypeOK
<1>8. Idle \in [step : Steps, object : Hash \cup {None}] /\ Idle.step = "idle" /\ Idle.object = None
  BY DEF Idle, Steps
<1>9. CASE Die
  BY <1>1, <1>8, <1>9, FaultCounts DEF Die, ObjectTypeOK
<1>10. CASE PowerLoss
  <2>1. PICK e \in [Hash -> UNION {past[h] : h \in Hash}] :
          /\ \A h \in Hash : e[h] \in past[h]
          /\ names' = e /\ past' = [h \in Hash |-> {e[h]}]
    BY <1>10 DEF PowerLoss
  <2>2. e \in [Hash -> Names]
    BY <1>1, <2>1
  <2>3. names' \in [Hash -> Names] /\ past' \in [Hash -> SUBSET Names]
        /\ \A g \in Hash : names'[g] \in past'[g]
    BY <2>1, <2>2
  <2>4. whole' \subseteq File /\ flushed' \subseteq File
    BY <1>1, <1>10 DEF PowerLoss
  <2> QED
    BY <1>1, <1>8, <1>10, <2>3, <2>4, FaultCounts DEF PowerLoss, ObjectTypeOK
<1>11. CASE UNCHANGED objectVars
  BY <1>1, <1>11 DEF objectVars, ObjectTypeOK
<1> QED
  BY <1>3, <1>4, <1>5, <1>6, <1>7, <1>9, <1>10, <1>11 DEF ObjectNext, UploadStep

-----------------------------------------------------------------------------
(* The temporary name has one holder, and what it names is what it wrote.  *)

\* What an upload does to the jobs: it moves its own, and takes the temporary
\* name only when nothing has it.
LEMMA UploadMoves ==
  ASSUME ObjectInv, NEW w \in Writer, UploadStep(w)
  PROVE  /\ job[w].object \in Hash /\ job \in [Writer -> [step : Steps, object : Hash \cup {None}]]
         /\ \A v \in Writer : v # w => job'[v] = job[v]
         /\ Holding(w)' => job'[w].object = job[w].object
         /\ Holding(w)' /\ ~ Holding(w) => OpenTmp(w) /\ names[job[w].object].tmp = None
<1>1. ObjectTypeOK
  BY DEF ObjectInv
<1>2. CASE Measure(w) \/ Stat(w)
  BY <1>1, <1>2, JobGoes DEF Measure, Stat, Steps, Holding, ObjectTypeOK
<1>3. CASE OpenTmp(w)
  BY <1>1, <1>3, JobGoes DEF OpenTmp, Steps, Holding, ObjectTypeOK
<1>4. CASE WriteTmp(w) \/ SyncTmp(w) \/ WriteFails(w) \/ RemoveFails(w)
  BY <1>1, <1>4, JobGoes DEF WriteTmp, SyncTmp, WriteFails, RemoveFails, Steps, Holding, ObjectTypeOK
<1>5. CASE Rename(w) \/ RemoveTmp(w)
  BY <1>1, <1>5, JobGoes DEF Rename, RemoveTmp, Steps, Holding, ObjectTypeOK
<1>6. CASE SyncDir(w) \/ SyncDirFails(w)
  BY <1>1, <1>6, JobGoes DEF SyncDir, SyncDirFails, Steps, Holding, ObjectTypeOK
<1> QED
  BY <1>2, <1>3, <1>4, <1>5, <1>6 DEF UploadStep

\* What an upload does to the names: only those of its object change, a final
\* name stays, and every state that a loss of power may leave is an old one or
\* the new one.
LEMMA UploadNames ==
  ASSUME ObjectInv, NEW w \in Writer, UploadStep(w)
  PROVE  /\ \A g \in Hash : g # job[w].object => names'[g] = names[g]
         /\ \A g \in Hash : HasObject(g) => HasObject(g)'
         /\ \A g \in Hash : past'[g] \subseteq past[g] \cup {names'[g]}
         /\ \A g \in Hash : names'[g].final = names[g].final \/ (names'[g].final = names[g].tmp /\ Rename(w) /\ g = job[w].object)
         /\ ~ (OpenTmp(w) \/ Rename(w) \/ RemoveTmp(w)) => names' = names
<1> DEFINE h == job[w].object
<1>1. /\ ObjectTypeOK /\ h \in Hash /\ names \in [Hash -> Names] /\ names[h] \in Names
      /\ names[h].tmp # None \/ ~ Holding(w)
  BY UploadMoves DEF ObjectInv, ObjectTypeOK, UploadOK
<1>2. ASSUME NEW e \in Names, SetNames(h, e), e.final = names[h].final \/ (Rename(w) /\ e.final = names[h].tmp)
      PROVE  /\ \A g \in Hash : g # h => names'[g] = names[g]
             /\ \A g \in Hash : past'[g] \subseteq past[g] \cup {names'[g]}
             /\ \A g \in Hash : names'[g].final = names[g].final \/ (names'[g].final = names[g].tmp /\ Rename(w) /\ g = h)
  BY <1>1, <1>2, SetNamesTyped
<1>3. CASE OpenTmp(w)
  <2>1. CASE names' = names /\ past' = past
    BY <1>3, <2>1 DEF HasObject
  <2>2. CASE ~ UNCHANGED <<names, past>>
    <3> DEFINE f == CHOOSE g \in File : g \notin FilesIn(past)
    <3>1. ~ File \subseteq FilesIn(past) /\ SetNames(h, [names[h] EXCEPT !.tmp = f])
      BY <1>3, <2>2 DEF OpenTmp
    <3>2. f \in File
      BY <3>1
    <3>3. [names[h] EXCEPT !.tmp = f] \in Names /\ [names[h] EXCEPT !.tmp = f].final = names[h].final
      BY <1>1, <3>2 DEF Names
    <3>4. /\ \A g \in Hash : g # h => names'[g] = names[g]
          /\ \A g \in Hash : past'[g] \subseteq past[g] \cup {names'[g]}
          /\ \A g \in Hash : names'[g].final = names[g].final \/ (names'[g].final = names[g].tmp /\ Rename(w) /\ g = h)
      BY <1>2, <3>1, <3>3
    <3>5. ~ Rename(w)
      BY <1>3 DEF OpenTmp, Rename
    <3> QED
      BY <1>3, <3>4, <3>5 DEF HasObject
  <2> QED
    BY <2>1, <2>2
<1>4. CASE Rename(w)
  <2> DEFINE e == [tmp |-> None, final |-> names[h].tmp]
  <2>1. e \in Names /\ SetNames(h, e) /\ e.final = names[h].tmp
    BY <1>1, <1>4 DEF Rename, Names
  <2>2. names[h].tmp # None
    BY <1>1, <1>4 DEF Rename, Holding
  <2> HIDE DEF e
  <2>3. /\ \A g \in Hash : g # h => names'[g] = names[g]
        /\ \A g \in Hash : past'[g] \subseteq past[g] \cup {names'[g]}
        /\ \A g \in Hash : names'[g].final = names[g].final \/ (names'[g].final = names[g].tmp /\ Rename(w) /\ g = h)
    BY <1>2, <1>4, <2>1
  <2> QED
    BY <1>4, <2>2, <2>3 DEF HasObject
<1>5. CASE RemoveTmp(w)
  <2> DEFINE e == [names[h] EXCEPT !.tmp = None]
  <2>1. e \in Names /\ SetNames(h, e) /\ e.final = names[h].final
    BY <1>1, <1>5 DEF RemoveTmp, Names
  <2> HIDE DEF e
  <2>2. /\ \A g \in Hash : g # h => names'[g] = names[g]
        /\ \A g \in Hash : past'[g] \subseteq past[g] \cup {names'[g]}
        /\ names'[h] = e
    BY <1>1, <1>2, <2>1, SetNamesTyped
  <2>3. \A g \in Hash : names'[g].final = names[g].final
    BY <2>1, <2>2
  <2> QED
    BY <1>5, <2>2, <2>3 DEF HasObject
<1>6. CASE SyncDir(w)
  <2>1. names' = names /\ \A g \in Hash : past'[g] \subseteq past[g]
    BY <1>1, <1>6 DEF SyncDir, ObjectTypeOK
  <2> QED
    BY <1>6, <2>1 DEF HasObject, SyncDir, OpenTmp, Rename, RemoveTmp
<1>7. CASE \/ Measure(w) \/ Stat(w) \/ WriteTmp(w) \/ SyncTmp(w)
           \/ WriteFails(w) \/ RemoveFails(w) \/ SyncDirFails(w)
  <2>1. names' = names /\ past' = past
    BY <1>7 DEF Measure, Stat, WriteTmp, SyncTmp, WriteFails, RemoveFails, SyncDirFails
  <2> QED
    BY <2>1 DEF HasObject
<1> QED
  BY <1>3, <1>4, <1>5, <1>6, <1>7 DEF UploadStep


\* What an upload does to the files: it adds to those that are complete or
\* flushed, and a sync of a directory forgets only files that nothing names.
LEMMA UploadFiles ==
  ASSUME ObjectInv, NEW w \in Writer, UploadStep(w)
  PROVE  /\ SyncDir(w) \/ (whole \subseteq whole' /\ flushed \subseteq flushed')
         /\ \A g \in Hash : \A e \in past'[g] : {e.tmp, e.final} \cap whole \subseteq whole'
         /\ \A g \in Hash : \A e \in past'[g] : {e.tmp, e.final} \cap flushed \subseteq flushed'
<1>1. CASE SyncDir(w)
  <2>1. \A g \in Hash : \A e \in past'[g] : {e.tmp, e.final} \subseteq FilesIn(past')
    BY DEF FilesIn
  <2>2. whole' = whole \cap FilesIn(past') /\ flushed' = flushed \cap FilesIn(past')
    BY <1>1 DEF SyncDir
  <2> QED
    BY <1>1, <2>1, <2>2
<1>2. CASE ~ SyncDir(w)
  <2>1. whole \subseteq whole' /\ flushed \subseteq flushed'
    BY <1>2 DEF UploadStep, Measure, Stat, OpenTmp, WriteTmp, SyncTmp, Rename, WriteFails, RemoveTmp,
     RemoveFails, SyncDirFails
  <2> QED
    BY <2>1
<1> QED
  BY <1>1, <1>2

LEMMA UploadKeeps ==
  ASSUME ObjectInv, NEW w \in Writer, UploadStep(w)
  PROVE  OneHolder' /\ TmpHeld' /\ (\A v \in Writer : UploadOK(v))'
<1> DEFINE h == job[w].object
<1>1. /\ ObjectTypeOK /\ OneHolder /\ TmpHeld /\ h \in Hash
      /\ job \in [Writer -> [step : Steps, object : Hash \cup {None}]]
      /\ names \in [Hash -> Names]
  BY UploadMoves DEF ObjectInv, ObjectTypeOK
<1>2. \A v \in Writer : v # w => job'[v] = job[v]
  BY UploadMoves
<1>3. \A v \in Writer : v # w /\ Holding(v) /\ (Holding(w) \/ Holding(w)') => job[v].object # h
  <2>1. CASE Holding(w)
    BY <1>1, <2>1 DEF OneHolder
  <2>2. CASE ~ Holding(w)
    BY <2>2, UploadMoves DEF ObjectInv, UploadOK
  <2> QED
    BY <2>1, <2>2
<1>4. OneHolder'
  <2>1. Holding(w)' => job'[w].object = h
    BY UploadMoves
  <2>2. \A v \in Writer : v # w => (Holding(v)' <=> Holding(v))
    BY <1>2 DEF Holding
  <2> QED
    BY <1>1, <1>2, <1>3, <2>1, <2>2 DEF OneHolder
<1>5. \A v \in Writer : v # w => UploadOK(v)'
  <2> SUFFICES ASSUME NEW v \in Writer, v # w PROVE UploadOK(v)'
    OBVIOUS
  <2>1. job'[v] = job[v] /\ UploadOK(v) /\ (Holding(v)' <=> Holding(v))
    BY <1>2 DEF ObjectInv, Holding
  <2>2. CASE Holding(v)
    <3>1. job[v].object \in Hash
      BY <1>1, <2>2 DEF ObjectTypeOK, Holding
    <3>2. names'[job[v].object] = names[job[v].object] /\ names'[job[v].object] \in past'[job[v].object]
      <4>1. ObjectTypeOK'
        BY TypeStep DEF ObjectNext
      <4>2. job[v].object # h \/ names' = names
        <5>1. OpenTmp(w) /\ job[v].object = h => names' = names
          BY <2>1, <2>2 DEF OpenTmp, UploadOK
        <5>2. Rename(w) \/ RemoveTmp(w) => job[v].object # h
          BY <1>3, <2>2 DEF Rename, RemoveTmp, Holding
        <5> QED
          BY <5>1, <5>2, UploadNames
      <4> QED
        BY <3>1, <4>1, <4>2, UploadNames DEF ObjectTypeOK
    <3>3. names[job[v].object].tmp \in whole => names[job[v].object].tmp \in whole'
      BY <3>1, <3>2, UploadFiles
    <3>4. names[job[v].object].tmp \in flushed => names[job[v].object].tmp \in flushed'
      BY <3>1, <3>2, UploadFiles
    <3> QED
      BY <2>1, <2>2, <3>2, <3>3, <3>4 DEF UploadOK, Holding
  <2>3. CASE ~ Holding(v)
    <3>1. job[v].step = "syncdir" => job[v].object \in Hash
      BY <1>1 DEF ObjectTypeOK
    <3>2. job[v].step = "syncdir" => names'[job[v].object].final # None
      BY <2>1, <3>1, UploadNames DEF UploadOK, HasObject
    <3> QED
      BY <2>1, <2>3, <3>2 DEF UploadOK, Holding
  <2> QED
    BY <2>2, <2>3
<1>6. /\ UploadOK(w)'
      /\ names'[h].tmp # None =>
           Holding(w)' \/ h \in left' \/ (names' = names /\ ~ Holding(w) /\ left' = left)
  <2>1. UploadOK(w)
    BY DEF ObjectInv
  <2>2. CASE Measure(w) \/ Stat(w)
    <3>1. job'[w].step \in {"idle", "stat", "open"}
      BY <1>1, <2>2, JobGoes DEF Measure, Stat, Steps
    <3> QED
      BY <2>2, <3>1 DEF Measure, Stat, UploadOK, Holding
  <2>3. CASE OpenTmp(w)
    <3>1. CASE names[h].tmp # None
      <4>1. job'[w].step = "idle" /\ names' = names /\ left' = left /\ ~ Holding(w)
        BY <1>1, <2>3, <3>1, JobGoes DEF OpenTmp, Steps, Holding
      <4> QED
        BY <4>1 DEF UploadOK, Holding
    <3>2. CASE names[h].tmp = None
      <4> DEFINE f == CHOOSE g \in File : g \notin FilesIn(past)
      <4>1. ~ File \subseteq FilesIn(past) /\ SetNames(h, [names[h] EXCEPT !.tmp = f])
            /\ Goto(w, "write")
        BY <2>3, <3>2 DEF OpenTmp
      <4>2. f \in File
        BY <4>1
      <4>3. f # None
        BY <4>2, ObjectConstants DEF None
      <4>4. job'[w].step = "write" /\ job'[w].object = h
        BY <1>1, <2>3, <4>1, JobGoes DEF Steps, OpenTmp
      <4> HIDE DEF f
      <4>5. names'[h].tmp = f
        BY <1>1, <4>1 DEF SetNames, Names
      <4> QED
        BY <4>1, <4>3, <4>4, <4>5 DEF UploadOK, Holding
    <3> QED
      BY <3>1, <3>2
  <2>4. CASE WriteTmp(w)
    <3>1. job'[w].step = "sync" /\ job'[w].object = h
      BY <1>1, <2>4, JobGoes DEF WriteTmp, Steps
    <3> QED
      BY <2>1, <2>4, <3>1 DEF WriteTmp, UploadOK, Holding
  <2>5. CASE SyncTmp(w)
    <3>1. job'[w].step = "rename" /\ job'[w].object = h
      BY <1>1, <2>5, JobGoes DEF SyncTmp, Steps
    <3> QED
      BY <2>1, <2>5, <3>1 DEF SyncTmp, UploadOK, Holding
  <2>6. CASE Rename(w)
    <3>1. job'[w].step = "syncdir" /\ job'[w].object = h
      BY <1>1, <2>6, JobGoes DEF Rename, Steps
    <3>2. names'[h] = [tmp |-> None, final |-> names[h].tmp]
      BY <1>1, <2>6 DEF Rename, SetNames
    <3> QED
      BY <2>1, <2>6, <3>1, <3>2 DEF Rename, UploadOK, Holding
  <2>7. CASE RemoveTmp(w)
    <3>1. job'[w].step = "idle"
      BY <1>1, <2>7, JobGoes DEF RemoveTmp, Steps
    <3>2. names'[h].tmp = None
      BY <1>1, <2>7 DEF RemoveTmp, SetNames, Names
    <3> QED
      BY <2>7, <3>1, <3>2 DEF RemoveTmp, UploadOK, Holding
  <2>8. CASE SyncDir(w) \/ SyncDirFails(w)
    <3>1. job'[w].step = "idle" /\ ~ Holding(w) /\ names' = names /\ left' = left
      BY <1>1, <2>8, JobGoes DEF SyncDir, SyncDirFails, Steps, Holding
    <3> QED
      BY <3>1 DEF UploadOK, Holding
  <2>9. CASE WriteFails(w)
    <3>1. job'[w].step = "remove" /\ job'[w].object = h
      BY <1>1, <2>9, JobGoes DEF WriteFails, Steps
    <3> QED
      BY <2>1, <2>9, <3>1 DEF WriteFails, UploadOK, Holding
  <2>10. CASE RemoveFails(w)
    <3>1. job'[w].step = "idle" /\ h \in left'
      BY <1>1, <2>10, JobGoes DEF RemoveFails, Steps
    <3> QED
      BY <3>1 DEF UploadOK, Holding
  <2> QED
    BY <2>2, <2>3, <2>4, <2>5, <2>6, <2>7, <2>8, <2>9, <2>10 DEF UploadStep
<1>7. left \subseteq left' /\ \A g \in left' : g \in left \/ (RemoveFails(w) /\ g = h)
  BY DEF UploadStep, Measure, Stat, OpenTmp, WriteTmp, SyncTmp, Rename, WriteFails, RemoveTmp,
     RemoveFails, SyncDir, SyncDirFails
<1>8. ASSUME NEW g \in Hash, names'[g].tmp # None
      PROVE  g \in left' \/ \E v \in Writer : Holding(v)' /\ job'[v].object = g
  <2>1. CASE g = h /\ (Holding(w)' \/ h \in left')
    BY <2>1, UploadMoves
  <2>2. CASE g # h \/ (names' = names /\ ~ Holding(w) /\ left' = left)
    <3>1. names[g].tmp # None
      BY <1>8, <2>2, UploadNames
    <3>2. CASE g \in left
      BY <1>7, <3>2
    <3>3. CASE g \notin left
      <4>1. PICK v \in Writer : Holding(v) /\ job[v].object = g
        BY <1>1, <3>1, <3>3 DEF TmpHeld
      <4>2. v # w
        BY <2>2, <4>1
      <4> QED
        BY <1>2, <4>1, <4>2 DEF Holding
    <3> QED
      BY <3>2, <3>3
  <2> QED
    BY <1>6, <1>8, <2>1, <2>2
<1>9. ASSUME NEW g \in left'
      PROVE  names'[g].tmp # None /\ \A v \in Writer : Holding(v)' => job'[v].object # g
  <2>1. CASE g \in left
    <3>1. /\ g \in Hash /\ names[g].tmp # None
          /\ \A v \in Writer : Holding(v) => job[v].object # g
      BY <1>1, <2>1 DEF TmpHeld, ObjectTypeOK
    <3>2. Holding(w)' => job'[w].object # g
      BY <3>1, UploadMoves
    <3>3. names'[g] = names[g]
      <4>1. CASE g # h
        BY <3>1, <4>1, UploadNames
      <4>2. CASE g = h
        <5>1. ~ Rename(w) /\ ~ RemoveTmp(w)
          BY <3>1, <4>2 DEF Rename, RemoveTmp, Holding
        <5>2. OpenTmp(w) => names' = names
          BY <3>1, <4>2 DEF OpenTmp
        <5> QED
          BY <5>1, <5>2, UploadNames
      <4> QED
        BY <4>1, <4>2
    <3> QED
      BY <1>2, <3>1, <3>2, <3>3 DEF Holding
  <2>2. CASE g \notin left
    <3>1. RemoveFails(w) /\ g = h
      BY <1>7, <1>9, <2>2
    <3>2. Holding(w) /\ names' = names /\ job'[w].step = "idle"
      BY <1>1, <3>1, JobGoes DEF RemoveFails, Holding, Steps
    <3>3. names[h].tmp # None
      BY <3>2 DEF ObjectInv, UploadOK
    <3>4. \A v \in Writer : v # w /\ Holding(v) => job[v].object # h
      BY <1>3, <3>2
    <3> QED
      BY <1>2, <3>1, <3>2, <3>3, <3>4 DEF Holding
  <2> QED
    BY <2>1, <2>2
<1>10. TmpHeld'
  BY <1>8, <1>9 DEF TmpHeld
<1> QED
  BY <1>4, <1>5, <1>6, <1>10

-----------------------------------------------------------------------------
(* The three promises of the store.                                        *)

LEMMA UploadSafe ==
  ASSUME ObjectInv, NEW w \in Writer, UploadStep(w)
  PROVE  WholeUnderName' /\ KeptSurvives' /\ RefsResolve'
<1> DEFINE h == job[w].object
<1>1. /\ ObjectTypeOK /\ h \in Hash /\ UploadOK(w) /\ WholeUnderName /\ KeptSurvives /\ RefsResolve
      /\ \A g \in Hash : names[g] \in past[g]
  BY UploadMoves DEF ObjectInv, ObjectTypeOK
<1>2. ASSUME NEW g \in Hash, NEW e \in past'[g], e \notin past[g]
      PROVE  \/ e.final = names[g].final
             \/ e.final # None /\ e.final \in whole \cap flushed
  <2>1. e = names'[g]
    <3>1. past'[g] \subseteq past[g] \cup {names'[g]}
      BY UploadNames
    <3> QED
      BY <1>2, <3>1
  <2>2. names'[g].final = names[g].tmp /\ Rename(w) /\ g = h
          => names'[g].final # None /\ names'[g].final \in whole \cap flushed
    BY <1>1 DEF UploadOK, Holding, Rename
  <2> QED
    BY <2>1, <2>2, UploadNames
<1>3. WholeUnderName'
  <2> SUFFICES ASSUME NEW g \in Hash, NEW e \in past'[g], e.final # None
               PROVE  e.final \in whole' \cap flushed'
    BY DEF WholeUnderName
  <2>1. e.final \in whole \cap flushed
    BY <1>1, <1>2 DEF WholeUnderName
  <2> QED
    BY <2>1, UploadFiles
<1>4. KeptSurvives'
  <2> SUFFICES ASSUME NEW g \in kept', NEW e \in past'[g] PROVE e.final # None
    BY DEF KeptSurvives
  <2>1. CASE g \in kept
    <3>1. g \in Hash
      BY <1>1, <2>1 DEF ObjectTypeOK
    <3> QED
      BY <1>1, <1>2, <2>1, <3>1 DEF KeptSurvives
  <2>2. CASE g \notin kept
    <3>1. SyncDir(w) /\ g = h
      BY <2>2 DEF UploadStep, Measure, Stat, OpenTmp, WriteTmp, SyncTmp, Rename, WriteFails, RemoveTmp,
     RemoveFails, SyncDir, SyncDirFails
    <3>2. e = names[h]
      BY <1>1, <3>1 DEF SyncDir, ObjectTypeOK
    <3> QED
      BY <1>1, <3>1, <3>2 DEF SyncDir, UploadOK
  <2> QED
    BY <2>1, <2>2
<1>5. RefsResolve'
  <2>1. refs' = refs /\ death' = death
    BY DEF UploadStep, Measure, Stat, OpenTmp, WriteTmp, SyncTmp, Rename, WriteFails, RemoveTmp,
     RemoveFails, SyncDir, SyncDirFails
  <2>2. \A g \in refs : HasObject(g) => HasObject(g)'
    BY <1>1, UploadNames DEF ObjectTypeOK
  <2> QED
    BY <1>1, <2>1, <2>2 DEF RefsResolve
<1> QED
  BY <1>3, <1>4, <1>5

\* The server dies, with or without the power: uploads end, and what the disk
\* may hold is what it held.
LEMMA DeathKeeps ==
  ASSUME ObjectInv, Die \/ PowerLoss
  PROVE  /\ OneHolder' /\ TmpHeld' /\ (\A v \in Writer : UploadOK(v))'
         /\ WholeUnderName' /\ KeptSurvives' /\ RefsResolve'
<1>1. ObjectTypeOK /\ WholeUnderName /\ KeptSurvives /\ RefsResolve
  BY DEF ObjectInv
<1>2. \A v \in Writer : job'[v].step = "idle"
  BY DEF Die, PowerLoss, Idle
<1>3. OneHolder' /\ (\A v \in Writer : UploadOK(v))'
  BY <1>2 DEF OneHolder, UploadOK, Holding
<1>4. TmpHeld'
  <2>1. left' = {h \in Hash : names'[h].tmp # None}
    BY DEF Die, PowerLoss
  <2> QED
    BY <1>2, <2>1 DEF TmpHeld, Holding
<1>5. CASE Die
  <2>1. death' # "power" => death # "power"
    BY <1>5 DEF Die
  <2> QED
    BY <1>1, <1>3, <1>4, <1>5, <2>1 DEF Die, WholeUnderName, KeptSurvives, RefsResolve, HasObject
<1>6. CASE PowerLoss
  <2>1. PICK e \in [Hash -> UNION {past[h] : h \in Hash}] :
          /\ \A h \in Hash : e[h] \in past[h]
          /\ names' = e /\ past' = [h \in Hash |-> {e[h]}]
    BY <1>6 DEF PowerLoss
  <2>2. PICK cut \in SUBSET (whole \ flushed) : whole' = (whole \ cut) \cap FilesIn(past')
    BY <1>6 DEF PowerLoss
  <2>3. WholeUnderName'
    <3> SUFFICES ASSUME NEW h \in Hash, NEW d \in past'[h], d.final # None
                 PROVE  d.final \in whole' \cap flushed'
      BY DEF WholeUnderName
    <3>1. d \in past[h]
      BY <2>1
    <3>2. d.final \in whole \cap flushed
      BY <1>1, <3>1 DEF WholeUnderName
    <3>3. d.final \in FilesIn(past')
      BY DEF FilesIn
    <3>4. flushed' = whole'
      BY <1>6 DEF PowerLoss
    <3> QED
      BY <2>2, <3>2, <3>3, <3>4
  <2>4. KeptSurvives'
    <3>1. kept' = kept /\ kept \subseteq Hash
      BY <1>1, <1>6 DEF PowerLoss, ObjectTypeOK
    <3>2. \A h \in kept : past'[h] \subseteq past[h]
      BY <2>1, <3>1
    <3> QED
      BY <1>1, <3>1, <3>2 DEF KeptSurvives
  <2>5. death' = "power"
    BY <1>6 DEF PowerLoss
  <2> QED
    BY <1>3, <1>4, <2>3, <2>4, <2>5 DEF RefsResolve
<1> QED
  BY <1>5, <1>6

LEMMA InvStep ==
  ASSUME ObjectInv, [ObjectNext]_objectVars
  PROVE  ObjectInv'
<1>1. ObjectTypeOK'
  BY TypeStep
<1>2. CASE \E w \in Writer : UploadStep(w)
  BY <1>1, <1>2, UploadKeeps, UploadSafe DEF ObjectInv
<1>3. CASE \E w \in Writer, h \in Hash : Upload(w, h)
  <2>1. PICK w \in Writer, h \in Hash : Upload(w, h)
    BY <1>3
  <2>2. /\ \A v \in Writer : v # w => job'[v] = job[v]
        /\ job'[w].step \in {"stat", "measure"}
    BY <2>1 DEF Upload, ObjectInv, ObjectTypeOK
  <2>3. \A v \in Writer : Holding(v)' <=> Holding(v) /\ v # w
    BY <2>1, <2>2 DEF Holding, Upload
  <2>4. UNCHANGED <<names, past, whole, flushed, refs, kept, faults, death, left>>
    BY <2>1 DEF Upload
  <2>5. \A v \in Writer : UploadOK(v)'
    <3> SUFFICES ASSUME NEW v \in Writer PROVE UploadOK(v)'
      OBVIOUS
    <3>1. CASE v = w
      BY <2>2, <2>3, <3>1 DEF UploadOK
    <3>2. CASE v # w
      BY <2>2, <2>3, <2>4, <3>2 DEF UploadOK, ObjectInv
    <3> QED
      BY <3>1, <3>2
  <2>6. OneHolder'
    BY <2>2, <2>3 DEF OneHolder, ObjectInv
  <2>7. TmpHeld'
    <3>1. ~ Holding(w)
      BY <2>1 DEF Upload, Holding
    <3> QED
      BY <2>2, <2>3, <2>4, <3>1 DEF TmpHeld, ObjectInv
  <2>8. WholeUnderName' /\ KeptSurvives' /\ RefsResolve'
    BY <2>4 DEF ObjectInv, WholeUnderName, KeptSurvives, RefsResolve, HasObject
  <2> QED
    BY <1>1, <2>5, <2>6, <2>7, <2>8 DEF ObjectInv
<1>4. CASE \E h \in Hash : Refer(h)
  BY <1>1, <1>4 DEF Refer, ObjectInv, OneHolder, TmpHeld, UploadOK, Holding,
                    WholeUnderName, KeptSurvives, RefsResolve, HasObject
<1>5. CASE Die \/ PowerLoss
  BY <1>1, <1>5, DeathKeeps DEF ObjectInv
<1>6. CASE UNCHANGED objectVars
  BY <1>1, <1>6 DEF objectVars, ObjectInv, OneHolder, TmpHeld, UploadOK, Holding,
                    WholeUnderName, KeptSurvives, RefsResolve, HasObject
<1> QED
  BY <1>2, <1>3, <1>4, <1>5, <1>6 DEF ObjectNext

-----------------------------------------------------------------------------
(* Results.                                                                *)

\* The invariant of the store holds in every state.
THEOREM StoreSafe == ObjectSpec => []ObjectInv
<1>1. ObjectInv /\ [ObjectNext]_objectVars => ObjectInv'
  BY InvStep
<1> QED
  BY <1>1, InitObjects, PTL DEF ObjectSpec

\* Uploads, directories and files keep their types, and what a directory holds
\* now is among what it has held since its last sync.
THEOREM ObjectTyped == ObjectSpec => []ObjectTypeOK
<1>1. ObjectInv => ObjectTypeOK
  BY DEF ObjectInv
<1> QED
  BY <1>1, StoreSafe, PTL

\* Nothing but the complete object ever carries its name, whatever call fails
\* and whatever a loss of power leaves.
THEOREM WholeUnderNameAlways == ObjectSpec => []WholeUnderName
<1>1. ObjectInv => WholeUnderName
  BY DEF ObjectInv
<1> QED
  BY <1>1, StoreSafe, PTL

\* An object whose directory was synced is never lost.
THEOREM KeptAlwaysSurvives == ObjectSpec => []KeptSurvives
<1>1. ObjectInv => KeptSurvives
  BY DEF ObjectInv
<1> QED
  BY <1>1, StoreSafe, PTL

\* With the power on, every row of an accepted commit finds its object.
THEOREM RefsAlwaysResolve == ObjectSpec => []RefsResolve
<1>1. ObjectInv => RefsResolve
  BY DEF ObjectInv
<1> QED
  BY <1>1, StoreSafe, PTL

\* A temporary file belongs to one upload at work, unless a failed removal or
\* a death has left it; nobody works on one that was left.
THEOREM TmpAlwaysHasOwner == ObjectSpec => []TmpHasOwner
<1>1. ASSUME ObjectInv PROVE TmpHasOwner
  <2> SUFFICES ASSUME NEW h \in Hash
               PROVE  Cardinality({w \in Writer : /\ job[w].object = h
                                                  /\ job[w].step \in {"write", "sync", "rename", "remove"}})
                        = IF names[h].tmp = None \/ h \in left THEN 0 ELSE 1
    BY DEF TmpHasOwner
  <2> DEFINE owners == {w \in Writer : /\ job[w].object = h
                                       /\ job[w].step \in {"write", "sync", "rename", "remove"}}
  <2>1. \A w \in Writer : w \in owners <=> Holding(w) /\ job[w].object = h
    BY DEF Holding
  <2>2. CASE names[h].tmp = None \/ h \in left
    <3>1. owners = {}
      BY <1>1, <2>1, <2>2 DEF ObjectInv, UploadOK, TmpHeld
    <3> QED
      BY <2>2, <3>1, FS_EmptySet
  <2>3. CASE names[h].tmp # None /\ h \notin left
    <3>1. PICK w \in Writer : Holding(w) /\ job[w].object = h
      BY <1>1, <2>3 DEF ObjectInv, TmpHeld
    <3>2. \A v \in owners : v = w
      BY <1>1, <2>1, <3>1 DEF ObjectInv, OneHolder
    <3>3. owners = {w}
      BY <2>1, <3>1, <3>2
    <3> QED
      BY <2>3, <3>3, FS_Singleton
  <2> QED
    BY <2>2, <2>3
<1> QED
  BY <1>1, StoreSafe, PTL

-----------------------------------------------------------------------------
(* The limit on the size.                                                  *)

Finals == {h \in Hash : names[h].final \in whole}

Temps == {h \in Hash : names[h].tmp \in whole}

\* As long as no power is lost, a temporary file has one name.
TmpIsNew ==
  death # "power" =>
    \A g, h \in Hash : names[h].tmp # None =>
      names[g].final # names[h].tmp /\ (g # h => names[g].tmp # names[h].tmp)

QuotaInv == ObjectInv /\ whole \subseteq FilesIn(past) /\ TmpIsNew /\ QuotaOvershoot

\* The sizes that the limit is about are numbers.
LEMMA Sizes ==
  /\ IsFiniteSet(Finals) /\ IsFiniteSet(Temps) /\ IsFiniteSet(Admitted)
  /\ Cardinality(Finals) \in Nat /\ Cardinality(Temps) \in Nat /\ Cardinality(Admitted) \in Nat
  /\ Cardinality(Writer) \in Nat /\ Cardinality(Admitted) <= Cardinality(Writer)
  /\ TotalSize = Cardinality(Finals) + Cardinality(Temps)
<1>1. Finals \in SUBSET Hash /\ Temps \in SUBSET Hash /\ Admitted \in SUBSET Writer
  BY DEF Finals, Temps, Admitted
<1>2. IsFiniteSet(Hash) /\ IsFiniteSet(Writer)
  BY ObjectConstants
<1>3. IsFiniteSet(Finals) /\ IsFiniteSet(Temps) /\ IsFiniteSet(Admitted)
      /\ Cardinality(Admitted) <= Cardinality(Writer)
  BY <1>1, <1>2, FS_Subset
<1>4. TotalSize = Cardinality(Finals) + Cardinality(Temps)
  BY DEF TotalSize, Finals, Temps
<1> QED
  BY <1>2, <1>3, <1>4, FS_CardinalityType

LEMMA SizesNext ==
  /\ IsFiniteSet(Finals') /\ IsFiniteSet(Temps') /\ IsFiniteSet(Admitted')
  /\ Cardinality(Finals') \in Nat /\ Cardinality(Temps') \in Nat /\ Cardinality(Admitted') \in Nat
  /\ Cardinality(Admitted') <= Cardinality(Writer)
  /\ TotalSize' = Cardinality(Finals') + Cardinality(Temps')
<1>1. Finals' \in SUBSET Hash /\ Temps' \in SUBSET Hash /\ Admitted' \in SUBSET Writer
  BY DEF Finals, Temps, Admitted
<1>2. IsFiniteSet(Hash) /\ IsFiniteSet(Writer)
  BY ObjectConstants
<1>3. IsFiniteSet(Finals') /\ IsFiniteSet(Temps') /\ IsFiniteSet(Admitted')
      /\ Cardinality(Admitted') <= Cardinality(Writer)
  BY <1>1, <1>2, FS_Subset
<1>4. TotalSize' = Cardinality(Finals') + Cardinality(Temps')
  BY DEF TotalSize, Finals, Temps
<1> QED
  BY <1>2, <1>3, <1>4, FS_CardinalityType

\* A step that lets no other upload pass the check and makes the store no
\* larger keeps the bound.
LEMMA NoLarger ==
  ASSUME QuotaOvershoot, death' # "power" => death # "power",
         Admitted' \subseteq Admitted, Finals' \subseteq Finals, Temps' \subseteq Temps
  PROVE  QuotaOvershoot'
<1>1. /\ Cardinality(Admitted') <= Cardinality(Admitted)
      /\ Cardinality(Finals') <= Cardinality(Finals) /\ Cardinality(Temps') <= Cardinality(Temps)
  BY Sizes, FS_Subset
<1>2. SUFFICES ASSUME Limit > 0, death # "power"
               PROVE  TotalSize' + Cardinality(Admitted') <= Limit + Cardinality(Writer) - 1
  BY DEF QuotaOvershoot
<1>3. TotalSize + Cardinality(Admitted) <= Limit + Cardinality(Writer) - 1
  BY <1>2 DEF QuotaOvershoot
<1> QED
  BY <1>1, <1>3, Sizes, SizesNext, ObjectConstants

LEMMA FilesStayNamed ==
  ASSUME ObjectInv, ObjectInv', whole \subseteq FilesIn(past), [ObjectNext]_objectVars
  PROVE  (whole \subseteq FilesIn(past))'
<1>1. ObjectTypeOK /\ ObjectTypeOK' /\ \A h \in Hash : names[h] \in past[h]
  BY DEF ObjectInv, ObjectTypeOK
<1>2. ASSUME \A h \in Hash : past[h] \subseteq past'[h]
      PROVE  FilesIn(past) \subseteq FilesIn(past')
  BY <1>2 DEF FilesIn
<1>3. ASSUME NEW w \in Writer, SetNames(job[w].object, names'[job[w].object]), job[w].object \in Hash
      PROVE  \A h \in Hash : past[h] \subseteq past'[h]
  BY <1>1, <1>3 DEF SetNames, ObjectTypeOK
<1>4. ASSUME NEW w \in Writer, OpenTmp(w) \/ Rename(w) \/ RemoveTmp(w)
      PROVE  (whole \subseteq FilesIn(past))'
  <2>1. job[w].object \in Hash /\ UploadStep(w)
    BY <1>4, UploadMoves DEF UploadStep
  <2>2. UNCHANGED past \/ SetNames(job[w].object, names'[job[w].object])
    BY <1>1, <1>4, <2>1 DEF OpenTmp, Rename, RemoveTmp, SetNames, ObjectTypeOK
  <2>3. whole' = whole
    BY <1>4 DEF OpenTmp, Rename, RemoveTmp
  <2> QED
    BY <1>2, <1>3, <2>1, <2>2, <2>3
<1>5. ASSUME NEW w \in Writer, WriteTmp(w)
      PROVE  (whole \subseteq FilesIn(past))'
  <2>1. job[w].object \in Hash
    BY <1>5, UploadMoves DEF UploadStep
  <2>2. names[job[w].object].tmp \in FilesIn(past)
    BY <1>1, <2>1 DEF FilesIn
  <2> QED
    BY <1>5, <2>2 DEF WriteTmp
<1>6. ASSUME NEW w \in Writer, \/ Measure(w) \/ Stat(w) \/ SyncTmp(w)
                               \/ WriteFails(w) \/ RemoveFails(w) \/ SyncDirFails(w)
      PROVE  (whole \subseteq FilesIn(past))'
  BY <1>6 DEF Measure, Stat, SyncTmp, WriteFails, RemoveFails, SyncDirFails
<1>7. ASSUME NEW w \in Writer, SyncDir(w)
      PROVE  (whole \subseteq FilesIn(past))'
  BY <1>7 DEF SyncDir
<1>8. CASE PowerLoss
  BY <1>8 DEF PowerLoss
<1>9. CASE \/ \E w \in Writer, h \in Hash : Upload(w, h)
           \/ \E h \in Hash : Refer(h)
           \/ Die
           \/ UNCHANGED objectVars
  BY <1>9 DEF Upload, Refer, Die, objectVars
<1> QED
  BY <1>4, <1>5, <1>6, <1>7, <1>8, <1>9 DEF ObjectNext, UploadStep

LEMMA TmpStaysNew ==
  ASSUME ObjectInv, ObjectInv', TmpIsNew, [ObjectNext]_objectVars
  PROVE  TmpIsNew'
<1>1. ObjectTypeOK /\ ObjectTypeOK' /\ names \in [Hash -> Names] /\ \A h \in Hash : names[h] \in past[h]
  BY DEF ObjectInv, ObjectTypeOK
<1>2. ASSUME names' = names, death' # "power" => death # "power"
      PROVE  TmpIsNew'
  BY <1>2 DEF TmpIsNew
<1>3. ASSUME NEW w \in Writer, OpenTmp(w) \/ Rename(w) \/ RemoveTmp(w), names' # names
      PROVE  TmpIsNew'
  <2> DEFINE h == job[w].object
  <2>1. /\ h \in Hash /\ UploadStep(w) /\ names[h] \in Names /\ death' = death
        /\ \A g \in Hash : g # h => names'[g] = names[g]
    BY <1>1, <1>3, UploadMoves, UploadNames DEF UploadStep, OpenTmp, Rename, RemoveTmp
  <2>2. CASE OpenTmp(w)
    <3> DEFINE f == CHOOSE g \in File : g \notin FilesIn(past)
    <3>1. ~ File \subseteq FilesIn(past) /\ SetNames(h, [names[h] EXCEPT !.tmp = f])
      BY <1>3, <2>2 DEF OpenTmp
    <3>2. f \in File /\ f \notin FilesIn(past)
      BY <3>1
    <3> HIDE DEF f
    <3>3. names'[h].tmp = f /\ names'[h].final = names[h].final
      BY <1>1, <2>1, <3>1 DEF SetNames, Names
    <3>4. \A g \in Hash : names[g].tmp # f /\ names[g].final # f
      BY <1>1, <3>2 DEF FilesIn
    <3> QED
      BY <2>1, <3>3, <3>4 DEF TmpIsNew
  <2>3. CASE Rename(w)
    <3>1. names'[h].tmp = None /\ names'[h].final = names[h].tmp /\ names[h].tmp # None
      BY <1>1, <2>1, <2>3 DEF Rename, SetNames, ObjectInv, UploadOK, Holding
    <3> QED
      BY <2>1, <3>1 DEF TmpIsNew
  <2>4. CASE RemoveTmp(w)
    <3>1. names'[h].tmp = None /\ names'[h].final = names[h].final
      BY <1>1, <2>1, <2>4 DEF RemoveTmp, SetNames, Names
    <3> QED
      BY <2>1, <3>1 DEF TmpIsNew
  <2> QED
    BY <1>3, <2>2, <2>3, <2>4
<1>4. ASSUME NEW w \in Writer, UploadStep(w)
      PROVE  TmpIsNew'
  <2>1. death' = death
    BY <1>4 DEF UploadStep, Measure, Stat, OpenTmp, WriteTmp, SyncTmp, Rename, WriteFails, RemoveTmp,
     RemoveFails, SyncDir, SyncDirFails
  <2> QED
    BY <1>2, <1>3, <1>4, <2>1, UploadNames
<1>5. CASE \/ \E w \in Writer, h \in Hash : Upload(w, h)
           \/ \E h \in Hash : Refer(h)
           \/ Die
           \/ UNCHANGED objectVars
  BY <1>2, <1>5 DEF Upload, Refer, Die, objectVars
<1>6. CASE PowerLoss
  BY <1>6 DEF PowerLoss, TmpIsNew
<1> QED
  BY <1>4, <1>5, <1>6 DEF ObjectNext

\* A call of an upload keeps the bound: the check leaves room for one object,
\* the write takes one and ends the admission.
LEMMA UploadWithinBound ==
  ASSUME QuotaInv, ObjectInv', NEW w \in Writer, UploadStep(w)
  PROVE  QuotaOvershoot'
<1> DEFINE h == job[w].object
<1>1. /\ ObjectInv /\ ObjectTypeOK /\ QuotaOvershoot /\ TmpIsNew /\ whole \subseteq FilesIn(past)
      /\ h \in Hash /\ names \in [Hash -> Names] /\ names[h] \in Names
      /\ job[w].step \in Steps /\ None \notin whole /\ job \in [Writer -> [step : Steps, object : Hash \cup {None}]]
  BY UploadMoves, ObjectConstants DEF QuotaInv, ObjectInv, ObjectTypeOK, None
<1>2. death' = death /\ \A v \in Writer : v # w => job'[v] = job[v]
  BY <1>1, UploadMoves DEF UploadStep, Measure, Stat, OpenTmp, WriteTmp, SyncTmp, Rename, WriteFails, RemoveTmp,
     RemoveFails, SyncDir, SyncDirFails
<1>3. ASSUME w \in Admitted \/ job'[w].step \notin {"stat", "open", "write"}
      PROVE  Admitted' \subseteq Admitted
  BY <1>2, <1>3 DEF Admitted
<1>4. CASE Measure(w)
  <2>1. CASE TotalSize + 1 > Limit
    <3>1. job'[w].step = "idle" /\ names' = names /\ whole' = whole
      BY <1>1, <1>4, <2>1, JobGoes DEF Measure, Steps
    <3> QED
      BY <1>1, <1>2, <1>3, <3>1, NoLarger DEF Finals, Temps
  <2>2. CASE ~ TotalSize + 1 > Limit
    <3>1. Finals' = Finals /\ Temps' = Temps
      BY <1>4 DEF Measure, Finals, Temps
    <3>2. TotalSize' + 1 <= Limit
      BY <2>2, <3>1, Sizes, SizesNext, ObjectConstants
    <3> QED
      BY <3>2, Sizes, SizesNext, ObjectConstants DEF QuotaOvershoot
  <2> QED
    BY <2>1, <2>2
<1>5. CASE Stat(w)
  BY <1>1, <1>2, <1>3, <1>5, NoLarger DEF Stat, Admitted, Finals, Temps
<1>6. CASE OpenTmp(w)
  <2>1. Admitted' \subseteq Admitted
    BY <1>1, <1>3, <1>6 DEF OpenTmp, Admitted
  <2>2. Finals' \subseteq Finals
    BY <1>1, <1>6, UploadNames DEF OpenTmp, Rename, Finals
  <2>3. Temps' \subseteq Temps
    <3>1. CASE names' = names
      BY <1>6, <3>1 DEF OpenTmp, Temps
    <3>2. CASE names' # names
      <4> DEFINE f == CHOOSE g \in File : g \notin FilesIn(past)
      <4>1. ~ File \subseteq FilesIn(past) /\ SetNames(h, [names[h] EXCEPT !.tmp = f])
        BY <1>6, <3>2 DEF OpenTmp
      <4>2. f \notin whole
        BY <1>1, <4>1
      <4> HIDE DEF f
      <4>3. names'[h].tmp = f
        BY <1>1, <4>1 DEF SetNames, Names
      <4> QED
        BY <1>1, <1>6, <4>2, <4>3, UploadNames DEF OpenTmp, Temps
    <3> QED
      BY <3>1, <3>2
  <2> QED
    BY <1>1, <1>2, <2>1, <2>2, <2>3, NoLarger
<1>7. CASE WriteTmp(w)
  <2> SUFFICES ASSUME Limit > 0, death # "power"
               PROVE  TotalSize' + Cardinality(Admitted') <= Limit + Cardinality(Writer) - 1
    BY <1>2 DEF QuotaOvershoot
  <2>1. w \in Admitted /\ job'[w].step = "sync"
    BY <1>1, <1>7, JobGoes DEF WriteTmp, Admitted, Steps
  <2>2. Admitted' = Admitted \ {w}
    BY <1>2, <2>1 DEF Admitted
  <2>3. Cardinality(Admitted') = Cardinality(Admitted) - 1
    BY <2>1, <2>2, Sizes, FS_RemoveElement
  <2>4. names[h].tmp # None
    BY <1>1, <1>7 DEF WriteTmp, ObjectInv, UploadOK, Holding
  <2>5. Finals' = Finals
    BY <1>1, <1>7, <2>4 DEF WriteTmp, TmpIsNew, Finals
  <2>6. Temps' = Temps \cup {h}
    BY <1>1, <1>7, <2>4 DEF WriteTmp, TmpIsNew, Temps
  <2>7. Cardinality(Temps') <= Cardinality(Temps) + 1
    <3>1. Cardinality(Temps \cup {h}) = IF h \in Temps THEN Cardinality(Temps) ELSE Cardinality(Temps) + 1
      BY Sizes, FS_AddElement
    <3> QED
      BY <2>6, <3>1, Sizes
  <2>8. TotalSize + Cardinality(Admitted) <= Limit + Cardinality(Writer) - 1
    BY <1>1 DEF QuotaOvershoot
  <2> QED
    BY <2>3, <2>5, <2>7, <2>8, Sizes, SizesNext, ObjectConstants
<1>8. CASE SyncTmp(w)
  <2>1. job'[w].step = "rename"
    BY <1>1, <1>8, JobGoes DEF SyncTmp, Steps
  <2> QED
    BY <1>1, <1>2, <1>3, <1>8, <2>1, NoLarger DEF SyncTmp, Finals, Temps
<1>9. CASE Rename(w)
  <2> SUFFICES ASSUME Limit > 0, death # "power"
               PROVE  TotalSize' + Cardinality(Admitted') <= Limit + Cardinality(Writer) - 1
    BY <1>2 DEF QuotaOvershoot
  <2>1. job'[w].step = "syncdir"
    BY <1>1, <1>9, JobGoes DEF Rename, Steps
  <2>2. Cardinality(Admitted') <= Cardinality(Admitted)
    BY <1>3, <2>1, Sizes, FS_Subset
  <2>3. names'[h] = [tmp |-> None, final |-> names[h].tmp] /\ names[h].tmp \in whole /\ whole' = whole
    BY <1>1, <1>9 DEF Rename, SetNames, ObjectInv, UploadOK
  <2>4. Temps' = Temps \ {h} /\ h \in Temps
    BY <1>1, <2>3, UploadNames DEF Temps
  <2>5. Finals' = Finals \cup {h}
    BY <1>1, <2>3, UploadNames DEF Finals
  <2>6. Cardinality(Temps') = Cardinality(Temps) - 1 /\ Cardinality(Finals') <= Cardinality(Finals) + 1
    <3>1. Cardinality(Temps \ {h}) = Cardinality(Temps) - 1
      BY <2>4, Sizes, FS_RemoveElement
    <3>2. Cardinality(Finals \cup {h}) = IF h \in Finals THEN Cardinality(Finals) ELSE Cardinality(Finals) + 1
      BY Sizes, FS_AddElement
    <3> QED
      BY <2>4, <2>5, <3>1, <3>2, Sizes
  <2>7. TotalSize + Cardinality(Admitted) <= Limit + Cardinality(Writer) - 1
    BY <1>1 DEF QuotaOvershoot
  <2> QED
    BY <2>2, <2>6, <2>7, Sizes, SizesNext, ObjectConstants
<1>10. CASE RemoveTmp(w)
  <2>1. job'[w].step = "idle"
    BY <1>1, <1>10, JobGoes DEF RemoveTmp, Steps
  <2>2. names'[h].tmp = None /\ whole' = whole
    BY <1>1, <1>10 DEF RemoveTmp, SetNames, Names
  <2>3. Temps' \subseteq Temps
    BY <1>1, <2>2, UploadNames DEF Temps
  <2>4. Finals' \subseteq Finals
    BY <1>1, <1>10, <2>2, UploadNames DEF RemoveTmp, Rename, Finals, SetNames
  <2> QED
    BY <1>1, <1>2, <1>3, <2>1, <2>3, <2>4, NoLarger
<1>11. CASE SyncDir(w) \/ SyncDirFails(w)
  <2>1. job'[w].step = "idle"
    BY <1>1, <1>11, JobGoes DEF SyncDir, SyncDirFails, Steps
  <2>2. names' = names /\ whole' \subseteq whole
    BY <1>11 DEF SyncDir, SyncDirFails
  <2> QED
    BY <1>1, <1>2, <1>3, <2>1, <2>2, NoLarger DEF Finals, Temps
<1>12. CASE WriteFails(w) \/ RemoveFails(w)
  <2>1. job'[w].step \in {"idle", "remove"}
    BY <1>1, <1>12, JobGoes DEF WriteFails, RemoveFails, Steps
  <2>2. names' = names /\ whole' = whole
    BY <1>12 DEF WriteFails, RemoveFails
  <2> QED
    BY <1>1, <1>2, <1>3, <2>1, <2>2, NoLarger DEF Finals, Temps
<1> QED
  BY <1>4, <1>5, <1>6, <1>7, <1>8, <1>9, <1>10, <1>11, <1>12 DEF UploadStep

LEMMA QuotaStep ==
  ASSUME QuotaInv, [ObjectNext]_objectVars
  PROVE  QuotaInv'
<1>1. ObjectInv /\ ObjectInv' /\ QuotaOvershoot
  BY InvStep DEF QuotaInv
<1>2. (whole \subseteq FilesIn(past))' /\ TmpIsNew'
  BY <1>1, FilesStayNamed, TmpStaysNew DEF QuotaInv
<1>3. QuotaOvershoot'
  <2>1. CASE \E w \in Writer : UploadStep(w)
    BY <1>1, <2>1, UploadWithinBound
  <2>2. CASE \E w \in Writer, h \in Hash : Upload(w, h)
    <3>1. PICK w \in Writer, h \in Hash : Upload(w, h)
      BY <2>2
    <3>2. CASE Limit = 0
      BY <3>2 DEF QuotaOvershoot
    <3>3. CASE Limit # 0
      <4>1. \A v \in Writer : v # w => job'[v] = job[v]
        BY <1>1, <3>1 DEF Upload, ObjectInv, ObjectTypeOK
      <4>2. job'[w].step = "measure"
        BY <1>1, <3>1, <3>3 DEF Upload, ObjectInv, ObjectTypeOK
      <4>3. Admitted' \subseteq Admitted
        BY <4>1, <4>2 DEF Admitted
      <4> QED
        BY <1>1, <3>1, <4>3, NoLarger DEF Upload, Finals, Temps
    <3> QED
      BY <3>2, <3>3
  <2>3. CASE Die
    <3>1. Admitted' = {} /\ (death' # "power" => death # "power")
      BY <2>3 DEF Die, Admitted, Idle
    <3> QED
      BY <1>1, <2>3, <3>1, NoLarger DEF Die, Finals, Temps
  <2>4. CASE PowerLoss
    BY <2>4 DEF PowerLoss, QuotaOvershoot
  <2>5. CASE (\E h \in Hash : Refer(h)) \/ UNCHANGED objectVars
    BY <1>1, <2>5, NoLarger DEF Refer, objectVars, Finals, Temps, Admitted
  <2> QED
    BY <2>1, <2>2, <2>3, <2>4, <2>5 DEF ObjectNext
<1> QED
  BY <1>1, <1>2, <1>3 DEF QuotaInv

\* Uploads side by side pass the limit by less than one object each.
THEOREM QuotaAlwaysBounded == ObjectSpec => []QuotaOvershoot
<1>1. ObjectInit => QuotaInv
  <2> SUFFICES ASSUME ObjectInit PROVE QuotaInv
    OBVIOUS
  <2>1. ObjectInv
    BY InitObjects
  <2>2. whole \subseteq FilesIn(past) /\ TmpIsNew
    BY DEF ObjectInit, Absent, TmpIsNew
  <2>3. Finals = {} /\ Temps = {} /\ Admitted = {}
    BY DEF ObjectInit, Idle, Finals, Temps, Admitted
  <2>4. QuotaOvershoot
    BY <2>3, Sizes, FS_EmptySet, ObjectConstants DEF QuotaOvershoot
  <2> QED
    BY <2>1, <2>2, <2>4 DEF QuotaInv
<1>2. QuotaInv /\ [ObjectNext]_objectVars => QuotaInv'
  BY QuotaStep
<1>3. QuotaInv => QuotaOvershoot
  BY DEF QuotaInv
<1> QED
  BY <1>1, <1>2, <1>3, PTL DEF ObjectSpec

-----------------------------------------------------------------------------
(* Refinement: the store implements ObjectSet.                             *)

\* Under its name an object is there whole, or not at all.
ThereOnly == Intact = {h \in Hash : HasObject(h)}

\* So it is in every state, and in the next one.
LEMMA IntactIsThere == ObjectInv => ThereOnly
<1> SUFFICES ASSUME ObjectInv PROVE ThereOnly
  OBVIOUS
<1>1. \A h \in Hash : names[h] \in past[h]
  BY DEF ObjectInv, ObjectTypeOK
<1>2. \A h \in Hash : HasObject(h) => names[h].final \in whole
  BY <1>1 DEF ObjectInv, WholeUnderName, HasObject
<1>3. None \notin whole
  BY ObjectConstants DEF ObjectInv, ObjectTypeOK, None
<1>4. \A h \in Hash : names[h].final \in whole => HasObject(h)
  BY <1>3 DEF HasObject
<1> QED
  BY <1>2, <1>4 DEF ThereOnly, Intact

LEMMA IntactStaysThere == ObjectInv' => ThereOnly'
BY IntactIsThere, PTL

\* An object that some state of the disk would have is there now.
FinalStays == \A h \in Hash : \A e \in past[h] : e.final # None => HasObject(h)

LEMMA FinalStaysNext ==
  ASSUME ObjectInv, FinalStays, [ObjectNext]_objectVars
  PROVE  FinalStays'
<1>1. CASE \E w \in Writer : UploadStep(w)
  <2>1. PICK w \in Writer : UploadStep(w)
    BY <1>1
  <2>2. /\ \A g \in Hash : HasObject(g) => HasObject(g)'
        /\ \A g \in Hash : past'[g] \subseteq past[g] \cup {names'[g]}
    BY <2>1, UploadNames
  <2> QED
    BY <2>2 DEF FinalStays, HasObject
<1>2. CASE \E w \in Writer, h \in Hash : Upload(w, h)
  BY <1>2 DEF Upload, FinalStays, HasObject
<1>3. CASE \E h \in Hash : Refer(h)
  BY <1>3 DEF Refer, FinalStays, HasObject
<1>4. CASE Die
  BY <1>4 DEF Die, FinalStays, HasObject
<1>5. CASE PowerLoss
  <2>1. \A h \in Hash : past'[h] = {names'[h]}
    BY <1>5 DEF PowerLoss
  <2> QED
    BY <2>1 DEF FinalStays, HasObject
<1>6. CASE UNCHANGED objectVars
  BY <1>6 DEF objectVars, FinalStays, HasObject
<1> QED
  BY <1>1, <1>2, <1>3, <1>4, <1>5, <1>6 DEF ObjectNext

\* The rename makes the object appear, the sync makes it lasting, and no other
\* call of an upload shows.
LEMMA UploadRefines ==
  ASSUME ObjectInv, ObjectInv', NEW w \in Writer, UploadStep(w)
  PROVE  \/ \E h \in Hash : Objects!Put(h) \/ Objects!Secure(h)
         \/ UNCHANGED Objects!setVars
<1>1. PICK h \in Hash : h = job[w].object
  BY UploadMoves
<1>2. /\ Intact = {g \in Hash : HasObject(g)}
      /\ Intact' = {g \in Hash : HasObject(g)'}
  BY IntactIsThere, IntactStaysThere DEF ThereOnly
<1>3. /\ refs' = refs /\ death' = death
      /\ SyncDir(w) \/ kept' = kept
  BY DEF UploadStep, Measure, Stat, OpenTmp, WriteTmp, SyncTmp, Rename, WriteFails, RemoveTmp,
     RemoveFails, SyncDir, SyncDirFails
<1>4. CASE Rename(w)
  <2>1. names[h].tmp # None
    BY <1>1, <1>4 DEF ObjectInv, UploadOK, Holding, Rename
  <2>2. names' = [names EXCEPT ![h] = [tmp |-> None, final |-> names[h].tmp]] /\ kept' = kept
    BY <1>1, <1>4 DEF Rename, SetNames
  <2>3. \A g \in Hash : HasObject(g)' <=> HasObject(g) \/ g = h
    BY <2>1, <2>2 DEF HasObject, ObjectInv, ObjectTypeOK
  <2>4. Intact' = Intact \cup {h}
    BY <1>2, <2>3
  <2>5. CASE h \in Intact
    BY <1>3, <2>2, <2>4, <2>5 DEF Objects!setVars
  <2>6. CASE h \notin Intact
    BY <1>3, <2>2, <2>4, <2>6 DEF Objects!Put
  <2> QED
    BY <2>5, <2>6
<1>5. CASE ~ Rename(w)
  <2>1. \A g \in Hash : HasObject(g)' <=> HasObject(g)
    BY <1>5, UploadNames DEF HasObject
  <2>2. Intact' = Intact
    BY <1>2, <2>1
  <2>3. CASE SyncDir(w)
    <3>1. h \in Intact
      BY <1>1, <1>2, <2>3 DEF ObjectInv, UploadOK, SyncDir, HasObject
    <3>2. kept' = kept \cup {h}
      BY <1>1, <2>3 DEF SyncDir
    <3> QED
      BY <1>3, <2>2, <3>1, <3>2 DEF Objects!Secure
  <2>4. CASE ~ SyncDir(w)
    BY <1>3, <2>2, <2>4 DEF Objects!setVars
  <2> QED
    BY <2>3, <2>4
<1> QED
  BY <1>4, <1>5

\* What a loss of power takes was there, and had not been made lasting.
LEMMA PowerLossRefines ==
  ASSUME ObjectInv, ObjectInv', FinalStays, PowerLoss
  PROVE  Objects!Lose
<1>1. /\ Intact = {g \in Hash : HasObject(g)}
      /\ Intact' = {g \in Hash : HasObject(g)'}
  BY IntactIsThere, IntactStaysThere DEF ThereOnly
<1>2. /\ \A h \in Hash : names'[h] \in past[h]
      /\ refs' = refs /\ kept' = kept /\ death' = "power"
  BY DEF PowerLoss
<1>3. \A h \in Hash : HasObject(h)' => HasObject(h)
  BY <1>2 DEF FinalStays, HasObject
<1>4. \A h \in kept : h \in Hash /\ HasObject(h)'
  BY <1>2 DEF ObjectInv, ObjectTypeOK, KeptSurvives, HasObject
<1>5. PICK gone : gone = Intact \ Intact'
  OBVIOUS
<1>6. gone \in SUBSET (Intact \ kept) /\ Intact' = Intact \ gone
  BY <1>1, <1>3, <1>4, <1>5
<1> QED
  BY <1>2, <1>6 DEF Objects!Lose

LEMMA StepRefines ==
  ASSUME ObjectInv, ObjectInv', FinalStays, [ObjectNext]_objectVars
  PROVE  [Objects!SetNext]_(Objects!setVars)
<1>1. CASE \E w \in Writer : UploadStep(w)
  BY <1>1, UploadRefines DEF Objects!SetNext
<1>2. CASE \E w \in Writer, h \in Hash : Upload(w, h)
  BY <1>2 DEF Upload, Objects!setVars, Intact
<1>3. CASE \E h \in Hash : Refer(h)
  <2>1. PICK h \in Hash : Refer(h)
    BY <1>3
  <2>2. {h} \subseteq Intact /\ {h} \in SUBSET Hash
    BY <2>1, IntactIsThere DEF Refer, ThereOnly
  <2>3. /\ refs' = refs \cup {h} /\ kept' = kept /\ death' = death
        /\ Intact' = Intact
    BY <2>1 DEF Refer, Intact
  <2>4. Objects!ReferTo({h})
    BY <2>2, <2>3 DEF Objects!ReferTo
  <2> QED
    BY <2>2, <2>4 DEF Objects!SetNext
<1>4. CASE Die
  <2>1. (death = "power")' = (death = "power")
    BY <1>4 DEF Die
  <2> QED
    BY <1>4, <2>1 DEF Die, Objects!setVars, Intact
<1>5. CASE PowerLoss
  BY <1>5, PowerLossRefines DEF Objects!SetNext
<1>6. CASE UNCHANGED objectVars
  BY <1>6 DEF objectVars, Objects!setVars, Intact
<1> QED
  BY <1>1, <1>2, <1>3, <1>4, <1>5, <1>6 DEF ObjectNext

\* Files, names and calls implement the set of whole objects: one appears in one
\* step, and only a loss of power takes any away, none of them synced.
THEOREM StoreImplementsSet == ObjectSpec => ImplementsSet
<1>1. ObjectInit => FinalStays /\ Objects!SetInit
  <2> SUFFICES ASSUME ObjectInit PROVE FinalStays /\ Objects!SetInit
    OBVIOUS
  <2>1. \A h \in Hash : \A e \in past[h] : e.final = None
    BY DEF ObjectInit, Absent
  <2>2. Intact = {}
    BY DEF ObjectInit, Intact
  <2> QED
    BY <2>1, <2>2 DEF ObjectInit, FinalStays, Objects!SetInit
<1>2. ObjectInv /\ FinalStays /\ [ObjectNext]_objectVars => FinalStays'
  BY FinalStaysNext
<1>3. ObjectInv /\ ObjectInv' /\ FinalStays /\ [ObjectNext]_objectVars
        => [Objects!SetNext]_(Objects!setVars)
  BY StepRefines
<1> QED
  BY <1>1, <1>2, <1>3, StoreSafe, PTL DEF ObjectSpec, ImplementsSet, Objects!SetSpec
=============================================================================
