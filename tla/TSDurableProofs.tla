--------------------------- MODULE TSDurableProofs ---------------------------
(***************************************************************************)
(* What the registry on disk names, proved for every number of keys, files *)
(* and crashes, if no process and no checkpoint ends between the renames   *)
(* of the meta-store's manifest and the removal of the main one: then ids  *)
(* do repeat, which TLC shows, and the theorems say that nowhere else does *)
(* the end of a process do harm.                                           *)
(***************************************************************************)
EXTENDS TSDurable, TLAPS

\* The meta-store's entries are those of the registry, of the sources it has still to
\* forget, and not of those that are about to be removed.
SameEntries == up => metaTree \cup metaNew \cup metaFiles = (files \cup src) \ dying

\* The sources a merge or a flush still works on.
WorkList ==
  /\ src # {} => /\ up
                 /\ \/ bg = "launched" /\ src \subseteq bgSrcFiles
                    \/ pc = "written" /\ src \subseteq files
  /\ dying # {} => /\ up /\ bg = "none"
                   /\ \/ pc = "idle" /\ dying \cap files = {}
                      \/ pc = "written" /\ dying \subseteq files
  /\ src \cap dying = {}

\* The merge in flight, or the flush, has an output nobody reads yet.
OutputApart ==
  /\ bg # "none" \/ pc = "written" =>
       up /\ out \in Id /\ out < nextFileId /\ out \notin files \cup bgSrcFiles
  /\ bg = "written" \/ pc = "written" => out \in onDisk
  /\ bg # "none" => pc = "idle"
  /\ files \cap bgSrcFiles = {}
  /\ bg = "none" => bgSrcFiles = {}

\* What is in memory is gone when the store is.
Down ==
  ~up => /\ pc = "idle" /\ bg = "none" /\ src = {} /\ dying = {}
         /\ files = {} /\ bgSrcFiles = {} /\ metaTree = {} /\ metaNew = {}

\* The main manifest's counter is behind the registry only between the two renames.
CounterAhead ==
  /\ pc = "mainGone" => manifest = None
  /\ pc # "metaDone" /\ manifest # None => \A f \in metaFiles : f < manifest

AllOnDisk == files \cup bgSrcFiles \cup metaFiles \subseteq onDisk

DurableInv ==
  /\ TypeOK
  /\ SameEntries /\ WorkList /\ OutputApart /\ Down /\ CounterAhead /\ AllOnDisk
  /\ IdsFresh

-----------------------------------------------------------------------------

LEMMA RecsType == ASSUME TypeOK, NEW F, F \subseteq Id PROVE Recs(F) \subseteq Key
BY DEF Recs, TypeOK

LEMMA TouchedFiles == ASSUME NEW t PROVE Touched(t) \subseteq files
BY DEF Touched

LEMMA WriteTypes ==
  ASSUME TypeOK, NEW f \in Id, NEW R, R \subseteq Key, WriteFile(f, R)
  PROVE  /\ slots' \in [Id -> SUBSET Key] /\ live' \in [Id -> SUBSET Key]
         /\ onDisk' \subseteq Id /\ onDisk' = onDisk \cup {f}
BY DEF WriteFile, TypeOK

LEMMA InitDurable == Init => DurableInv
<1> SUFFICES ASSUME Init PROVE DurableInv
  OBVIOUS
<1>1. TypeOK
  <2>1. out \in Id \cup {None} /\ nextFileId \in 1..(MaxId + 1) /\ manifest \in 0..(MaxId + 1)
    BY DurableAssumption DEF Init, Id, None
  <2>2. slots \in [Id -> SUBSET Key] /\ live \in [Id -> SUBSET Key]
    BY DEF Init
  <2> QED  BY <2>1, <2>2 DEF Init, TypeOK
<1>2. SameEntries /\ WorkList /\ OutputApart /\ Down /\ AllOnDisk
  BY DEF Init, SameEntries, WorkList, OutputApart, Down, AllOnDisk
<1>3. CounterAhead /\ IdsFresh
  BY DEF Init, CounterAhead, IdsFresh
<1> QED  BY <1>1, <1>2, <1>3 DEF DurableInv

Frame ==
  <<up, pc, files, nextFileId, bg, bgSrcFiles, out, work, onDisk, metaVars, manifests>>

\* A step that leaves the registry, the files and the manifests alone.
LEMMA FrameKeeps ==
  ASSUME DurableInv, TypeOK', UNCHANGED Frame
  PROVE  DurableInv'
BY DEF Frame, work, metaVars, manifests, DurableInv, SameEntries, WorkList, OutputApart, Down,
       CounterAhead, AllOnDisk, IdsFresh

LEMMA CallsKeep ==
  ASSUME DurableInv, NEW k \in Key, Insert(k) \/ Delete(k)
  PROVE  DurableInv'
<1>1. CASE Insert(k)
  <2>1. TypeOK'
    BY <1>1 DEF Insert, DurableInv, TypeOK, Idle, bgVars, work, diskVars, metaVars, manifests
  <2> QED  BY <1>1, <2>1, FrameKeeps
           DEF Insert, Frame, bgVars, diskVars
<1>2. CASE Delete(k)
  <2>1. live' \in [Id -> SUBSET Key]
    BY <1>2 DEF Delete, DurableInv, TypeOK
  <2>2. TypeOK'
    BY <1>2, <2>1 DEF Delete, DurableInv, TypeOK, Idle, bgVars, work, metaVars, manifests
  <2> QED  BY <1>2, <2>2, FrameKeeps DEF Delete, Frame, bgVars
<1> QED  BY <1>1, <1>2

LEMMA MergeStepKeeps ==
  ASSUME DurableInv, Launch \/ RunSlice \/ Finalize
  PROVE  DurableInv'
<1> USE DurableAssumption
<1>1. CASE Launch
  <2> DEFINE T == Touched(tree)
  <2>1. T \subseteq files
    BY TouchedFiles
  <2> HIDE DEF T
  <2>2. /\ Idle /\ bg = "none" /\ nextFileId \in Id /\ bg' = "launched"
        /\ bgTree' = tree /\ tree' = {} /\ bgSrcFiles' = T /\ files' = files \ T /\ src' = T
        /\ out' = nextFileId /\ nextFileId' = nextFileId + 1 /\ clean' = FALSE
        /\ UNCHANGED <<up, pc, dying, slots, live, onDisk, metaTree, metaNew, metaFiles,
                       metaManifest, manifest, deleted>>
    BY <1>1 DEF Launch, diskVars, metaVars, manifests, T
  <2>3. TypeOK'
    <3>1. nextFileId + 1 \in 1..(MaxId + 1)
      BY <2>2 DEF Id
    <3> QED  BY <2>1, <2>2, <3>1 DEF DurableInv, TypeOK
  <2>4. SameEntries' /\ WorkList' /\ Down' /\ AllOnDisk' /\ CounterAhead'
    <3>1. src = {} /\ dying = {} /\ up
      BY <2>2 DEF Idle
    <3>2. SameEntries'
      BY <2>1, <2>2, <3>1 DEF DurableInv, SameEntries
    <3>3. WorkList'
      <4>1. up' /\ bg' = "launched" /\ src' = bgSrcFiles' /\ dying' = {}
        BY <2>2, <3>1
      <4> QED  BY <4>1 DEF WorkList
    <3>5. Down'
      BY <2>2, <3>1 DEF Down
    <3>4. AllOnDisk' /\ CounterAhead'
      BY <2>1, <2>2 DEF DurableInv, Idle, AllOnDisk, CounterAhead
    <3> QED  BY <3>2, <3>3, <3>4, <3>5
  <2>5. /\ nextFileId' > nextFileId /\ nextFileId \in Nat
        /\ \A f \in files : f < nextFileId /\ f \in Nat
    BY <2>2 DEF DurableInv, TypeOK, Idle, OutputApart, IdsFresh, Id
  <2>6. OutputApart'
    BY <2>1, <2>2, <2>5 DEF DurableInv, Idle, OutputApart
  <2>7. IdsFresh'
    BY <2>1, <2>2, <2>5 DEF IdsFresh
  <2> QED  BY <2>3, <2>4, <2>6, <2>7 DEF DurableInv
<1>2. CASE RunSlice
  <2>1. out \in Id /\ bgTree \cup Recs(bgSrcFiles) \subseteq Key
    BY <1>2, RecsType DEF RunSlice, DurableInv, OutputApart, TypeOK
  <2>2. /\ slots' \in [Id -> SUBSET Key] /\ live' \in [Id -> SUBSET Key]
        /\ onDisk' \subseteq Id /\ onDisk' = onDisk \cup {out}
    BY <1>2, <2>1, WriteTypes DEF RunSlice, DurableInv
  <2>3. /\ up /\ bg = "launched" /\ bg' = "written" /\ src = {}
        /\ UNCHANGED <<up, pc, tree, files, nextFileId, bgTree, bgSrcFiles, out, src, dying,
                       metaTree, metaNew, metaFiles, metaManifest, manifest, clean, deleted>>
    BY <1>2 DEF RunSlice, work, metaVars, manifests, history
  <2>4. TypeOK' /\ SameEntries' /\ WorkList' /\ Down' /\ CounterAhead' /\ AllOnDisk'
    BY <2>2, <2>3 DEF DurableInv, TypeOK, SameEntries, WorkList, Down, CounterAhead, AllOnDisk
  <2>5. OutputApart' /\ IdsFresh'
    BY <2>2, <2>3 DEF DurableInv, OutputApart, IdsFresh
  <2> QED  BY <2>4, <2>5 DEF DurableInv
<1>3. CASE Finalize
  <2>1. /\ Idle /\ bg = "written" /\ bg' = "none" /\ files' = files \cup {out}
        /\ metaTree' = metaTree \cup {out} /\ bgTree' = {} /\ bgSrcFiles' = {}
        /\ dying' = bgSrcFiles /\ out' = None
        /\ UNCHANGED <<up, pc, tree, nextFileId, src, slots, live, onDisk, metaNew, metaFiles,
                       metaManifest, manifest, clean, deleted>>
    BY <1>3 DEF Finalize, diskVars, manifests, history
  <2>2. TypeOK'
    BY <2>1 DEF DurableInv, OutputApart, TypeOK
  <2>3. SameEntries' /\ WorkList'
    <3>1. /\ src = {} /\ dying = {} /\ up /\ pc = "idle"
          /\ files \cap bgSrcFiles = {} /\ out \notin bgSrcFiles
      BY <2>1 DEF DurableInv, Idle, OutputApart
    <3>2. SameEntries'
      BY <2>1, <3>1 DEF DurableInv, SameEntries
    <3>3. WorkList'
      <4>1. /\ up' /\ bg' = "none" /\ pc' = "idle" /\ src' = {} /\ dying' = bgSrcFiles
            /\ dying' \cap files' = {}
        BY <2>1, <3>1
      <4> QED  BY <4>1 DEF WorkList
    <3> QED  BY <3>2, <3>3
  <2>4. OutputApart' /\ Down' /\ CounterAhead' /\ AllOnDisk' /\ IdsFresh'
    BY <2>1 DEF DurableInv, Idle, OutputApart, Down, CounterAhead, AllOnDisk, IdsFresh
  <2> QED  BY <2>2, <2>3, <2>4 DEF DurableInv
<1> QED  BY <1>1, <1>2, <1>3

LEMMA SourcesKeep ==
  ASSUME DurableInv, NEW f \in Id, Forget(f) \/ RemoveFile(f)
  PROVE  DurableInv'
<1>1. CASE Forget(f)
  <2>1. /\ up /\ f \in src /\ dying = {} /\ src' = src \ {f}
        /\ dying' = IF pc = "written" THEN {f} ELSE {}
        /\ metaTree' = metaTree \ {f} /\ metaNew' = metaNew \ {f} /\ metaFiles' = metaFiles \ {f}
        /\ UNCHANGED <<up, pc, tree, files, nextFileId, bg, bgTree, bgSrcFiles, out, slots, live,
                       onDisk, metaManifest, manifest, clean, deleted>>
    BY <1>1 DEF Forget, Unregister, bgVars, diskVars, manifests, history
  <2>2. TypeOK'
    BY <2>1 DEF DurableInv, TypeOK
  <2>3. CASE pc = "written"
    <3>1. bg = "none" /\ src \subseteq files
      BY <2>1, <2>3 DEF DurableInv, OutputApart, WorkList
    <3> QED  BY <2>1, <2>2, <2>3, <3>1 DEF DurableInv, SameEntries, WorkList, OutputApart, Down,
                                           CounterAhead, AllOnDisk, IdsFresh
  <2>4. CASE pc # "written"
    <3>1. bg = "launched" /\ src \subseteq bgSrcFiles /\ files \cap bgSrcFiles = {}
      BY <2>1, <2>4 DEF DurableInv, OutputApart, WorkList
    <3> QED  BY <2>1, <2>2, <2>4, <3>1 DEF DurableInv, SameEntries, WorkList, OutputApart, Down,
                                           CounterAhead, AllOnDisk, IdsFresh
  <2> QED  BY <2>3, <2>4
<1>2. CASE RemoveFile(f)
  <2>1. /\ up /\ f \in dying /\ dying' = dying \ {f} /\ files' = files \ {f}
        /\ onDisk' = onDisk \ {f}
        /\ slots' = [slots EXCEPT ![f] = {}] /\ live' = [live EXCEPT ![f] = {}]
        /\ UNCHANGED <<up, pc, tree, nextFileId, bg, bgTree, bgSrcFiles, out, src, metaTree,
                       metaNew, metaFiles, metaManifest, manifest, clean, deleted>>
    BY <1>2 DEF RemoveFile, bgVars, metaVars, manifests, history
  <2>2. TypeOK'
    <3>1. slots' \in [Id -> SUBSET Key] /\ live' \in [Id -> SUBSET Key]
      BY <2>1 DEF DurableInv, TypeOK
    <3> QED  BY <2>1, <3>1 DEF DurableInv, TypeOK
  <2>3. bg = "none" /\ bgSrcFiles = {} /\ f \notin metaTree \cup metaNew \cup metaFiles
    BY <2>1 DEF DurableInv, WorkList, OutputApart, SameEntries
  <2>4. pc = "written" => out # f
    BY <2>1 DEF DurableInv, WorkList, OutputApart
  <2>5. SameEntries' /\ WorkList'
    BY <2>1, <2>3 DEF DurableInv, SameEntries, WorkList
  <2>6. OutputApart' /\ Down' /\ CounterAhead' /\ AllOnDisk' /\ IdsFresh'
    BY <2>1, <2>3, <2>4 DEF DurableInv, OutputApart, Down, CounterAhead, AllOnDisk, IdsFresh
  <2> QED  BY <2>2, <2>5, <2>6 DEF DurableInv
<1> QED  BY <1>1, <1>2

LEMMA FlushKeeps ==
  ASSUME DurableInv, FlushWrites \/ FlushEnds
  PROVE  DurableInv'
<1> USE DurableAssumption
<1>1. CASE FlushWrites /\ tree = {}
  <2>1. /\ bg = "none" /\ Idle /\ pc' = "swapped" /\ clean' = FALSE
        /\ UNCHANGED <<up, tree, files, nextFileId, bg, bgTree, bgSrcFiles, out, src, dying, slots,
                       live, onDisk, metaTree, metaNew, metaFiles, metaManifest, manifest,
                       deleted>>
    BY <1>1 DEF FlushWrites, Step, diskVars, metaVars, manifests
  <2> QED
    BY <2>1 DEF DurableInv, Idle, TypeOK, SameEntries, WorkList, OutputApart, Down, CounterAhead,
                AllOnDisk, IdsFresh
<1>2. CASE FlushWrites /\ tree # {}
  <2> DEFINE T == Touched(tree)
  <2>1. /\ bg = "none" /\ Idle /\ pc' = "written" /\ clean' = FALSE
        /\ nextFileId \in Id /\ out' = nextFileId /\ nextFileId' = nextFileId + 1 /\ src' = T
        /\ WriteFile(nextFileId, tree \cup Recs(T))
        /\ UNCHANGED <<up, tree, files, bg, bgTree, bgSrcFiles, dying, metaTree, metaNew, metaFiles,
                       metaManifest, manifest, deleted>>
    BY <1>2 DEF FlushWrites, Step, metaVars, manifests
  <2>2. tree \cup Recs(T) \subseteq Key /\ T \subseteq files
    BY RecsType, TouchedFiles DEF DurableInv, TypeOK
  <2>3. /\ slots' \in [Id -> SUBSET Key] /\ live' \in [Id -> SUBSET Key]
        /\ onDisk' \subseteq Id /\ onDisk' = onDisk \cup {nextFileId}
    BY <2>1, <2>2, WriteTypes DEF DurableInv
  <2> HIDE DEF T
  <2>4. TypeOK'
    <3>1. nextFileId + 1 \in 1..(MaxId + 1)
      BY <2>1 DEF Id
    <3> QED  BY <2>1, <2>2, <2>3, <3>1 DEF DurableInv, TypeOK
  <2>5. SameEntries' /\ WorkList' /\ Down' /\ AllOnDisk' /\ CounterAhead'
    BY <2>1, <2>2, <2>3 DEF DurableInv, Idle, SameEntries, WorkList, Down, AllOnDisk, CounterAhead
  <2>6. /\ nextFileId' > nextFileId /\ nextFileId \in Nat /\ bgSrcFiles = {}
        /\ \A f \in files : f < nextFileId /\ f \in Nat
    BY <2>1 DEF DurableInv, Idle, TypeOK, OutputApart, IdsFresh, Id
  <2>7. OutputApart'
    BY <2>1, <2>3, <2>6 DEF DurableInv, Idle, OutputApart
  <2>8. IdsFresh'
    BY <2>1, <2>6 DEF IdsFresh
  <2> QED  BY <2>4, <2>5, <2>7, <2>8 DEF DurableInv
<1>3. CASE FlushEnds
  <2>1. /\ up /\ pc = "written" /\ pc' = "swapped" /\ tree' = {} /\ out' = None
        /\ src = {} /\ dying = {}
        /\ files' = files \cup {out} /\ metaTree' = metaTree \cup {out}
        /\ UNCHANGED <<up, nextFileId, bg, bgTree, bgSrcFiles, src, dying, slots, live, onDisk,
                       metaNew, metaFiles, metaManifest, manifest, clean, deleted>>
    BY <1>3 DEF FlushEnds, Step, work, diskVars, manifests, history
  <2>2. out \in Id /\ bg = "none" /\ bgSrcFiles = {}
    BY <2>1 DEF DurableInv, OutputApart
  <2>3. TypeOK'
    BY <2>1, <2>2 DEF DurableInv, TypeOK
  <2> QED
    BY <2>1, <2>2, <2>3 DEF DurableInv, SameEntries, WorkList, OutputApart, Down,
                            CounterAhead, AllOnDisk, IdsFresh
<1> QED  BY <1>1, <1>2, <1>3

LEMMA ManifestsKeep ==
  ASSUME DurableInv, MetaFlush \/ MetaRemove \/ MetaRename \/ MainRemove \/ MainRename
  PROVE  DurableInv'
<1> USE DEF DurableInv, TypeOK, SameEntries, WorkList, OutputApart, Down, CounterAhead, AllOnDisk,
            IdsFresh, Step, bgVars, work, diskVars, metaVars, manifests, history
<1>1. CASE MetaFlush
  BY <1>1 DEF MetaFlush
<1>2. CASE MetaRemove
  BY <1>2 DEF MetaRemove
<1>3. CASE MetaRename
  BY <1>3 DEF MetaRename
<1>4. CASE MainRemove
  BY <1>4, DurableAssumption DEF MainRemove, None
<1>5. CASE MainRename
  <2>1. manifest' \in 0..(MaxId + 1)
    BY <1>5, DurableAssumption DEF MainRename
  <2>2. TypeOK'
    BY <1>5, <2>1 DEF MainRename
  <2> QED  BY <1>5, <2>2 DEF MainRename
<1> QED  BY <1>1, <1>2, <1>3, <1>4, <1>5

\* Between the two manifests no checkpoint fails and no process ends.
LEMMA EndsKeep ==
  ASSUME "metaDone" \notin FaultAt, DurableInv,
         CheckpointFails \/ TSClose \/ Crash \/ TSOpen \/ UNCHANGED vars
  PROVE  DurableInv'
<1> USE DEF DurableInv, TypeOK, SameEntries, WorkList, OutputApart, Down, CounterAhead, AllOnDisk,
            IdsFresh, bgVars, work, diskVars, metaVars, manifests, history
<1>1. CASE CheckpointFails
  BY <1>1 DEF CheckpointFails, Step
<1>2. CASE TSClose \/ Crash
  <2>1. Gone /\ pc # "metaDone"
    BY <1>2 DEF TSClose, Crash, Idle
  <2>2. 1 \in 1..(MaxId + 1)
    BY DurableAssumption
  <2> QED  BY <2>1, <2>2 DEF Gone
<1>3. CASE TSOpen
  <2>1. manifest \in 1..(MaxId + 1)
    BY <1>3, DurableAssumption DEF TSOpen, None
  <2> QED  BY <1>3, <2>1 DEF TSOpen
<1>4. CASE UNCHANGED vars
  BY <1>4 DEF vars
<1> QED  BY <1>1, <1>2, <1>3, <1>4

LEMMA StepKeepsDurable ==
  ASSUME "metaDone" \notin FaultAt, DurableInv, [Next]_vars
  PROVE  DurableInv'
BY CallsKeep, MergeStepKeeps, SourcesKeep, FlushKeeps, ManifestsKeep, EndsKeep DEF Next, Checkpoint

-----------------------------------------------------------------------------

\* The registry a next process reads names only files that exist, wherever a process
\* ends: TSI_PrepMergeJob and TSI_RemoveFiles take a file's entry out of the
\* meta-store before anybody removes the file.
THEOREM RegistryExists ==
  ASSUME "metaDone" \notin FaultAt
  PROVE  Spec => []NamedFilesExist
<1>1. DurableInv /\ [Next]_vars => DurableInv'
  BY StepKeepsDurable
<1>2. DurableInv => NamedFilesExist
  BY DEF DurableInv, AllOnDisk, NamedFilesExist
<1> QED  BY InitDurable, <1>1, <1>2, PTL DEF Spec

\* A checkpoint that ends between its two manifests is the only way to an id that is
\* given out twice: without it no file the store reads has an id that MakeOutputDesc
\* will give out again, whatever else crashes or fails.
THEOREM IdsNeverRepeat ==
  ASSUME "metaDone" \notin FaultAt
  PROVE  Spec => []IdsFresh
<1>1. DurableInv /\ [Next]_vars => DurableInv'
  BY StepKeepsDurable
<1>2. DurableInv => IdsFresh
  BY DEF DurableInv
<1> QED  BY InitDurable, <1>1, <1>2, PTL DEF Spec

-----------------------------------------------------------------------------
(* What the next process finds.                                            *)

\* A checkpoint empties the tree, then the meta-store, and leaves a store that is
\* settled: until something is inserted or merged, everything it has is on disk.
Settled ==
  /\ clean => /\ pc = "idle" /\ tree = {} /\ bg = "none" /\ metaTree = {} /\ metaNew = {}
              /\ src = {} /\ dying = {}
              /\ metaManifest /\ manifest # None
  /\ pc \notin {"idle", "written"} => tree = {}
  /\ pc \in {"metaFlushed", "metaGone", "metaDone", "mainGone"} => metaTree = {}
  /\ pc \in {"metaDone", "mainGone"} => metaNew = {} /\ metaManifest
  /\ bg = "none" => bgTree = {}
  /\ ~up => tree = {}

\* The output of a merge, or of the flush, holds no deleted record.
Written == bg = "written" \/ pc = "written" => live[out] \cap deleted = {}

\* A deleted record is in no tree and has no live slot in a file anybody may read.
Forgotten ==
  /\ up => deleted \cap Content = {}
  /\ deleted \cap Recs(metaFiles) = {}

RecordsInv == Settled /\ Written /\ Forgotten

LEMMA ForgottenMeans ==
  Forgotten <=> /\ up => /\ \A k \in deleted : k \notin tree /\ k \notin bgTree
                         /\ \A f \in files \cup bgSrcFiles : \A k \in deleted : k \notin live[f]
                /\ \A f \in metaFiles : \A k \in deleted : k \notin live[f]
BY DEF Forgotten, Content, Recs

LEMMA InitRecords == Init => RecordsInv
BY DEF Init, RecordsInv, Settled, Written, Forgotten, Content, Recs

\* A step after which no readable file, and no tree, has more than before.
LEMMA ForgottenKept ==
  ASSUME DurableInv, Forgotten, deleted' \subseteq deleted, up',
         tree' \cup bgTree' \subseteq tree \cup bgTree, up,
         \A f \in files' \cup bgSrcFiles' : live'[f] \subseteq Content, metaFiles' \subseteq files'
  PROVE  Forgotten'
<1>1. \A k \in deleted : k \notin Content
  BY DEF Forgotten
<1>2. Content' \subseteq Content
  <2>1. \A f \in files' \cup bgSrcFiles' : \A k \in live'[f] : k \in Content
    OBVIOUS
  <2>2. (Recs(files \cup bgSrcFiles))' \subseteq Content
    BY <2>1 DEF Recs
  <2>3. tree' \cup bgTree' \subseteq Content
    BY DEF Content
  <2> QED  BY <2>2, <2>3 DEF Content
<1>3. Recs(metaFiles)' \subseteq Content
  BY DEF Recs
<1> QED  BY <1>1, <1>2, <1>3 DEF Forgotten

LEMMA CallsForget ==
  ASSUME DurableInv, RecordsInv, NEW k \in Key, Insert(k) \/ Delete(k)
  PROVE  RecordsInv'
<1>1. CASE Insert(k)
  <2>1. /\ Idle /\ tree' = tree \cup {k} /\ clean' = FALSE /\ deleted' = deleted \ {k}
        /\ UNCHANGED <<up, pc, files, bg, bgTree, bgSrcFiles, out, src, dying, live, metaTree,
                       metaNew, metaFiles, metaManifest, manifest>>
    BY <1>1 DEF Insert, bgVars, work, diskVars, metaVars, manifests
  <2>2. Settled'
    BY <2>1 DEF RecordsInv, Settled, Idle
  <2>3. Written'
    BY <2>1 DEF RecordsInv, Written, Idle, Recs
  <2>4. Forgotten'
    <3>1. Recs(files \cup bgSrcFiles)' = Recs(files \cup bgSrcFiles)
      BY <2>1 DEF Recs
    <3>2. Recs(metaFiles)' = Recs(metaFiles)
      BY <2>1 DEF Recs
    <3> QED  BY <2>1, <3>1, <3>2 DEF RecordsInv, Forgotten, Content
  <2> QED  BY <2>2, <2>3, <2>4 DEF RecordsInv
<1>2. CASE Delete(k)
  <2>1. /\ Idle /\ bg = "none" /\ tree' = tree \ {k} /\ deleted' = deleted \cup {k}
        /\ live' = [f \in Id |-> IF f \in files THEN live[f] \ {k} ELSE live[f]]
        /\ UNCHANGED <<up, pc, files, bg, bgTree, bgSrcFiles, out, src, dying, metaTree, metaNew,
                       metaFiles, metaManifest, manifest, clean>>
    BY <1>2 DEF Delete, bgVars, work, metaVars, manifests
  <2>2. Settled'
    BY <2>1 DEF RecordsInv, Settled, Idle
  <2>3. Written'
    BY <2>1 DEF RecordsInv, Written, Idle
  <2>4. bgTree = {} /\ bgSrcFiles = {} /\ metaFiles \subseteq files /\ files \subseteq Id /\ up
    BY <2>1 DEF RecordsInv, Settled, DurableInv, OutputApart, SameEntries, Idle, TypeOK
  <2>5. \A f \in files : live'[f] = live[f] \ {k}
    BY <2>1, <2>4
  <2>6. \A f \in files' : \A j \in deleted' : j \notin live'[f]
    BY <2>1, <2>5, ForgottenMeans DEF RecordsInv, Idle
  <2>7. \A j \in deleted' : j \notin tree' /\ j \notin bgTree'
    BY <2>1, <2>4, ForgottenMeans DEF RecordsInv
  <2>8. Forgotten'
    BY <2>1, <2>4, <2>6, <2>7 DEF Forgotten, Content, Recs
  <2> QED  BY <2>2, <2>3, <2>8 DEF RecordsInv
<1> QED  BY <1>1, <1>2

LEMMA MergeForgets ==
  ASSUME DurableInv, RecordsInv, Launch \/ RunSlice \/ Finalize
  PROVE  RecordsInv'
<1>1. CASE Launch
  <2> DEFINE T == Touched(tree)
  <2>1. T \subseteq files
    BY TouchedFiles
  <2> HIDE DEF T
  <2>2. /\ Idle /\ bg = "none" /\ bg' = "launched"
        /\ bgTree' = tree /\ tree' = {} /\ bgSrcFiles' = T /\ files' = files \ T
        /\ clean' = FALSE
        /\ UNCHANGED <<up, pc, live, metaTree, metaNew, metaFiles, metaManifest, manifest, deleted>>
    BY <1>1 DEF Launch, diskVars, metaVars, manifests, T
  <2>3. Settled' /\ Written'
    BY <2>2 DEF RecordsInv, Settled, Written, Idle
  <2>4. Content' = Content
    BY <2>1, <2>2 DEF Content, Recs, DurableInv, OutputApart, RecordsInv, Settled
  <2>5. Recs(metaFiles)' = Recs(metaFiles)
    BY <2>2 DEF Recs
  <2>6. Forgotten'
    BY <2>2, <2>4, <2>5 DEF RecordsInv, Forgotten
  <2> QED  BY <2>3, <2>6 DEF RecordsInv
<1>2. CASE RunSlice
  <2> DEFINE R == bgTree \cup Recs(bgSrcFiles)
  <2>1. /\ up /\ bg = "launched" /\ bg' = "written" /\ src = {}
        /\ live' = [live EXCEPT ![out] = R]
        /\ UNCHANGED <<up, pc, tree, files, bgTree, bgSrcFiles, out, src, dying, metaTree, metaNew,
                       metaFiles, metaManifest, manifest, clean, deleted>>
    BY <1>2 DEF RunSlice, WriteFile, work, metaVars, manifests, history
  <2>2. /\ out \notin files \cup bgSrcFiles /\ pc = "idle" /\ files \cup bgSrcFiles \subseteq Id
        /\ out \in Id /\ live \in [Id -> SUBSET Key] /\ metaFiles \subseteq files
    BY <2>1 DEF DurableInv, OutputApart, SameEntries, TypeOK
  <2>3. live'[out] = R /\ \A f \in files \cup bgSrcFiles : live'[f] = live[f]
    BY <2>1, <2>2
  <2>4. Settled'
    BY <2>1 DEF RecordsInv, Settled
  <2>5. Written'
    <3>1. R \subseteq Content
      BY DEF Content, Recs
    <3> QED  BY <2>1, <2>3, <3>1 DEF RecordsInv, Forgotten, Written
  <2>6. \A f \in files' \cup bgSrcFiles' : live'[f] \subseteq Content
    BY <2>1, <2>3 DEF Content, Recs
  <2>7. Forgotten'
    BY <2>1, <2>2, <2>6, ForgottenKept DEF RecordsInv
  <2> QED  BY <2>4, <2>5, <2>7 DEF RecordsInv
<1>3. CASE Finalize
  <2>1. /\ Idle /\ bg = "written" /\ bg' = "none" /\ files' = files \cup {out}
        /\ metaTree' = metaTree \cup {out} /\ bgTree' = {} /\ bgSrcFiles' = {}
        /\ UNCHANGED <<up, pc, tree, src, live, metaNew, metaFiles, metaManifest, manifest, clean,
                       deleted>>
    BY <1>3 DEF Finalize, diskVars, manifests, history
  <2>2. Settled' /\ Written'
    BY <2>1 DEF RecordsInv, Settled, Written, Idle
  <2>3. \A k \in deleted : k \notin tree /\ \A f \in files \cup {out} : k \notin live[f]
    BY <2>1, ForgottenMeans DEF RecordsInv, Written, Idle
  <2>4. Recs(metaFiles)' = Recs(metaFiles)
    BY <2>1 DEF Recs
  <2>5. Forgotten'
    BY <2>1, <2>3, <2>4 DEF RecordsInv, Forgotten, Content, Recs
  <2> QED  BY <2>2, <2>5 DEF RecordsInv
<1> QED  BY <1>1, <1>2, <1>3

LEMMA SourcesForget ==
  ASSUME DurableInv, RecordsInv, NEW f \in Id, Forget(f) \/ RemoveFile(f)
  PROVE  RecordsInv'
<1>1. CASE Forget(f)
  <2>1. /\ up /\ src # {} /\ metaTree' \subseteq metaTree /\ metaNew' \subseteq metaNew
        /\ metaFiles' \subseteq metaFiles
        /\ UNCHANGED <<up, pc, tree, files, bg, bgTree, bgSrcFiles, out, live, metaManifest,
                       manifest, clean, deleted>>
    BY <1>1 DEF Forget, Unregister, bgVars, diskVars, manifests, history
  <2>2. Settled'
    BY <2>1 DEF RecordsInv, Settled
  <2>3. Written'
    BY <2>1 DEF RecordsInv, Written
  <2>4. Forgotten'
    BY <2>1 DEF RecordsInv, Forgotten, Content, Recs
  <2> QED  BY <2>2, <2>3, <2>4 DEF RecordsInv
<1>2. CASE RemoveFile(f)
  <2>1. /\ up /\ dying # {} /\ files' = files \ {f} /\ live' = [live EXCEPT ![f] = {}]
        /\ UNCHANGED <<up, pc, tree, bg, bgTree, bgSrcFiles, out, metaTree, metaNew, metaFiles,
                       metaManifest, manifest, clean, deleted>>
    BY <1>2 DEF RemoveFile, bgVars, metaVars, manifests, history
  <2>2. live \in [Id -> SUBSET Key] /\ files \cup bgSrcFiles \cup metaFiles \subseteq Id
    BY DEF DurableInv, TypeOK
  <2>3. \A g \in Id : live'[g] \subseteq live[g]
    BY <2>1, <2>2
  <2>4. Settled'
    BY <2>1 DEF RecordsInv, Settled
  <2>5. Written'
    BY <2>1, <2>3 DEF DurableInv, OutputApart, RecordsInv, Written
  <2>6. Forgotten'
    BY <2>1, <2>2, <2>3 DEF RecordsInv, Forgotten, Content, Recs
  <2> QED  BY <2>4, <2>5, <2>6 DEF RecordsInv
<1> QED  BY <1>1, <1>2

LEMMA FlushForgets ==
  ASSUME DurableInv, RecordsInv, FlushWrites \/ FlushEnds
  PROVE  RecordsInv'
<1>0. Touched(tree) \subseteq files
  BY TouchedFiles
<1>1. CASE FlushWrites /\ tree = {}
  <2>1. /\ bg = "none" /\ up /\ pc = "idle" /\ pc' = "swapped" /\ clean' = FALSE
        /\ UNCHANGED <<up, tree, files, bg, bgTree, bgSrcFiles, live, metaFiles, deleted>>
    BY <1>1 DEF FlushWrites, Step, diskVars, metaVars
  <2>2. Forgotten'
    BY <2>1 DEF RecordsInv, Forgotten, Content, Recs
  <2> QED  BY <1>1, <2>1, <2>2 DEF RecordsInv, Settled, Written
<1>2. CASE FlushWrites /\ tree # {}
  <2> DEFINE R == tree \cup Recs(Touched(tree))
             n == nextFileId
  <2>1. /\ bg = "none" /\ up /\ pc = "idle" /\ pc' = "written" /\ clean' = FALSE
        /\ out' = n /\ n \in Id /\ live' = [live EXCEPT ![n] = R]
        /\ UNCHANGED <<up, tree, files, bg, bgTree, bgSrcFiles, metaFiles, deleted>>
    BY <1>2 DEF FlushWrites, WriteFile, Step, metaVars
  <2>2. src = {} /\ dying = {}
    BY <1>2 DEF FlushWrites, Idle
  <2>3. /\ files \subseteq Id /\ bgSrcFiles = {} /\ n \notin files
        /\ live \in [Id -> SUBSET Key] /\ metaFiles \subseteq files
    BY <2>1, <2>2 DEF DurableInv, OutputApart, SameEntries, TypeOK, IdsFresh, Id
  <2>4. live'[n] = R /\ \A f \in files : live'[f] = live[f]
    BY <2>1, <2>3
  <2> HIDE DEF n
  <2>5. R \subseteq Content
    BY <1>0 DEF Content, Recs
  <2>6. Written'
    BY <2>1, <2>4, <2>5 DEF RecordsInv, Forgotten, Written
  <2>7. Settled'
    BY <2>1 DEF RecordsInv, Settled
  <2>8. \A f \in files' \cup bgSrcFiles' : live'[f] \subseteq Content
    BY <2>1, <2>3, <2>4 DEF Content, Recs
  <2>9. Forgotten'
    BY <2>1, <2>3, <2>8, ForgottenKept DEF RecordsInv
  <2> QED  BY <2>6, <2>7, <2>9 DEF RecordsInv
<1>3. CASE FlushEnds
  <2>1. /\ up /\ pc = "written" /\ pc' = "swapped" /\ tree' = {} /\ files' = files \cup {out}
        /\ UNCHANGED <<up, bg, bgTree, bgSrcFiles, live, metaFiles, clean, deleted>>
    BY <1>3 DEF FlushEnds, Step, diskVars, history
  <2>2. Settled' /\ Written'
    BY <2>1 DEF DurableInv, OutputApart, RecordsInv, Settled, Written
  <2>3. \A k \in deleted : k \notin bgTree /\ \A f \in files \cup {out} \cup bgSrcFiles : k \notin live[f]
    BY <2>1, ForgottenMeans DEF RecordsInv, Written
  <2>4. Recs(metaFiles)' = Recs(metaFiles)
    BY <2>1 DEF Recs
  <2>5. Forgotten'
    BY <2>1, <2>3, <2>4 DEF RecordsInv, Forgotten, Content, Recs
  <2> QED  BY <2>2, <2>5 DEF RecordsInv
<1> QED  BY <1>1, <1>2, <1>3

LEMMA ManifestsForget ==
  ASSUME DurableInv, RecordsInv, MetaFlush \/ MetaRemove \/ MetaRename \/ MainRemove \/ MainRename
  PROVE  RecordsInv'
<1>1. /\ up /\ up' /\ pc # "idle" /\ pc' # "written" /\ pc # "written"
      /\ UNCHANGED <<tree, files, bg, bgTree, bgSrcFiles, src, dying, live, deleted>>
  BY DEF work, MetaFlush, MetaRemove, MetaRename, MainRemove, MainRename, Step, bgVars, diskVars, history
<1>2. bg = "none" /\ clean = FALSE /\ src = {} /\ dying = {}
  BY <1>1 DEF DurableInv, OutputApart, WorkList, RecordsInv, Settled, TypeOK
<1>3. Settled'
  <2>1. CASE MetaFlush \/ MetaRemove \/ MetaRename \/ MainRemove
    BY <1>1, <1>2, <2>1 DEF RecordsInv, Settled, MetaFlush, MetaRemove, MetaRename, MainRemove, Step,
                            metaVars, manifests, history
  <2>2. CASE MainRename
    <3>1. nextFileId # None
      BY DurableAssumption DEF DurableInv, TypeOK, None
    <3> QED  BY <1>1, <1>2, <2>2, <3>1 DEF RecordsInv, Settled, MainRename, Step, metaVars
  <2> QED  BY <2>1, <2>2
<1>4. Written'
  BY <1>1, <1>2 DEF Written
<1>5. metaFiles' \subseteq files
  BY <1>1, <1>2 DEF MetaFlush, MetaRemove, MetaRename, MainRemove, MainRename, metaVars, DurableInv, SameEntries
<1>6. \A f \in files' \cup bgSrcFiles' : live'[f] \subseteq Content
  BY <1>1 DEF Content, Recs
<1>7. Forgotten'
  BY <1>1, <1>5, <1>6, ForgottenKept DEF RecordsInv
<1> QED  BY <1>3, <1>4, <1>7 DEF RecordsInv

LEMMA EndsForget ==
  ASSUME DurableInv, RecordsInv, CheckpointFails \/ TSClose \/ Crash \/ TSOpen \/ UNCHANGED vars
  PROVE  RecordsInv'
<1>1. CASE CheckpointFails
  <2>1. /\ up /\ pc # "idle" /\ pc # "written" /\ pc' = "idle"
        /\ UNCHANGED <<up, tree, files, bgVars, work, diskVars, metaVars, manifests, history>>
    BY <1>1 DEF CheckpointFails, Step
  <2>2. clean = FALSE /\ bg = "none"
    BY <2>1 DEF DurableInv, OutputApart, RecordsInv, Settled, TypeOK
  <2> QED
    BY <2>1, <2>2 DEF RecordsInv, Settled, Written, Forgotten, Content, Recs, bgVars, work, diskVars,
                      metaVars, manifests, history
<1>2. CASE TSClose \/ Crash
  <2>1. /\ up' = FALSE /\ pc' = "idle" /\ tree' = {} /\ bgTree' = {} /\ bgSrcFiles' = {} /\ bg' = "none"
        /\ metaTree' = {} /\ metaNew' = {} /\ src' = {} /\ dying' = {}
        /\ UNCHANGED <<live, metaFiles, metaManifest, manifest, clean, deleted>>
    BY <1>2 DEF TSClose, Crash, Gone, diskVars, manifests, history
  <2> QED
    BY <2>1 DEF RecordsInv, Settled, Written, Forgotten, Recs
<1>3. CASE TSOpen
  <2>1. /\ ~up /\ files' = metaFiles
        /\ UNCHANGED <<pc, tree, bg, bgTree, bgSrcFiles, out, src, dying, live, metaTree, metaNew,
                       metaFiles, metaManifest, manifest, clean, deleted>>
    BY <1>3 DEF TSOpen, bgVars, work, diskVars, metaVars, manifests, history
  <2>2. tree = {} /\ bgTree = {} /\ bgSrcFiles = {} /\ bg = "none" /\ pc = "idle"
    BY <2>1 DEF DurableInv, Down, RecordsInv, Settled
  <2>3. Settled' /\ Written'
    BY <2>1, <2>2 DEF RecordsInv, Settled, Written
  <2>4. Forgotten'
    BY <2>1, <2>2 DEF RecordsInv, Forgotten, Content, Recs
  <2> QED  BY <2>3, <2>4 DEF RecordsInv
<1>4. CASE UNCHANGED vars
  BY <1>4 DEF vars, RecordsInv, Settled, Written, Forgotten, Content, Recs, bgVars, work,
              diskVars, metaVars, manifests, history
<1> QED  BY <1>1, <1>2, <1>3, <1>4

LEMMA RecordsStep ==
  ASSUME DurableInv, RecordsInv, [Next]_vars
  PROVE  RecordsInv'
BY CallsForget, MergeForgets, SourcesForget, FlushForgets, ManifestsForget, EndsForget DEF Next, Checkpoint

\* From the end of a checkpoint until the next insert, merge or checkpoint, whatever is
\* deleted, a next process finds exactly the records this one holds: TSCheckpoint empties the tree, then the
\* meta-store, and only then writes the main manifest, and TSDelete writes through.
THEOREM ReopenIsExact ==
  ASSUME "metaDone" \notin FaultAt
  PROVE  Spec => []ReopenExact
<1>1. DurableInv /\ RecordsInv /\ [Next]_vars => DurableInv' /\ RecordsInv'
  BY StepKeepsDurable, RecordsStep
<1>2. DurableInv /\ RecordsInv => ReopenExact
  BY DEF DurableInv, SameEntries, OutputApart, RecordsInv, Settled, ReopenExact, Recovered, Content, Recs
<1> QED  BY InitDurable, InitRecords, <1>1, <1>2, PTL DEF Spec

\* A record that was deleted comes back neither in the running store nor in the next one,
\* wherever a process ends but between the two manifests: no merge writes it again, and
\* no file with a live slot of it is named.
THEOREM DeletedStayDeleted ==
  ASSUME "metaDone" \notin FaultAt
  PROVE  Spec => []NothingReturns
<1>1. DurableInv /\ RecordsInv /\ [Next]_vars => DurableInv' /\ RecordsInv'
  BY StepKeepsDurable, RecordsStep
<1>2. RecordsInv => NothingReturns
  BY DEF RecordsInv, Forgotten, NothingReturns, Recovered
<1> QED  BY InitDurable, InitRecords, <1>1, <1>2, PTL DEF Spec
=============================================================================
