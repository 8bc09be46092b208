------------------------ MODULE TieredStoreFilesProofs ------------------------
(***************************************************************************)
(* The files of the tiered store under flushes, merges, failing slices and *)
(* open iterators: no file is lost sight of, no two overlap, an iterator   *)
(* returns what the store held when it was opened, and the store is a map. *)
(***************************************************************************)
EXTENDS TieredStoreProofs

-----------------------------------------------------------------------------
(* Who refers to a file.                                                   *)

Snapped == UNION {iter[i].snap : i \in Iter}

\* An iterator reads files of its snapshot, and nobody has removed them.
Holds ==
  \A i \in Iter : /\ iter[i].held \subseteq iter[i].snap \cap onDisk
                  /\ ~iter[i].open => iter[i].snap = {}

\* The outputs of the merge in flight are new: no iterator has seen them.
NewOutputs == toRegister \subseteq onDisk /\ toRegister \cap Snapped = {}

\* Unless a slice has failed, a source is merged or its slice is still to come.
Awaited ==
  ~anyFailed => \A f \in bgSrcFiles : f \in mergedSrcs \/ \E s \in Pending : s.src = f

FilesInv ==
  /\ TypeOK /\ Merging /\ Owners /\ Quiet
  /\ Awaited /\ NewOutputs /\ Holds /\ NoOrphanFile

LEMMA NoOrphanIs ==
  NoOrphanFile <=> onDisk \subseteq files \cup bgSrcFiles \cup toRegister \cup Snapped
BY DEF NoOrphanFile, Snapped

LEMMA HeldSnapped ==
  ASSUME Holds, NEW f, HeldByIter(f)
  PROVE  f \in Snapped
BY DEF Holds, HeldByIter, Snapped

\* Between merges there is nothing but the registry and the iterators.
LEMMA IdleFiles ==
  ASSUME FilesInv, ~bgPending
  PROVE  /\ job # "merging" /\ bgTree = Empty /\ bgSrcFiles = {} /\ toRegister = {}
         /\ queued = {} /\ running = {} /\ mergedSrcs = {} /\ ~anyFailed
         /\ onDisk \subseteq files \cup Snapped
BY NoOrphanIs DEF FilesInv, Merging, Owners, Quiet, Pending

\* A step that leaves files, slices and iterators alone.
LEMMA FilesSame ==
  ASSUME FilesInv, UNCHANGED <<bgTree, onDisk, files, bgSrcFiles, jobVars, iter>>
  PROVE  Merging' /\ Owners' /\ Quiet' /\ Awaited' /\ NewOutputs' /\ Holds' /\ NoOrphanFile'
BY DEF FilesInv, Merging, Owners, Quiet, Awaited, NewOutputs, Holds, NoOrphanFile, Snapped,
       Pending, jobVars, sliceVars

\* The start of a merge hands its sources from the registry to the merge.
LEMMA LaunchFiles ==
  ASSUME NEW t, NEW rest, NEW fs \in SUBSET FileId, NEW d, Launch(t, rest, fs, d)
  PROVE  /\ Merging' /\ Owners' /\ Quiet' /\ Awaited'
         /\ files' \cup bgSrcFiles' = fs /\ toRegister' = {}
<1>1. PICK plan \in Plans(t, fs, d) :
        /\ bgTree' = t /\ memTree' = rest
        /\ files' = fs \ Sources(plan) /\ bgSrcFiles' = Sources(plan)
        /\ queued' = plan /\ running' = {} /\ toRegister' = {} /\ mergedSrcs' = {}
        /\ anyFailed' = FALSE /\ bgPending' = TRUE /\ job' = "merging"
  BY DEF Launch
<1>2. /\ Sources(plan) \subseteq fs
      /\ \A s \in plan : s.src \in Sources(plan) \cup {NoFile}
  BY PlanType
<1>3. Pending' = plan
  BY <1>1 DEF Pending
<1>4. \A f \in Sources(plan) : \E s \in plan : s.src = f
  BY DEF Sources
<1> QED  BY <1>1, <1>2, <1>3, <1>4 DEF Merging, Owners, Quiet, Awaited

LEMMA InsertFiles ==
  ASSUME FilesInv, NewInsert \/ Resume
  PROVE  Merging' /\ Owners' /\ Quiet' /\ Awaited' /\ NewOutputs' /\ Holds' /\ NoOrphanFile'
<1>1. ASSUME NEW t, NEW rest, Launch(t, rest, files, disk), ~bgPending,
             UNCHANGED <<disk, onDisk, iter>>
      PROVE  Merging' /\ Owners' /\ Quiet' /\ Awaited' /\ NewOutputs' /\ Holds' /\ NoOrphanFile'
  <2>1. files \in SUBSET FileId
    BY DEF FilesInv, TypeOK
  <2>2. /\ Merging' /\ Owners' /\ Quiet' /\ Awaited'
        /\ files' \cup bgSrcFiles' = files /\ toRegister' = {}
    BY <1>1, <2>1, LaunchFiles
  <2>3. onDisk \subseteq files \cup Snapped
    BY <1>1, IdleFiles
  <2>4. Holds' /\ NewOutputs'
    BY <1>1, <2>2 DEF FilesInv, Holds, NewOutputs
  <2>5. NoOrphanFile'
    BY <1>1, <2>2, <2>3 DEF NoOrphanFile, Snapped
  <2> QED  BY <2>2, <2>4, <2>5
<1>2. ASSUME NEW k \in Key, NEW v \in Val, Put(k, v), iter' = iter
      PROVE  Merging' /\ Owners' /\ Quiet' /\ Awaited' /\ NewOutputs' /\ Holds' /\ NoOrphanFile'
  <2> DEFINE t == [memTree EXCEPT ![k] = Combine(@, {v})]
  <2>1. CASE ~bgPending /\ Launch(t, Empty, files, disk) /\ UNCHANGED <<disk, onDisk>>
    BY <1>1, <1>2, <2>1
  <2>2. CASE UNCHANGED <<bgTree, fileVars, jobVars>>
    BY <1>2, <2>2, FilesSame DEF fileVars
  <2> QED  BY <1>2, <2>1, <2>2 DEF Put
<1>3. ASSUME NEW k \in Key, NEW v \in Val, FlushAndPut(k, v), iter' = iter
      PROVE  Merging' /\ Owners' /\ Quiet' /\ Awaited' /\ NewOutputs' /\ Holds' /\ NoOrphanFile'
  BY <1>1, <1>2, <1>3 DEF FlushAndPut
<1>4. ASSUME NEW k \in Key, NEW v \in Val, InsertWaits(k, v)
      PROVE  Merging' /\ Owners' /\ Quiet' /\ Awaited' /\ NewOutputs' /\ Holds' /\ NoOrphanFile'
  BY <1>4, FilesSame DEF InsertWaits, treeVars, fileVars
<1> QED  BY <1>2, <1>3, <1>4
         DEF NewInsert, Resume, Insert, InsertFlushes, InsertResumes, callerVars

\* Under the store lock a file goes only if no iterator reads it, and what a flush
\* writes gets names that nobody uses.
LEMMA RewriteFiles ==
  ASSUME FilesInv, ~bgPending, NEW plan \in Plans(memTree, files, disk),
         NEW c \in Naming(PlanOutputs(memTree, plan, disk)), FlushRewrites(plan, c)
  PROVE  /\ onDisk' \subseteq files' \cup Snapped
         /\ \A f \in onDisk : HeldByIter(f) => f \in onDisk'
         /\ DOMAIN c \cap (onDisk \cup files \cup Snapped) = {} /\ DOMAIN c \subseteq FileId
         /\ files' \subseteq (files \ Sources(plan)) \cup DOMAIN c
<1>1. PlanOutputs(memTree, plan, disk) \in SUBSET File
  BY PlanOutputsType DEF FilesInv, TypeOK
<1>2. DOMAIN c \subseteq Unused
  BY <1>1, NamingFacts
<1>3. DOMAIN c \cap (onDisk \cup files \cup Snapped) = {} /\ DOMAIN c \subseteq FileId
  BY <1>2 DEF Unused, Snapped
<1>4. onDisk \subseteq files \cup Snapped /\ running = {}
  BY IdleFiles
<1>5. \A f : ~Removable(f) => HeldByIter(f)
  BY <1>4 DEF Removable, HeldBySlice
<1>6. \A f : HeldByIter(f) => f \in Snapped
  BY HeldSnapped DEF FilesInv
<1>7. onDisk' \subseteq files' \cup Snapped
  BY <1>4, <1>5, <1>6 DEF FlushRewrites
<1>8. \A f \in onDisk : HeldByIter(f) => f \in onDisk'
  BY DEF FlushRewrites, Removable
<1> QED  BY <1>3, <1>7, <1>8 DEF FlushRewrites

LEMMA FlushFiles ==
  ASSUME FilesInv, ~bgPending, FlushMemTree
  PROVE  /\ onDisk' \subseteq files' \cup Snapped
         /\ \A f \in onDisk : HeldByIter(f) => f \in onDisk'
<1>1. CASE memTree = Empty
  BY <1>1, IdleFiles DEF FlushMemTree
<1>2. CASE memTree # Empty
  BY <1>2, RewriteFiles DEF FlushMemTree
<1> QED  BY <1>1, <1>2

\* A step of the callers on the files, between merges.
LEMMA CallerFiles ==
  ASSUME FilesInv, ~bgPending, UNCHANGED <<bgTree, bgSrcFiles, jobVars>>,
         Snapped \subseteq Snapped', onDisk' \subseteq files' \cup Snapped', Holds'
  PROVE  Merging' /\ Owners' /\ Quiet' /\ Awaited' /\ NewOutputs' /\ Holds' /\ NoOrphanFile'
<1>1. /\ job' # "merging" /\ bgTree' = Empty /\ bgSrcFiles' = {} /\ toRegister' = {}
      /\ queued' = {} /\ running' = {} /\ mergedSrcs' = {} /\ ~anyFailed'
  BY IdleFiles DEF jobVars, sliceVars
<1>2. NoOrphanFile'
  BY NoOrphanIs DEF NoOrphanFile, Snapped
<1> QED  BY <1>1, <1>2 DEF Merging, Owners, Quiet, Awaited, NewOutputs, Pending

LEMMA FileOpFiles ==
  ASSUME FilesInv, FileOps
  PROVE  Merging' /\ Owners' /\ Quiet' /\ Awaited' /\ NewOutputs' /\ Holds' /\ NoOrphanFile'
<1>1. ~bgPending /\ UNCHANGED <<bgTree, bgSrcFiles, jobVars, iter>>
  BY DEF FileOps, SyncFlush, Delete, Update, callerVars
<1>2. /\ onDisk' \subseteq files' \cup Snapped
      /\ \A f \in onDisk : HeldByIter(f) => f \in onDisk'
  <2>1. CASE SyncFlush
    BY <1>1, <2>1, FlushFiles DEF SyncFlush
  <2>2. CASE UNCHANGED <<onDisk, files>>
    BY <1>1, <2>2, IdleFiles
  <2>3. ASSUME NEW k \in Key, NEW v \in Val, Update(k, v), memTree[k] # {}
        PROVE  /\ onDisk' \subseteq files' \cup Snapped
               /\ \A f \in onDisk : HeldByIter(f) => f \in onDisk'
    BY <1>1, <2>3, RewriteFiles DEF Update
  <2>4. ASSUME NEW k \in Key, NEW v \in Val, Update(k, v), memTree[k] = {}
        PROVE  UNCHANGED <<onDisk, files>>
    BY <2>4 DEF Update
  <2>5. ASSUME NEW k \in Key, Delete(k)
        PROVE  UNCHANGED <<onDisk, files>>
    BY <2>5 DEF Delete
  <2> QED  BY <2>1, <2>2, <2>3, <2>4, <2>5 DEF FileOps
<1>3. Holds'
  BY <1>1, <1>2 DEF FilesInv, Holds, HeldByIter
<1>4. Snapped' = Snapped
  BY <1>1 DEF Snapped
<1> QED  BY <1>1, <1>2, <1>3, <1>4, CallerFiles

LEMMA IterOpFiles ==
  ASSUME FilesInv, IterOps
  PROVE  Merging' /\ Owners' /\ Quiet' /\ Awaited' /\ NewOutputs' /\ Holds' /\ NoOrphanFile'
<1>0. iter \in [Iter -> Iterator]
  BY DEF FilesInv, TypeOK
<1>1. ASSUME NEW i \in Iter, IterOpen(i)
      PROVE  Merging' /\ Owners' /\ Quiet' /\ Awaited' /\ NewOutputs' /\ Holds' /\ NoOrphanFile'
  <2>1. ~bgPending /\ ~iter[i].open /\ FlushMemTree /\ UNCHANGED <<bgTree, bgSrcFiles, jobVars>>
    BY <1>1 DEF IterOpen
  <2>2. /\ iter'[i].open /\ iter'[i].snap = files' /\ iter'[i].held = files' \cap onDisk'
        /\ \A j \in Iter \ {i} : iter'[j] = iter[j]
    BY <1>0, <1>1 DEF IterOpen
  <2>3. iter[i].snap = {}
    BY <2>1 DEF FilesInv, Holds
  <2>4. /\ onDisk' \subseteq files' \cup Snapped
        /\ \A f \in onDisk : HeldByIter(f) => f \in onDisk'
    BY <2>1, FlushFiles
  <2>5. Snapped \subseteq Snapped'
    BY <2>2, <2>3 DEF Snapped
  <2>6. Holds'
    <3> SUFFICES ASSUME NEW j \in Iter
                 PROVE  /\ iter'[j].held \subseteq iter'[j].snap \cap onDisk'
                        /\ ~iter'[j].open => iter'[j].snap = {}
      BY DEF Holds
    <3>1. CASE j = i
      BY <2>2, <3>1
    <3>2. CASE j # i
      BY <2>2, <2>4, <3>2 DEF FilesInv, Holds, HeldByIter
    <3> QED  BY <3>1, <3>2
  <2> QED  BY <2>1, <2>4, <2>5, <2>6, CallerFiles
<1>2. ASSUME NEW i \in Iter, IterNext(i)
      PROVE  Merging' /\ Owners' /\ Quiet' /\ Awaited' /\ NewOutputs' /\ Holds' /\ NoOrphanFile'
  <2>1. UNCHANGED <<treeVars, fileVars, jobVars>> /\ iter[i].open
    BY <1>2 DEF IterNext
  <2>2. /\ \A j \in Iter : iter'[j].snap = iter[j].snap /\ iter'[j].held \subseteq iter[j].held
        /\ \A j \in Iter : iter'[j].open = iter[j].open
    <3>1. CASE iter' = [iter EXCEPT ![i].held = {}]
      BY <1>0, <3>1 DEF Iterator
    <3>2. ASSUME NEW k, iter' = [iter EXCEPT ![i].pos = k, ![i].held = {f \in @ : Hi(disk[f]) >= k}]
          PROVE  /\ \A j \in Iter : iter'[j].snap = iter[j].snap /\ iter'[j].held \subseteq iter[j].held
                 /\ \A j \in Iter : iter'[j].open = iter[j].open
      BY <1>0, <3>2 DEF Iterator
    <3> QED  BY <1>2, <3>1, <3>2 DEF IterNext
  <2>3. Snapped' = Snapped
    BY <2>2 DEF Snapped
  <2>4. Holds'
    BY <2>1, <2>2 DEF FilesInv, Holds, fileVars
  <2>5. NewOutputs' /\ NoOrphanFile'
    BY <2>1, <2>3, NoOrphanIs
       DEF FilesInv, NewOutputs, NoOrphanFile, Snapped, fileVars, jobVars, sliceVars
  <2>6. Merging' /\ Owners' /\ Quiet' /\ Awaited'
    BY <2>1 DEF FilesInv, Merging, Owners, Quiet, Awaited, Pending, treeVars, fileVars, jobVars,
                sliceVars
  <2> QED  BY <2>4, <2>5, <2>6
<1>3. ASSUME NEW i \in Iter, IterClose(i)
      PROVE  Merging' /\ Owners' /\ Quiet' /\ Awaited' /\ NewOutputs' /\ Holds' /\ NoOrphanFile'
  <2>1. UNCHANGED <<treeVars, files, bgSrcFiles, jobVars>> /\ onDisk' = onDisk \ Orphans(i)
    BY <1>3 DEF IterClose
  <2>2. iter'[i] = Closed /\ \A j \in Iter \ {i} : iter'[j] = iter[j]
    BY <1>0, <1>3 DEF IterClose
  <2>3. Merging' /\ Owners' /\ Quiet' /\ Awaited'
    BY <2>1 DEF FilesInv, Merging, Owners, Quiet, Awaited, Pending, treeVars, jobVars, sliceVars
  <2>4. \A j \in Iter \ {i} : iter[j].held \cap Orphans(i) = {}
    BY DEF Orphans
  <2>5. Holds'
    BY <2>1, <2>2, <2>4 DEF FilesInv, Holds, Closed
  <2>6. Snapped' \subseteq Snapped
    BY <2>2 DEF Snapped, Closed
  <2>7. NewOutputs'
    <3>1. Orphans(i) \subseteq Snapped
      BY DEF Orphans, Snapped
    <3> QED  BY <2>1, <2>6, <3>1 DEF FilesInv, NewOutputs, jobVars, sliceVars
  <2>8. NoOrphanFile'
    <3> SUFFICES ASSUME NEW f \in onDisk', f \notin files, f \notin bgSrcFiles, f \notin toRegister
                 PROVE  f \in Snapped'
      BY <2>1 DEF NoOrphanFile, Snapped, jobVars, sliceVars
    <3>1. f \in onDisk /\ f \notin Orphans(i) /\ f \in Snapped
      BY <2>1, NoOrphanIs DEF FilesInv
    <3>2. CASE \E j \in Iter \ {i} : f \in iter[j].snap
      BY <2>2, <3>2 DEF Snapped
    <3>3. CASE f \in iter[i].snap
      <4>1. ~HeldBySlice(f)
        <5>1. f # NoFile
          BY <3>1, MergeAssumption DEF FilesInv, TypeOK
        <5> QED  BY <5>1 DEF FilesInv, Owners, Pending, HeldBySlice
      <4>2. PICK j \in Iter \ {i} : f \in iter[j].held
        BY <3>1, <3>3, <4>1 DEF Orphans
      <4>3. f \in iter[j].snap
        BY <4>2 DEF FilesInv, Holds
      <4> QED  BY <2>2, <4>2, <4>3 DEF Snapped
    <3> QED  BY <3>1, <3>2, <3>3 DEF Snapped
  <2> QED  BY <2>3, <2>5, <2>7, <2>8
<1> QED  BY <1>1, <1>2, <1>3 DEF IterOps

LEMMA SliceFiles ==
  ASSUME FilesInv, \/ \E s \in queued : SliceOpen(s)
                   \/ \E s \in running : SliceMerge(s) \/ SliceFail(s)
  PROVE  Merging' /\ Owners' /\ Quiet' /\ Awaited' /\ NewOutputs' /\ Holds' /\ NoOrphanFile'
<1> USE DEF FilesInv
<1>0. /\ Pending # {} => job = "merging"
      /\ UNCHANGED <<memTree, bgTree, files, bgSrcFiles, bgPending, job, iter>>
  BY DEF Quiet, SliceOpen, SliceMerge, SliceFail, treeVars, fileVars, callerVars
<1>1. ASSUME NEW s \in queued, SliceOpen(s)
      PROVE  Merging' /\ Owners' /\ Quiet' /\ Awaited' /\ NewOutputs' /\ Holds' /\ NoOrphanFile'
  <2>1. /\ queued' = queued \ {s} /\ UNCHANGED <<onDisk, toRegister, mergedSrcs>>
        /\ \/ running' = running \cup {s} /\ anyFailed' = anyFailed
           \/ running' = running /\ anyFailed'
    BY <1>1 DEF SliceOpen, fileVars
  <2>2. s \in Pending /\ Pending' \subseteq Pending /\ (~anyFailed' => ~anyFailed /\ Pending' = Pending)
    BY <2>1 DEF Pending
  <2> QED  BY <1>0, <2>1, <2>2 DEF Merging, Owners, Quiet, Awaited, NewOutputs, Holds, NoOrphanFile, Snapped
<1>2. ASSUME NEW s \in running, SliceFail(s)
      PROVE  Merging' /\ Owners' /\ Quiet' /\ Awaited' /\ NewOutputs' /\ Holds' /\ NoOrphanFile'
  <2>1. /\ running' = running \ {s} /\ UNCHANGED <<onDisk, toRegister, mergedSrcs, queued>> /\ anyFailed'
    BY <1>2 DEF SliceFail, fileVars
  <2>2. s \in Pending /\ Pending' \subseteq Pending
    BY <2>1 DEF Pending
  <2> QED  BY <1>0, <2>1, <2>2 DEF Merging, Owners, Quiet, Awaited, NewOutputs, Holds, NoOrphanFile, Snapped
<1>3. ASSUME NEW s \in running, SliceMerge(s)
      PROVE  Merging' /\ Owners' /\ Quiet' /\ Awaited' /\ NewOutputs' /\ Holds' /\ NoOrphanFile'
  <2>1. PICK c \in Naming(Outputs(bgTree, s, disk)) :
          /\ onDisk' = onDisk \cup DOMAIN c /\ toRegister' = toRegister \cup DOMAIN c
    BY <1>3 DEF SliceMerge
  <2>2. /\ mergedSrcs' = mergedSrcs \cup ({s.src} \ {NoFile}) /\ running' = running \ {s}
        /\ UNCHANGED <<queued, anyFailed>>
    BY <1>3 DEF SliceMerge
  <2>3. Outputs(bgTree, s, disk) \in SUBSET File
    BY OutputsType DEF TypeOK
  <2>4. DOMAIN c \cap (onDisk \cup files \cup bgSrcFiles \cup Snapped) = {}
    BY <2>3, NamingFacts DEF Unused, Snapped
  <2>5. s \in Pending /\ Pending' \subseteq Pending /\ Pending \ {s} \subseteq Pending'
    BY <2>2 DEF Pending
  <2>6. s.src \in bgSrcFiles \cup {NoFile}
    BY <2>5 DEF Owners
  <2>7. Snapped' = Snapped
    BY <1>0 DEF Snapped
  <2>8. Owners' /\ Merging' /\ Quiet'
    BY <1>0, <2>1, <2>2, <2>4, <2>5, <2>6 DEF Owners, Merging, Quiet
  <2>9. Awaited'
    <3> SUFFICES ASSUME ~anyFailed, NEW f \in bgSrcFiles
                 PROVE  f \in mergedSrcs' \/ \E r \in Pending' : r.src = f
      BY <1>0, <2>2 DEF Awaited
    <3>1. f # NoFile
      BY MergeAssumption DEF TypeOK
    <3> QED  BY <2>2, <2>5, <3>1 DEF Awaited
  <2>10. NewOutputs'
    BY <2>1, <2>4, <2>7 DEF NewOutputs
  <2>11. Holds'
    BY <1>0, <2>1 DEF Holds
  <2>12. NoOrphanFile'
    BY <1>0, <2>1 DEF NoOrphanFile
  <2> QED  BY <2>8, <2>9, <2>10, <2>11, <2>12
<1> QED  BY <1>1, <1>2, <1>3

\* What Finalize removes is no longer needed, and what it cannot remove because an
\* iterator has it open is in that iterator's snapshot.
LEMMA FinalizeFiles ==
  ASSUME FilesInv, Finalize
  PROVE  /\ Merging' /\ Owners' /\ Quiet' /\ Awaited' /\ NewOutputs' /\ Holds' /\ NoOrphanFile'
         /\ files' \cup bgSrcFiles' = files \cup Registered /\ toRegister' = {}
<1> USE DEF FilesInv
<1>1. /\ job = "merging" /\ queued = {} /\ running = {} /\ iter' = iter
      /\ onDisk' = onDisk \ {f \in Discarded : Removable(f)}
  BY DEF Finalize, callerVars
<1>2. /\ Merging' /\ Owners' /\ Quiet' /\ Awaited'
      /\ files' \cup bgSrcFiles' = files \cup Registered /\ toRegister' = {}
  <2>1. CASE Launch(memTree, Empty, files \cup Registered, disk')
    <3>1. files \cup Registered \in SUBSET FileId
      BY DEF TypeOK, Registered
    <3> QED  BY <2>1, <3>1, LaunchFiles
  <2>2. CASE ~(Chains /\ memTree # Empty)
    <3>1. /\ files' = files \cup Registered /\ bgSrcFiles' = {} /\ bgTree' = Empty
          /\ toRegister' = {} /\ mergedSrcs' = {} /\ ~anyFailed' /\ job' # "merging"
          /\ queued' = {} /\ running' = {}
      BY <1>1, <2>2 DEF Finalize
    <3> QED  BY <3>1 DEF Merging, Owners, Quiet, Awaited, Pending
  <2> QED  BY <2>1, <2>2 DEF Finalize
<1>3. \A f : ~Removable(f) => HeldByIter(f)
  BY <1>1 DEF Removable, HeldBySlice
<1>4. Snapped' = Snapped
  BY <1>1 DEF Snapped
<1>5. Holds'
  BY <1>1 DEF Holds, Removable, HeldByIter
<1>6. NewOutputs'
  BY <1>2 DEF NewOutputs
<1>7. ASSUME NEW f \in onDisk' PROVE f \in files \cup Registered \cup Snapped
  <2>1. f \in onDisk /\ (f \in Discarded => f \in Snapped)
    BY <1>1, <1>3, <1>7, HeldSnapped
  <2>2. CASE f \in bgSrcFiles
    <3>1. CASE f \in mergedSrcs
      BY <2>1, <3>1 DEF Discarded
    <3>2. CASE f \notin mergedSrcs
      <4>1. anyFailed
        BY <1>1, <2>2, <3>2 DEF Awaited, Pending
      <4> QED  BY <2>2, <3>2, <4>1 DEF Registered
    <3> QED  BY <3>1, <3>2
  <2>3. CASE f \in toRegister
    BY <2>1, <2>3 DEF Discarded, Registered
  <2> QED  BY <2>1, <2>2, <2>3, NoOrphanIs
<1>8. NoOrphanFile'
  BY <1>2, <1>4, <1>7 DEF NoOrphanFile, Snapped
<1> QED  BY <1>2, <1>5, <1>6, <1>8

LEMMA FilesStep ==
  ASSUME FilesInv, [Next]_vars
  PROVE  FilesInv'
<1>1. TypeOK'
  BY TypeStep DEF FilesInv
<1>2. Merging' /\ Owners' /\ Quiet' /\ Awaited' /\ NewOutputs' /\ Holds' /\ NoOrphanFile'
  <2>1. CASE UNCHANGED vars
    BY <2>1, FilesSame DEF vars, treeVars, fileVars, callerVars
  <2>2. CASE Signal
    <3>1. /\ job = "signal" /\ job' = "none" /\ UNCHANGED <<treeVars, fileVars, sliceVars, callerVars>>
      BY <2>2 DEF Signal
    <3> QED  BY <3>1 DEF FilesInv, Merging, Owners, Quiet, Awaited, NewOutputs, Holds, NoOrphanFile,
                 Snapped, Pending, treeVars, fileVars, sliceVars, callerVars
  <2> QED  BY <2>1, <2>2, InsertFiles, FileOpFiles, IterOpFiles, SliceFiles, FinalizeFiles
           DEF Next, Worker
<1> QED  BY <1>1, <1>2 DEF FilesInv

LEMMA InitFiles == Init => FilesInv
<1>1. Init => TypeOK
  BY InitKeeps DEF KeepInv
<1> QED  BY <1>1 DEF Init, FilesInv, Merging, Owners, Quiet, Awaited, NewOutputs, Holds,
                 NoOrphanFile, Snapped, Pending, Closed

\* A file on disk is in the registry, belongs to the merge in flight or is in the
\* snapshot of an iterator that removes it when it closes: whatever slices fail and
\* whichever iterators are open while a merge or a flush replaces files.
THEOREM NoFileForgotten == Spec => []NoOrphanFile
<1>1. FilesInv /\ [Next]_vars => FilesInv'
  BY FilesStep
<1>2. FilesInv => NoOrphanFile
  BY DEF FilesInv
<1> QED  BY InitFiles, <1>1, <1>2, PTL DEF Spec

-----------------------------------------------------------------------------
(* Where the keys of the files lie.  While slices finish in any order, each *)
(* one's keys are its own: no other slice reaches into them, no registered  *)
(* file and no output of a slice that has finished.                         *)

RegistryApart ==
  \A f, g \in files \cup bgSrcFiles : f # g => Separate(disk[f].keys, disk[g].keys)
OutputsApart ==
  \A f, g \in files \cup toRegister : f # g => Separate(disk[f].keys, disk[g].keys)
SlicesApart ==
  \A s \in Pending :
    /\ \A r \in Pending : s # r => Separate(Foot(s, disk), Foot(r, disk))
    /\ \A f \in files \cup toRegister : Separate(Foot(s, disk), disk[f].keys)
AllSlotted == \A f \in onDisk \cup files \cup bgSrcFiles : Slotted(disk[f])

\* A slice is started once.
Once == queued \cap running = {}

LayoutInv == FilesInv /\ RegistryApart /\ OutputsApart /\ SlicesApart /\ AllSlotted /\ Once

LEMMA OnceStep ==
  ASSUME Once, [Next]_vars
  PROVE  Once'
<1>1. ASSUME NEW t, NEW rest, NEW fs, NEW d, Launch(t, rest, fs, d)
      PROVE  Once'
  BY <1>1 DEF Launch, Once
<1>2. ASSUME UNCHANGED <<queued, running>>
      PROVE  Once'
  BY <1>2 DEF Once
<1>3. ASSUME NEW k \in Key, NEW v \in Val, Put(k, v) \/ FlushAndPut(k, v)
      PROVE  Once'
  BY <1>1, <1>2, <1>3 DEF Put, FlushAndPut, jobVars, sliceVars
<1>4. CASE NewInsert \/ Resume
  BY <1>2, <1>3, <1>4
     DEF NewInsert, Resume, Insert, InsertFlushes, InsertWaits, InsertResumes, jobVars, sliceVars
<1>5. CASE FileOps \/ IterOps \/ Signal \/ UNCHANGED vars
  BY <1>2, <1>5 DEF FileOps, SyncFlush, Delete, Update, IterOps, IterOpen, IterNext, IterClose,
                    Signal, vars, jobVars, sliceVars
<1>6. CASE Finalize
  BY <1>1, <1>2, <1>6 DEF Finalize
<1>7. CASE \/ \E s \in queued : SliceOpen(s)
           \/ \E s \in running : SliceMerge(s) \/ SliceFail(s)
  BY <1>7 DEF SliceOpen, SliceMerge, SliceFail, Once
<1> QED  BY <1>4, <1>5, <1>6, <1>7 DEF Next, Worker

LEMMA RegistryRanged ==
  ASSUME LayoutInv
  PROVE  Ranged(files, disk) /\ Ranged(files \cup bgSrcFiles, disk)
BY DEF LayoutInv, RegistryApart, AllSlotted, Slotted, Ranged

\* A step that moves no keys and starts no slice.
LEMMA LayoutSame ==
  ASSUME LayoutInv, files' = files, bgSrcFiles' = bgSrcFiles, toRegister' = toRegister,
         Pending' \subseteq Pending,
         \A f \in files \cup bgSrcFiles \cup toRegister : disk'[f].keys = disk[f].keys
  PROVE  RegistryApart' /\ OutputsApart' /\ SlicesApart'
<1>1. RegistryApart' /\ OutputsApart'
  BY DEF LayoutInv, RegistryApart, OutputsApart
<1>2. \A s \in Pending : Foot(s, disk') = Foot(s, disk)
  BY DEF LayoutInv, FilesInv, Owners, Foot
<1>3. SlicesApart'
  BY <1>2 DEF LayoutInv, SlicesApart
<1> QED  BY <1>1, <1>3

\* A merge starts on a layout that is sound.
LEMMA LaunchLayout ==
  ASSUME disk' \in [FileId -> File], NEW t, NEW rest, NEW fs \in SUBSET FileId,
         Launch(t, rest, fs, disk'), Ranged(fs, disk')
  PROVE  RegistryApart' /\ OutputsApart' /\ SlicesApart'
<1>1. PICK d : d = disk'
  OBVIOUS
<1>2. PICK plan \in Plans(t, fs, d) :
        /\ files' = fs \ Sources(plan) /\ bgSrcFiles' = Sources(plan)
        /\ queued' = plan /\ running' = {} /\ toRegister' = {}
  BY <1>1 DEF Launch
<1>3. Sources(plan) \subseteq fs /\ Pending' = plan /\ d \in [FileId -> File] /\ Ranged(fs, d)
  BY <1>1, <1>2, PlanType DEF Pending
<1>4. RegistryApart' /\ OutputsApart'
  BY <1>1, <1>2, <1>3 DEF RegistryApart, OutputsApart, Ranged
<1>5. \A s \in plan : /\ \A r \in plan : s # r => Separate(Foot(s, d), Foot(r, d))
                      /\ \A f \in fs \ Sources(plan) : Separate(Foot(s, d), d[f].keys)
  BY <1>3, PlanSeparate
<1>6. SlicesApart'
  BY <1>1, <1>2, <1>3, <1>5 DEF SlicesApart
<1> QED  BY <1>4, <1>6

LEMMA PutLayout ==
  ASSUME LayoutInv, NEW k \in Key, NEW v \in Val, Put(k, v) \/ FlushAndPut(k, v)
  PROVE  /\ RegistryApart' /\ OutputsApart' /\ SlicesApart'
         /\ UNCHANGED <<disk, onDisk>> /\ files' \cup bgSrcFiles' = files \cup bgSrcFiles
<1>1. disk \in [FileId -> File] /\ files \in SUBSET FileId
  BY DEF LayoutInv, FilesInv, TypeOK
<1>2. ASSUME NEW t, NEW rest, Launch(t, rest, files, disk), ~bgPending, UNCHANGED <<disk, onDisk>>
      PROVE  /\ RegistryApart' /\ OutputsApart' /\ SlicesApart'
             /\ UNCHANGED <<disk, onDisk>> /\ files' \cup bgSrcFiles' = files \cup bgSrcFiles
  <2>1. RegistryApart' /\ OutputsApart' /\ SlicesApart'
    BY <1>1, <1>2, LaunchLayout, RegistryRanged
  <2>2. files' \cup bgSrcFiles' = files /\ bgSrcFiles = {}
    BY <1>1, <1>2, LaunchFiles, IdleFiles DEF LayoutInv
  <2> QED  BY <1>2, <2>1, <2>2
<1>3. ASSUME UNCHANGED <<bgTree, fileVars, jobVars>>
      PROVE  /\ RegistryApart' /\ OutputsApart' /\ SlicesApart'
             /\ UNCHANGED <<disk, onDisk>> /\ files' \cup bgSrcFiles' = files \cup bgSrcFiles
  <2>1. Pending' = Pending
    BY <1>3 DEF Pending, jobVars, sliceVars
  <2> QED  BY <1>3, <2>1, LayoutSame DEF fileVars, jobVars, sliceVars
<1>4. CASE Put(k, v)
  <2> DEFINE t == [memTree EXCEPT ![k] = Combine(@, {v})]
  <2>1. CASE ~bgPending /\ Launch(t, Empty, files, disk) /\ UNCHANGED <<disk, onDisk>>
    BY <1>2, <2>1
  <2>2. CASE UNCHANGED <<bgTree, fileVars, jobVars>>
    BY <1>3, <2>2
  <2> QED  BY <1>4, <2>1, <2>2 DEF Put
<1>5. CASE ~bgPending /\ Launch(memTree, [Empty EXCEPT ![k] = {v}], files, disk)
           /\ UNCHANGED <<disk, onDisk>>
  BY <1>2, <1>5
<1> QED  BY <1>4, <1>5 DEF FlushAndPut

LEMMA InsertLayout ==
  ASSUME LayoutInv, NewInsert \/ Resume
  PROVE  RegistryApart' /\ OutputsApart' /\ SlicesApart' /\ AllSlotted'
         /\ UNCHANGED <<disk, onDisk>>
<1>1. ASSUME NEW k \in Key, NEW v \in Val, Put(k, v) \/ FlushAndPut(k, v)
      PROVE  RegistryApart' /\ OutputsApart' /\ SlicesApart' /\ AllSlotted'
             /\ UNCHANGED <<disk, onDisk>>
  BY <1>1, PutLayout DEF LayoutInv, AllSlotted
<1>2. ASSUME NEW k \in Key, NEW v \in Val, InsertWaits(k, v)
      PROVE  RegistryApart' /\ OutputsApart' /\ SlicesApart' /\ AllSlotted'
             /\ UNCHANGED <<disk, onDisk>>
  <2>1. UNCHANGED <<fileVars, jobVars>>
    BY <1>2 DEF InsertWaits
  <2>2. Pending' = Pending
    BY <2>1 DEF Pending, jobVars, sliceVars
  <2>3. RegistryApart' /\ OutputsApart' /\ SlicesApart'
    BY <2>1, <2>2, LayoutSame DEF fileVars, jobVars, sliceVars
  <2> QED  BY <2>1, <2>3 DEF LayoutInv, AllSlotted, fileVars
<1> QED  BY <1>1, <1>2 DEF NewInsert, Resume, Insert, InsertFlushes, InsertResumes

\* The names a flush or a merge draws for its outputs.
LEMMA NamingApart ==
  ASSUME TypeOK, NEW outs \in SUBSET File, NEW c \in Naming(outs),
         \A o \in outs : o.keys # {}
  PROVE  \A f, g \in DOMAIN c : f # g => c[f] # c[g]
<1> SUFFICES ASSUME NEW f \in DOMAIN c, NEW g \in DOMAIN c, f < g PROVE c[f] # c[g]
  <2>1. DOMAIN c \subseteq Nat
    BY NamingFacts, MergeAssumption DEF Unused
  <2> QED  BY <2>1
<1>1. Lo(c[f]) < Lo(c[g])
  BY DEF Naming
<1>2. Lo(c[f]) \in Nat
  BY NamingFacts, FileEnds
<1> QED  BY <1>1, <1>2

\* What a flush writes in place of the files it rewrites keeps the registry sound.
LEMMA RewriteLayout ==
  ASSUME LayoutInv, ~bgPending, NEW plan \in Plans(memTree, files, disk),
         NEW c \in Naming(PlanOutputs(memTree, plan, disk)), FlushRewrites(plan, c),
         NEW d, d = Written(c)
  PROVE  /\ \A f, g \in files' : f # g => Separate(d[f].keys, d[g].keys)
         /\ \A f \in onDisk' \cup files' : Slotted(d[f])
<1> DEFINE outs == PlanOutputs(memTree, plan, disk)
<1>1. /\ memTree \in Tree /\ disk \in [FileId -> File] /\ files \in SUBSET FileId
      /\ onDisk \subseteq FileId
  BY DEF LayoutInv, FilesInv, TypeOK
<1>2. outs \in SUBSET File
  BY <1>1, PlanOutputsType
<1>3. /\ DOMAIN c \cap (onDisk \cup files) = {} /\ DOMAIN c \subseteq FileId
      /\ files' = (files \ Sources(plan)) \cup DOMAIN c
      /\ onDisk' \subseteq onDisk \cup DOMAIN c
  BY RewriteFiles DEF LayoutInv, FlushRewrites
<1>4. plan \subseteq Slice /\ Sources(plan) \subseteq files
      /\ \A s \in plan : s.src \in Sources(plan) \cup {NoFile}
  BY <1>1, PlanType
<1>5. \A s \in plan : s.src # NoFile => Slotted(disk[s.src])
  BY <1>4 DEF LayoutInv, AllSlotted
<1>6. \A f \in DOMAIN c : \E s \in plan : c[f] \in Outputs(memTree, s, disk)
  <2>1. \A f \in DOMAIN c : c[f] \in outs
    BY <1>2, NamingFacts
  <2> QED  BY <2>1 DEF PlanOutputs
<1>7. ASSUME NEW s \in plan, NEW o \in Outputs(memTree, s, disk)
      PROVE  /\ Slotted(o) /\ o.keys \subseteq Foot(s, disk)
             /\ \A p \in Outputs(memTree, s, disk) : o # p => Separate(o.keys, p.keys)
  BY <1>1, <1>4, <1>5, OutputsSeparate
<1>8. \A f \in DOMAIN c : d[f] = c[f]
  BY <1>3 DEF Written
<1>9. \A f \in onDisk \cup files : d[f] = disk[f]
  BY <1>1, <1>3 DEF Written
<1>10. ASSUME NEW s \in plan
       PROVE  /\ \A r \in plan : s # r => Separate(Foot(s, disk), Foot(r, disk))
              /\ \A f \in files \ Sources(plan) : Separate(Foot(s, disk), disk[f].keys)
  BY <1>1, RegistryRanged, PlanSeparate
<1>11. \A f, g \in DOMAIN c : f # g => c[f] # c[g]
  <2>1. \A o \in outs : o.keys # {}
    BY <1>7 DEF PlanOutputs, Slotted
  <2> HIDE DEF outs
  <2> QED  BY <1>2, <2>1, NamingApart DEF outs, LayoutInv, FilesInv
<1>12. ASSUME NEW f \in DOMAIN c, NEW g \in DOMAIN c, f # g
       PROVE  Separate(c[f].keys, c[g].keys)
  <2>1. PICK s \in plan : c[f] \in Outputs(memTree, s, disk)
    BY <1>6
  <2>2. PICK r \in plan : c[g] \in Outputs(memTree, r, disk)
    BY <1>6
  <2>3. CASE s = r
    BY <1>7, <1>11, <1>12, <2>1, <2>2, <2>3
  <2>4. CASE s # r
    <3>1. c[f].keys \subseteq Foot(s, disk) /\ c[g].keys \subseteq Foot(r, disk)
      BY <1>7, <2>1, <2>2
    <3> QED  BY <1>10, <2>4, <3>1, SeparateParts
  <2> QED  BY <2>3, <2>4
<1>13. ASSUME NEW f \in DOMAIN c, NEW g \in files \ Sources(plan)
       PROVE  Separate(c[f].keys, disk[g].keys)
  <2>1. PICK s \in plan : c[f] \in Outputs(memTree, s, disk)
    BY <1>6
  <2>2. c[f].keys \subseteq Foot(s, disk) /\ Separate(Foot(s, disk), disk[g].keys)
    BY <1>7, <1>10, <2>1
  <2> QED  BY <2>2, SeparateParts
<1>14. ASSUME NEW f \in files', NEW g \in files', f # g
       PROVE  Separate(d[f].keys, d[g].keys)
  <2>1. CASE f \in files \ Sources(plan) /\ g \in files \ Sources(plan)
    BY <1>9, <1>14, <2>1 DEF LayoutInv, RegistryApart
  <2>2. CASE f \in DOMAIN c /\ g \in DOMAIN c
    BY <1>8, <1>12, <1>14, <2>2
  <2>3. CASE f \in DOMAIN c /\ g \in files \ Sources(plan)
    BY <1>8, <1>9, <1>13, <2>3
  <2>4. CASE f \in files \ Sources(plan) /\ g \in DOMAIN c
    BY <1>8, <1>9, <1>13, <2>4, SeparateSym
  <2> QED  BY <1>3, <2>1, <2>2, <2>3, <2>4
<1>15. ASSUME NEW f \in onDisk' \cup files'
       PROVE  Slotted(d[f])
  <2>1. CASE f \in DOMAIN c
    BY <1>6, <1>7, <1>8, <2>1
  <2>2. CASE f \in onDisk \cup files
    BY <1>9, <2>2 DEF LayoutInv, AllSlotted
  <2> QED  BY <1>3, <2>1, <2>2
<1> QED  BY <1>14, <1>15

\* The layout between merges is that of the registry.
LEMMA CallerLayout ==
  ASSUME LayoutInv, ~bgPending, UNCHANGED <<bgSrcFiles, jobVars>>,
         \A f, g \in files' : f # g => Separate(disk'[f].keys, disk'[g].keys),
         \A f \in onDisk' \cup files' : Slotted(disk'[f])
  PROVE  RegistryApart' /\ OutputsApart' /\ SlicesApart' /\ AllSlotted'
<1>1. bgSrcFiles' = {} /\ toRegister' = {} /\ queued' = {} /\ running' = {}
  BY IdleFiles DEF LayoutInv, jobVars, sliceVars
<1> QED  BY <1>1 DEF RegistryApart, OutputsApart, SlicesApart, AllSlotted, Pending

LEMMA FlushLayout ==
  ASSUME LayoutInv, ~bgPending, FlushMemTree
  PROVE  /\ \A f, g \in files' : f # g => Separate(disk'[f].keys, disk'[g].keys)
         /\ \A f \in onDisk' \cup files' : Slotted(disk'[f])
<1>1. CASE memTree = Empty
  BY <1>1 DEF FlushMemTree, LayoutInv, RegistryApart, AllSlotted
<1>2. CASE memTree # Empty
  <2>1. PICK plan \in Plans(memTree, files, disk) :
             \E c \in Naming(PlanOutputs(memTree, plan, disk)) :
               FlushRewrites(plan, c) /\ disk' = Kept(Written(c), onDisk' \cup files')
    BY <1>2 DEF FlushMemTree
  <2>2. PICK c \in Naming(PlanOutputs(memTree, plan, disk)) :
               FlushRewrites(plan, c) /\ disk' = Kept(Written(c), onDisk' \cup files')
    BY <2>1
  <2>3. PICK d : d = Written(c)
    OBVIOUS
  <2>4. onDisk' \cup files' \subseteq FileId
    BY <2>2, FlushRewritesTypes DEF LayoutInv, FilesInv
  <2>5. \A f \in onDisk' \cup files' : disk'[f] = d[f]
    BY <2>2, <2>3, <2>4 DEF Kept
  <2> QED  BY <2>2, <2>3, <2>5, RewriteLayout
<1> QED  BY <1>1, <1>2

\* A tombstone or an overwritten record keeps its slot.
LEMMA OverwrittenKeys ==
  ASSUME NEW d \in [FileId -> File], NEW S, NEW k \in Key, NEW v, NEW f \in FileId
  PROVE  /\ Overwritten(d, S, k, v)[f].keys = d[f].keys
         /\ Slotted(d[f]) => Slotted(Overwritten(d, S, k, v)[f])
<1>1. d[f] \in File
  OBVIOUS
<1>2. Overwritten(d, S, k, v)[f] =
        IF f \in S /\ d[f].recs[k] # {} THEN [d[f] EXCEPT !.recs[k] = {v}] ELSE d[f]
  BY DEF Overwritten
<1>3. d[f].recs[k] # {} => KeysOf([d[f] EXCEPT !.recs[k] = {v}].recs) \subseteq KeysOf(d[f].recs)
  BY <1>1 DEF File, Tree, KeysOf
<1> QED  BY <1>1, <1>2, <1>3 DEF Slotted, File

LEMMA TombstonedKeys ==
  ASSUME TypeOK, NEW k \in Key, NEW g \in FileId, NEW f \in FileId
  PROVE  /\ Tombstoned(k, g)[f].keys = disk[f].keys
         /\ Slotted(disk[f]) => Slotted(Tombstoned(k, g)[f])
         /\ f # g \/ ~Writable(g) => Tombstoned(k, g)[f] = disk[f]
         /\ Writable(g) => Tombstoned(k, g)[g].recs = [disk[g].recs EXCEPT ![k] = {}]
<1>1. disk \in [FileId -> File] /\ disk[f] \in File /\ disk[g] \in File
  BY DEF TypeOK
<1>2. CASE Writable(g)
  <2>1. Tombstoned(k, g) = [disk EXCEPT ![g] = [disk[g] EXCEPT !.recs = [disk[g].recs EXCEPT ![k] = {}]]]
    BY <1>2 DEF Tombstoned
  <2>2. Tombstoned(k, g)[f] = IF f = g THEN [disk[g] EXCEPT !.recs = [disk[g].recs EXCEPT ![k] = {}]] ELSE disk[f]
    BY <1>1, <2>1
  <2>3. KeysOf([disk[g].recs EXCEPT ![k] = {}]) \subseteq KeysOf(disk[g].recs)
    BY <1>1 DEF KeysOf, File, Tree
  <2>4. [disk[g] EXCEPT !.recs = [disk[g].recs EXCEPT ![k] = {}]].recs = [disk[g].recs EXCEPT ![k] = {}]
        /\ [disk[g] EXCEPT !.recs = [disk[g].recs EXCEPT ![k] = {}]].keys = disk[g].keys
    BY <1>1 DEF File
  <2>5. Tombstoned(k, g)[g] = [disk[g] EXCEPT !.recs = [disk[g].recs EXCEPT ![k] = {}]]
    BY <1>1, <2>1
  <2> QED  BY <1>2, <2>2, <2>3, <2>4, <2>5 DEF Slotted
<1>3. CASE ~Writable(g)
  BY <1>3 DEF Tombstoned
<1> QED  BY <1>2, <1>3

LEMMA FileOpLayout ==
  ASSUME LayoutInv, FileOps
  PROVE  RegistryApart' /\ OutputsApart' /\ SlicesApart' /\ AllSlotted'
<1>0. TypeOK /\ onDisk \subseteq FileId /\ files \subseteq FileId /\ disk \in [FileId -> File]
  BY DEF LayoutInv, FilesInv, TypeOK
<1>1. ~bgPending /\ UNCHANGED <<bgTree, bgSrcFiles, jobVars, iter>>
  BY DEF FileOps, SyncFlush, Delete, Update, callerVars
<1>2. ASSUME UNCHANGED <<onDisk, files>>,
             \A f \in FileId : disk'[f].keys = disk[f].keys /\ (Slotted(disk[f]) => Slotted(disk'[f]))
      PROVE  /\ \A f, g \in files' : f # g => Separate(disk'[f].keys, disk'[g].keys)
             /\ \A f \in onDisk' \cup files' : Slotted(disk'[f])
  BY <1>0, <1>2 DEF LayoutInv, RegistryApart, AllSlotted
<1>3. /\ \A f, g \in files' : f # g => Separate(disk'[f].keys, disk'[g].keys)
      /\ \A f \in onDisk' \cup files' : Slotted(disk'[f])
  <2>1. CASE SyncFlush
    BY <1>1, <2>1, FlushLayout DEF SyncFlush
  <2>2. ASSUME NEW k \in Key, Delete(k)
        PROVE  /\ \A f, g \in files' : f # g => Separate(disk'[f].keys, disk'[g].keys)
               /\ \A f \in onDisk' \cup files' : Slotted(disk'[f])
    <3>1. UNCHANGED <<onDisk, files>> /\ (disk' = disk \/ \E g \in files : disk' = Tombstoned(k, g))
      BY <2>2 DEF Delete, Covering
    <3>2. CASE disk' = disk
      BY <1>2, <3>1, <3>2
    <3>3. ASSUME NEW g \in files, disk' = Tombstoned(k, g)
          PROVE  \A f \in FileId : disk'[f].keys = disk[f].keys /\ (Slotted(disk[f]) => Slotted(disk'[f]))
      BY <1>0, <3>3, TombstonedKeys
    <3> QED  BY <1>2, <3>1, <3>2, <3>3
  <2>3. ASSUME NEW k \in Key, NEW v \in Val, Update(k, v)
        PROVE  /\ \A f, g \in files' : f # g => Separate(disk'[f].keys, disk'[g].keys)
               /\ \A f \in onDisk' \cup files' : Slotted(disk'[f])
    <3>1. CASE memTree[k] = {}
      <4>1. disk' = Overwritten(disk, files \cap onDisk, k, v) /\ UNCHANGED <<onDisk, files>>
        BY <2>3, <3>1 DEF Update
      <4>2. \A f \in FileId : disk'[f].keys = disk[f].keys /\ (Slotted(disk[f]) => Slotted(disk'[f]))
        BY <1>0, <4>1, OverwrittenKeys
      <4> QED  BY <1>2, <4>1, <4>2
    <3>2. CASE memTree[k] # {}
      <4>1. PICK plan \in Plans(memTree, files, disk) :
                 \E c \in Naming(PlanOutputs(memTree, plan, disk)) :
                   /\ FlushRewrites(plan, c)
                   /\ disk' = Overwritten(Kept(Written(c), onDisk' \cup files'),
                                          files' \cap onDisk', k, v)
        BY <2>3, <3>2 DEF Update
      <4>2. PICK c \in Naming(PlanOutputs(memTree, plan, disk)) :
                   /\ FlushRewrites(plan, c)
                   /\ disk' = Overwritten(Kept(Written(c), onDisk' \cup files'),
                                          files' \cap onDisk', k, v)
        BY <4>1
      <4>3. PICK d : d = Written(c)
        OBVIOUS
      <4>4. onDisk' \cup files' \subseteq FileId /\ d \in [FileId -> File]
        BY <1>0, <4>2, <4>3, FlushRewritesTypes
      <4>5. PICK used : used = onDisk' \cup files'
        OBVIOUS
      <4>6. PICK present : present = files' \cap onDisk'
        OBVIOUS
      <4>7. PICK e : e = Kept(d, used)
        OBVIOUS
      <4>8. e \in [FileId -> File] /\ \A f \in used : e[f] = d[f]
        BY <4>4, <4>5, <4>7, DiskType DEF Kept
      <4>9. disk' = Overwritten(e, present, k, v)
        BY <4>2, <4>3, <4>5, <4>6, <4>7
      <4>10. \A f \in used : disk'[f].keys = d[f].keys /\ (Slotted(d[f]) => Slotted(disk'[f]))
        BY <4>4, <4>5, <4>8, <4>9, OverwrittenKeys
      <4>11. /\ \A f, g \in files' : f # g => Separate(d[f].keys, d[g].keys)
             /\ \A f \in onDisk' \cup files' : Slotted(d[f])
        BY <1>1, <4>2, <4>3, RewriteLayout
      <4> QED  BY <4>5, <4>10, <4>11
    <3> QED  BY <3>1, <3>2
  <2> QED  BY <2>1, <2>2, <2>3 DEF FileOps
<1> QED  BY <1>1, <1>3, CallerLayout

LEMMA IterOpLayout ==
  ASSUME LayoutInv, IterOps
  PROVE  RegistryApart' /\ OutputsApart' /\ SlicesApart' /\ AllSlotted'
<1>1. ASSUME NEW i \in Iter, IterOpen(i)
      PROVE  RegistryApart' /\ OutputsApart' /\ SlicesApart' /\ AllSlotted'
  <2>1. ~bgPending /\ FlushMemTree /\ UNCHANGED <<bgSrcFiles, jobVars>>
    BY <1>1 DEF IterOpen
  <2> QED  BY <2>1, FlushLayout, CallerLayout
<1>2. ASSUME NEW i \in Iter, IterNext(i) \/ IterClose(i)
      PROVE  RegistryApart' /\ OutputsApart' /\ SlicesApart' /\ AllSlotted'
  <2>1. /\ UNCHANGED <<files, bgSrcFiles, jobVars>>
        /\ onDisk' \subseteq onDisk
        /\ disk' = disk \/ disk' = Kept(disk, onDisk' \cup files \cup bgSrcFiles)
        /\ onDisk' = onDisk \/ onDisk' = onDisk \ Orphans(i)
    BY <1>2 DEF IterNext, IterClose, fileVars
  <2>2. Pending' = Pending
    BY <2>1 DEF Pending, jobVars, sliceVars
  <2>3. toRegister \subseteq onDisk'
    <3>1. Orphans(i) \subseteq Snapped
      BY DEF Orphans, Snapped
    <3> QED  BY <2>1, <3>1 DEF LayoutInv, FilesInv, NewOutputs
  <2>4. onDisk \cup files \cup bgSrcFiles \subseteq FileId
    BY DEF LayoutInv, FilesInv, TypeOK
  <2>5. \A f \in onDisk' \cup files \cup bgSrcFiles : disk'[f] = disk[f]
    BY <2>1, <2>4 DEF Kept
  <2>6. RegistryApart' /\ OutputsApart' /\ SlicesApart'
    <3>1. \A f \in files \cup bgSrcFiles \cup toRegister : disk'[f].keys = disk[f].keys
      BY <2>3, <2>5
    <3> QED  BY <2>1, <2>2, <3>1, LayoutSame DEF jobVars, sliceVars
  <2>7. AllSlotted'
    BY <2>1, <2>5 DEF LayoutInv, AllSlotted
  <2> QED  BY <2>6, <2>7
<1> QED  BY <1>1, <1>2 DEF IterOps

\* A slice that opens its source, or fails, or the thread that signals, moves no key.
LEMMA QuietWorkerLayout ==
  ASSUME LayoutInv, \/ \E s \in queued : SliceOpen(s)
                    \/ \E s \in running : SliceFail(s)
                    \/ Signal
  PROVE  RegistryApart' /\ OutputsApart' /\ SlicesApart' /\ AllSlotted'
<1>1. UNCHANGED <<fileVars, toRegister>>
  BY DEF SliceOpen, SliceFail, Signal, sliceVars
<1>2. Pending' \subseteq Pending
  BY DEF SliceOpen, SliceFail, Signal, sliceVars, Pending
<1> QED  BY <1>1, <1>2, LayoutSame DEF fileVars, LayoutInv, AllSlotted

\* The outputs of a slice lie among its own keys.
LEMMA SliceMergeLayout ==
  ASSUME LayoutInv, NEW s \in running, SliceMerge(s)
  PROVE  RegistryApart' /\ OutputsApart' /\ SlicesApart' /\ AllSlotted'
<1>1. /\ TypeOK /\ bgTree \in Tree /\ disk \in [FileId -> File] /\ s \in Slice /\ s \in Pending
      /\ onDisk \subseteq FileId /\ files \subseteq FileId /\ bgSrcFiles \subseteq FileId
  BY DEF LayoutInv, FilesInv, TypeOK, Pending
<1>2. PICK c \in Naming(Outputs(bgTree, s, disk)) :
        /\ disk' = Written(c) /\ onDisk' = onDisk \cup DOMAIN c
        /\ toRegister' = toRegister \cup DOMAIN c
  BY DEF SliceMerge
<1>3. /\ running' = running \ {s}
      /\ UNCHANGED <<files, bgSrcFiles, queued>>
  BY DEF SliceMerge
<1>4. Outputs(bgTree, s, disk) \in SUBSET File
  BY <1>1, OutputsType
<1>5. /\ DOMAIN c \subseteq FileId /\ DOMAIN c \cap (onDisk \cup files \cup bgSrcFiles) = {}
      /\ \A f \in DOMAIN c : c[f] \in Outputs(bgTree, s, disk)
  BY <1>4, NamingFacts DEF Unused
<1>6. toRegister \subseteq onDisk
  BY DEF LayoutInv, FilesInv, NewOutputs
<1>7. /\ \A f \in onDisk \cup files \cup bgSrcFiles : disk'[f] = disk[f]
      /\ \A f \in DOMAIN c : disk'[f] = c[f]
  BY <1>1, <1>2, <1>5 DEF Written
<1>8. s.src \in bgSrcFiles \cup {NoFile}
  BY <1>1 DEF LayoutInv, FilesInv, Owners
<1>9. \A o \in Outputs(bgTree, s, disk) :
        /\ Slotted(o) /\ o.keys \subseteq Foot(s, disk)
        /\ \A p \in Outputs(bgTree, s, disk) : o # p => Separate(o.keys, p.keys)
  <2>1. s.src # NoFile => Slotted(disk[s.src])
    BY <1>8 DEF LayoutInv, AllSlotted
  <2> QED  BY <1>1, <2>1, OutputsSeparate
<1>10. \A f, g \in DOMAIN c : f # g => Separate(c[f].keys, c[g].keys)
  <2>1. \A o \in Outputs(bgTree, s, disk) : o.keys # {}
    BY <1>9 DEF Slotted
  <2>2. \A f, g \in DOMAIN c : f # g => c[f] # c[g]
    BY <1>1, <1>4, <2>1, NamingApart
  <2> QED  BY <1>5, <1>9, <2>2
<1>11. Pending' \subseteq Pending \ {s}
  <2>1. s \notin queued
    BY DEF LayoutInv, Once
  <2> QED  BY <1>3, <2>1 DEF Pending
<1>12. RegistryApart'
  BY <1>3, <1>7 DEF LayoutInv, RegistryApart
<1>13. ASSUME NEW f \in DOMAIN c, NEW g \in files \cup toRegister
       PROVE  Separate(c[f].keys, disk[g].keys)
  <2>1. Separate(Foot(s, disk), disk[g].keys)
    BY <1>1 DEF LayoutInv, SlicesApart
  <2>2. c[f].keys \subseteq Foot(s, disk)
    BY <1>5, <1>9
  <2> QED  BY <2>1, <2>2, SeparateParts
<1>14. OutputsApart'
  <2> SUFFICES ASSUME NEW f \in files \cup toRegister \cup DOMAIN c,
                      NEW g \in files \cup toRegister \cup DOMAIN c, f # g
               PROVE  Separate(disk'[f].keys, disk'[g].keys)
    BY <1>2, <1>3 DEF OutputsApart
  <2>1. CASE f \in DOMAIN c /\ g \in DOMAIN c
    BY <1>7, <1>10, <2>1
  <2>2. CASE f \in DOMAIN c /\ g \in files \cup toRegister
    BY <1>6, <1>7, <1>13, <2>2
  <2>3. CASE f \in files \cup toRegister /\ g \in DOMAIN c
    BY <1>6, <1>7, <1>13, <2>3, SeparateSym
  <2>4. CASE f \in files \cup toRegister /\ g \in files \cup toRegister
    BY <1>6, <1>7, <2>4 DEF LayoutInv, OutputsApart
  <2> QED  BY <2>1, <2>2, <2>3, <2>4
<1>15. \A r \in Pending : Foot(r, disk') = Foot(r, disk)
  BY <1>7 DEF LayoutInv, FilesInv, Owners, Foot
<1>16. SlicesApart'
  <2>1. ASSUME NEW r \in Pending', NEW q \in Pending', r # q
        PROVE  Separate(Foot(r, disk'), Foot(q, disk'))
    BY <1>11, <1>15, <2>1 DEF LayoutInv, SlicesApart
  <2>2. ASSUME NEW r \in Pending', NEW f \in files \cup toRegister \cup DOMAIN c
        PROVE  Separate(Foot(r, disk'), disk'[f].keys)
    <3>1. CASE f \in DOMAIN c
      <4>1. Separate(Foot(r, disk), Foot(s, disk))
        BY <1>1, <1>11 DEF LayoutInv, SlicesApart
      <4>2. c[f].keys \subseteq Foot(s, disk)
        BY <1>5, <1>9, <3>1
      <4>3. Separate(Foot(r, disk), c[f].keys)
        BY <4>1, <4>2, SeparateParts
      <4> QED  BY <1>7, <1>11, <1>15, <3>1, <4>3
    <3>2. CASE f \in files \cup toRegister
      BY <1>6, <1>7, <1>11, <1>15, <3>2 DEF LayoutInv, SlicesApart
    <3> QED  BY <3>1, <3>2
  <2> QED  BY <1>2, <1>3, <2>1, <2>2 DEF SlicesApart
<1>17. AllSlotted'
  <2>1. \A f \in DOMAIN c : Slotted(c[f])
    BY <1>5, <1>9
  <2> QED  BY <1>2, <1>3, <1>7, <2>1 DEF LayoutInv, AllSlotted
<1> QED  BY <1>12, <1>14, <1>16, <1>17

\* The registry Finalize makes is one of the two the invariant knows: the registered
\* files with the outputs of slices that all succeeded, or with sources.
LEMMA FinalizeLayout ==
  ASSUME LayoutInv, Finalize
  PROVE  RegistryApart' /\ OutputsApart' /\ SlicesApart' /\ AllSlotted'
<1>1. /\ onDisk' = onDisk \ {f \in Discarded : Removable(f)}
      /\ disk' = Kept(disk, onDisk' \cup files \cup Registered)
  BY DEF Finalize
<1>2. /\ onDisk \subseteq FileId /\ files \cup Registered \in SUBSET FileId
      /\ disk \in [FileId -> File]
  BY DEF LayoutInv, FilesInv, TypeOK, Registered
<1>3. \A f \in onDisk' \cup files \cup Registered : disk'[f] = disk[f]
  BY <1>1, <1>2 DEF Kept
<1>4. disk' \in [FileId -> File]
  BY <1>1, <1>2, DiskType
<1>5. /\ \A f \in files \cup Registered : Slotted(disk[f])
      /\ \A f, g \in files \cup Registered : f # g => Separate(disk[f].keys, disk[g].keys)
  <2>1. toRegister \subseteq onDisk
    BY DEF LayoutInv, FilesInv, NewOutputs
  <2>2. Registered \subseteq bgSrcFiles \/ Registered = toRegister
    BY DEF Registered
  <2> QED  BY <2>1, <2>2 DEF LayoutInv, AllSlotted, RegistryApart, OutputsApart
<1>6. Ranged(files \cup Registered, disk')
  BY <1>3, <1>5 DEF Ranged, Slotted
<1>7. files' \cup bgSrcFiles' = files \cup Registered /\ toRegister' = {}
  BY FinalizeFiles DEF LayoutInv
<1>8. AllSlotted'
  <2>1. \A f \in onDisk' : Slotted(disk[f])
    BY <1>1 DEF LayoutInv, AllSlotted
  <2> QED  BY <1>3, <1>5, <1>7, <2>1 DEF AllSlotted
<1>9. RegistryApart' /\ OutputsApart' /\ SlicesApart'
  <2>1. CASE Launch(memTree, Empty, files \cup Registered, disk')
    BY <1>2, <1>4, <1>6, <2>1, LaunchLayout
  <2>2. CASE ~(Chains /\ memTree # Empty)
    <3>1. /\ files' = files \cup Registered /\ bgSrcFiles' = {} /\ toRegister' = {}
          /\ queued' = {} /\ running' = {}
      BY <2>2 DEF Finalize
    <3> QED  BY <1>3, <1>5, <3>1 DEF RegistryApart, OutputsApart, SlicesApart, Pending
  <2> QED  BY <2>1, <2>2 DEF Finalize
<1> QED  BY <1>8, <1>9

LEMMA LayoutStep ==
  ASSUME LayoutInv, [Next]_vars
  PROVE  LayoutInv'
<1>1. FilesInv' /\ Once'
  BY FilesStep, OnceStep DEF LayoutInv
<1>2. RegistryApart' /\ OutputsApart' /\ SlicesApart' /\ AllSlotted'
  <2>1. CASE UNCHANGED vars
    <3>1. UNCHANGED <<fileVars, jobVars>> /\ Pending' = Pending
      BY <2>1 DEF vars, jobVars, sliceVars, Pending
    <3> QED  BY <3>1, LayoutSame DEF LayoutInv, AllSlotted, fileVars, jobVars, sliceVars
  <2>2. CASE \E s \in running : SliceMerge(s)
    BY <2>2, SliceMergeLayout
  <2> QED  BY <2>1, <2>2, InsertLayout, FileOpLayout, IterOpLayout, QuietWorkerLayout,
              FinalizeLayout DEF Next, Worker
<1> QED  BY <1>1, <1>2 DEF LayoutInv

LEMMA InitLayout == Init => LayoutInv
BY InitFiles DEF Init, LayoutInv, RegistryApart, OutputsApart, SlicesApart, AllSlotted, Pending,
                 Once

\* Files whose keys are separate have disjoint ranges.
LEMMA LayoutApart ==
  ASSUME LayoutInv
  PROVE  /\ \A f, g \in files \cup bgSrcFiles : f # g => Apart(f, g)
         /\ \A f, g \in files \cup toRegister : f # g => Apart(f, g)
<1>1. \A f \in files \cup bgSrcFiles \cup toRegister : disk[f] \in File /\ disk[f].keys # {}
  BY DEF LayoutInv, FilesInv, TypeOK, NewOutputs, AllSlotted, Slotted
<1>2. \A f, g \in files \cup bgSrcFiles \cup toRegister :
        Separate(disk[f].keys, disk[g].keys) => Apart(f, g)
  BY <1>1, SeparateRanges DEF Apart
<1> QED  BY <1>2 DEF LayoutInv, RegistryApart, OutputsApart

-----------------------------------------------------------------------------
(* How much a file holds.                                                  *)

FilesFit  == \A f \in onDisk : Cardinality(disk[f].keys) <= MaxFileRecords
SlicesFit == \A s \in Pending : s.src = NoFile => Cardinality(s.keys) <= MaxFileRecords

LEMMA LaunchFit ==
  ASSUME MaxFileRecords > 1, NEW t, NEW rest, NEW fs \in SUBSET FileId, NEW d,
         Launch(t, rest, fs, d)
  PROVE  SlicesFit'
<1>1. PICK plan \in Plans(t, fs, d) : queued' = plan /\ running' = {}
  BY DEF Launch
<1>2. Pending' = plan
  BY <1>1 DEF Pending
<1> QED  BY <1>2, PlanFits DEF SlicesFit

LEMMA SlicesFitStep ==
  ASSUME MaxFileRecords > 1, TypeOK, SlicesFit, [Next]_vars
  PROVE  SlicesFit'
<1>0. files \in SUBSET FileId /\ files \cup Registered \in SUBSET FileId
  BY DEF TypeOK, Registered
<1>1. ASSUME Pending' \subseteq Pending
      PROVE  SlicesFit'
  BY <1>1 DEF SlicesFit
<1>2. ASSUME UNCHANGED <<queued, running>>
      PROVE  SlicesFit'
  BY <1>1, <1>2 DEF Pending
<1>3. ASSUME NEW k \in Key, NEW v \in Val, Put(k, v) \/ FlushAndPut(k, v)
      PROVE  SlicesFit'
  <2>1. ASSUME NEW t, NEW rest, Launch(t, rest, files, disk)
        PROVE  SlicesFit'
    BY <1>0, <2>1, LaunchFit
  <2> QED  BY <1>2, <1>3, <2>1 DEF Put, FlushAndPut, jobVars, sliceVars
<1>4. CASE NewInsert \/ Resume
  BY <1>2, <1>3, <1>4
     DEF NewInsert, Resume, Insert, InsertFlushes, InsertWaits, InsertResumes, jobVars, sliceVars
<1>5. CASE FileOps \/ IterOps \/ Signal \/ UNCHANGED vars
  BY <1>2, <1>5 DEF FileOps, SyncFlush, Delete, Update, IterOps, IterOpen, IterNext, IterClose,
                    Signal, vars, jobVars, sliceVars
<1>6. CASE Finalize
  BY <1>0, <1>2, <1>6, LaunchFit DEF Finalize
<1>7. CASE \/ \E s \in queued : SliceOpen(s)
           \/ \E s \in running : SliceMerge(s) \/ SliceFail(s)
  <2>1. Pending' \subseteq Pending
    BY <1>7 DEF SliceOpen, SliceMerge, SliceFail, Pending
  <2> QED  BY <1>1, <2>1
<1> QED  BY <1>4, <1>5, <1>6, <1>7 DEF Next, Worker

LEMMA RewriteFit ==
  ASSUME MaxFileRecords > 1, LayoutInv, FilesFit, ~bgPending,
         NEW plan \in Plans(memTree, files, disk),
         NEW c \in Naming(PlanOutputs(memTree, plan, disk)), FlushRewrites(plan, c),
         NEW d, d = Written(c)
  PROVE  \A f \in onDisk' : Cardinality(d[f].keys) <= MaxFileRecords
<1>1. /\ memTree \in Tree /\ disk \in [FileId -> File] /\ files \in SUBSET FileId
      /\ onDisk \subseteq FileId
  BY DEF LayoutInv, FilesInv, TypeOK
<1>2. PlanOutputs(memTree, plan, disk) \in SUBSET File
  BY <1>1, PlanOutputsType
<1>3. /\ DOMAIN c \cap onDisk = {} /\ DOMAIN c \subseteq FileId
      /\ onDisk' \subseteq onDisk \cup DOMAIN c
  BY RewriteFiles DEF LayoutInv, FlushRewrites
<1>4. plan \subseteq Slice
  BY <1>1, PlanType
<1>5. \A f \in DOMAIN c : c[f] \in PlanOutputs(memTree, plan, disk)
  BY <1>2, NamingFacts
<1>6. ASSUME NEW s \in plan, NEW o \in Outputs(memTree, s, disk)
      PROVE  Cardinality(o.keys) <= MaxFileRecords
  <2>1. s.src = NoFile => Cardinality(s.keys) <= MaxFileRecords
    BY <1>1, PlanFits
  <2> QED  BY <1>1, <1>4, <2>1, OutputsFit
<1>7. \A f \in DOMAIN c : Cardinality(c[f].keys) <= MaxFileRecords
  BY <1>5, <1>6 DEF PlanOutputs
<1>8. /\ \A f \in DOMAIN c : d[f] = c[f]
      /\ \A f \in onDisk : d[f] = disk[f]
  BY <1>1, <1>3 DEF Written
<1> QED  BY <1>3, <1>7, <1>8 DEF FilesFit

LEMMA FlushFit ==
  ASSUME MaxFileRecords > 1, LayoutInv, FilesFit, ~bgPending, FlushMemTree
  PROVE  FilesFit'
<1>1. CASE memTree = Empty
  BY <1>1 DEF FlushMemTree, FilesFit
<1>2. CASE memTree # Empty
  <2>1. PICK plan \in Plans(memTree, files, disk) :
             \E c \in Naming(PlanOutputs(memTree, plan, disk)) :
               FlushRewrites(plan, c) /\ disk' = Kept(Written(c), onDisk' \cup files')
    BY <1>2 DEF FlushMemTree
  <2>2. PICK c \in Naming(PlanOutputs(memTree, plan, disk)) :
               FlushRewrites(plan, c) /\ disk' = Kept(Written(c), onDisk' \cup files')
    BY <2>1
  <2>3. PICK d : d = Written(c)
    OBVIOUS
  <2>4. onDisk' \subseteq FileId
    BY <2>2, FlushRewritesTypes DEF LayoutInv, FilesInv
  <2>5. \A f \in onDisk' : disk'[f] = d[f]
    BY <2>2, <2>3, <2>4 DEF Kept
  <2>6. \A f \in onDisk' : Cardinality(d[f].keys) <= MaxFileRecords
    BY <2>2, <2>3, RewriteFit
  <2> QED  BY <2>5, <2>6 DEF FilesFit
<1> QED  BY <1>1, <1>2

LEMMA FileOpFit ==
  ASSUME MaxFileRecords > 1, LayoutInv, FilesFit, FileOps
  PROVE  FilesFit'
<1>0. TypeOK /\ onDisk \subseteq FileId /\ files \subseteq FileId /\ disk \in [FileId -> File]
  BY DEF LayoutInv, FilesInv, TypeOK
<1>1. ~bgPending
  BY DEF FileOps, SyncFlush, Delete, Update
<1>2. ASSUME onDisk' = onDisk, \A f \in FileId : disk'[f].keys = disk[f].keys
      PROVE  FilesFit'
  BY <1>0, <1>2 DEF FilesFit
<1>3. ASSUME SyncFlush PROVE FilesFit'
  BY <1>1, <1>3, FlushFit DEF SyncFlush
<1>4. ASSUME NEW k \in Key, Delete(k) PROVE FilesFit'
  <2>1. onDisk' = onDisk /\ (disk' = disk \/ \E g \in files : disk' = Tombstoned(k, g))
    BY <1>4 DEF Delete, Covering
  <2>2. ASSUME NEW g \in files, disk' = Tombstoned(k, g)
        PROVE  \A f \in FileId : disk'[f].keys = disk[f].keys
    BY <1>0, <2>2, TombstonedKeys
  <2> QED  BY <1>2, <2>1, <2>2
<1>5. ASSUME NEW k \in Key, NEW v \in Val, Update(k, v) PROVE FilesFit'
  <2>1. CASE memTree[k] = {}
    <3>1. disk' = Overwritten(disk, files \cap onDisk, k, v) /\ onDisk' = onDisk
      BY <1>5, <2>1 DEF Update
    <3>2. \A f \in FileId : disk'[f].keys = disk[f].keys
      BY <1>0, <3>1, OverwrittenKeys
    <3> QED  BY <1>2, <3>1, <3>2
  <2>2. CASE memTree[k] # {}
    <3>1. PICK plan \in Plans(memTree, files, disk) :
               \E c \in Naming(PlanOutputs(memTree, plan, disk)) :
                 /\ FlushRewrites(plan, c)
                 /\ disk' = Overwritten(Kept(Written(c), onDisk' \cup files'),
                                        files' \cap onDisk', k, v)
      BY <1>5, <2>2 DEF Update
    <3>2. PICK c \in Naming(PlanOutputs(memTree, plan, disk)) :
                 /\ FlushRewrites(plan, c)
                 /\ disk' = Overwritten(Kept(Written(c), onDisk' \cup files'),
                                        files' \cap onDisk', k, v)
      BY <3>1
    <3>3. PICK d : d = Written(c)
      OBVIOUS
    <3>4. onDisk' \cup files' \subseteq FileId /\ d \in [FileId -> File]
      BY <1>0, <3>2, <3>3, FlushRewritesTypes
    <3>5. PICK used : used = onDisk' \cup files'
      OBVIOUS
    <3>6. PICK present : present = files' \cap onDisk'
      OBVIOUS
    <3>7. PICK e : e = Kept(d, used)
      OBVIOUS
    <3>8. e \in [FileId -> File] /\ \A f \in used : e[f] = d[f]
      BY <3>4, <3>5, <3>7, DiskType DEF Kept
    <3>9. disk' = Overwritten(e, present, k, v)
      BY <3>2, <3>3, <3>5, <3>6, <3>7
    <3>10. \A f \in used : disk'[f].keys = d[f].keys
      BY <3>4, <3>5, <3>8, <3>9, OverwrittenKeys
    <3>11. \A f \in onDisk' : Cardinality(d[f].keys) <= MaxFileRecords
      BY <1>1, <3>2, <3>3, RewriteFit
    <3> QED  BY <3>5, <3>10, <3>11 DEF FilesFit
  <2> QED  BY <2>1, <2>2
<1> QED  BY <1>3, <1>4, <1>5 DEF FileOps

LEMMA FitStep ==
  ASSUME MaxFileRecords > 1, LayoutInv, FilesFit, SlicesFit, [Next]_vars
  PROVE  FilesFit'
<1>0. /\ TypeOK /\ onDisk \subseteq FileId /\ files \cup bgSrcFiles \subseteq FileId
      /\ disk \in [FileId -> File] /\ bgTree \in Tree
  BY DEF LayoutInv, FilesInv, TypeOK
<1>1. ASSUME onDisk' \subseteq onDisk, \A f \in onDisk' : disk'[f] = disk[f]
      PROVE  FilesFit'
  BY <1>1 DEF FilesFit
<1>2. CASE NewInsert \/ Resume
  BY <1>1, <1>2, InsertLayout
<1>3. CASE \E i \in Iter : IterOpen(i)
  BY <1>3, FlushFit DEF IterOpen
<1>4. ASSUME NEW i \in Iter, IterNext(i) \/ IterClose(i)
      PROVE  FilesFit'
  <2>1. /\ onDisk' \subseteq onDisk
        /\ disk' = disk \/ disk' = Kept(disk, onDisk' \cup files \cup bgSrcFiles)
    BY <1>4 DEF IterNext, IterClose, fileVars
  <2> QED  BY <1>0, <1>1, <2>1 DEF Kept
<1>5. CASE \/ UNCHANGED vars
           \/ \E s \in queued : SliceOpen(s)
           \/ \E s \in running : SliceFail(s)
           \/ Signal
  BY <1>1, <1>5 DEF SliceOpen, SliceFail, Signal, vars, fileVars
<1>6. CASE Finalize
  <2>1. /\ onDisk' \subseteq onDisk
        /\ disk' = Kept(disk, onDisk' \cup files \cup Registered)
    BY <1>6 DEF Finalize
  <2> QED  BY <1>0, <1>1, <2>1 DEF Kept
<1>7. ASSUME NEW s \in running, SliceMerge(s)
      PROVE  FilesFit'
  <2>1. PICK c \in Naming(Outputs(bgTree, s, disk)) :
          disk' = Written(c) /\ onDisk' = onDisk \cup DOMAIN c
    BY <1>7 DEF SliceMerge
  <2>2. s \in Slice /\ (s.src = NoFile => Cardinality(s.keys) <= MaxFileRecords)
    BY DEF LayoutInv, FilesInv, TypeOK, SlicesFit, Pending
  <2>3. Outputs(bgTree, s, disk) \in SUBSET File
    BY <1>0, <2>2, OutputsType
  <2>4. /\ DOMAIN c \subseteq FileId /\ DOMAIN c \cap onDisk = {}
        /\ \A f \in DOMAIN c : c[f] \in Outputs(bgTree, s, disk)
    BY <2>3, NamingFacts DEF Unused
  <2>5. \A o \in Outputs(bgTree, s, disk) : Cardinality(o.keys) <= MaxFileRecords
    BY <1>0, <2>2, OutputsFit
  <2>6. /\ \A f \in onDisk : disk'[f] = disk[f]
        /\ \A f \in DOMAIN c : disk'[f] = c[f]
    BY <1>0, <2>1, <2>4 DEF Written
  <2> QED  BY <2>1, <2>4, <2>5, <2>6 DEF FilesFit
<1> QED  BY <1>2, <1>3, <1>4, <1>5, <1>6, <1>7, FileOpFit DEF Next, IterOps, Worker

\* A record that is not in memory is in one file, so that the first part a lookup
\* meets is the whole record.
LEMMA FindsWhole ==
  ASSUME LayoutInv, NEW k \in Key, memTree[k] = {}, bgTree[k] = {}
  PROVE  TSFind(k) = Visible(k)
<1> DEFINE All        == files \cup bgSrcFiles
           Holding(S) == {f \in S \cap onDisk : disk[f].recs[k] # {}}
           First(S)   == disk[CHOOSE f \in Holding(S) : TRUE].recs[k]
<1>1. \A f \in All : disk[f] \in File /\ KeysOf(disk[f].recs) \subseteq disk[f].keys
  BY DEF LayoutInv, FilesInv, TypeOK, AllSlotted, Slotted
<1>2. \A f \in Holding(All) : k \in disk[f].keys
  BY <1>1 DEF KeysOf
<1>3. ASSUME NEW f \in Holding(All), NEW g \in Holding(All)
      PROVE  f = g
  <2>1. f # g => Separate(disk[f].keys, disk[g].keys)
    BY DEF LayoutInv, RegistryApart
  <2> QED  BY <1>2, <2>1, MergeAssumption DEF Separate, Key
<1>4. Visible(k) = UNION {disk[f].recs[k] : f \in Holding(All)}
  BY DEF Visible
<1>5. ASSUME NEW S \in {files, bgSrcFiles}, NEW f \in Holding(S)
      PROVE  Visible(k) = First(S)
  <2> DEFINE g == CHOOSE h \in Holding(S) : TRUE
  <2>1. g \in Holding(S)
    OBVIOUS
  <2>2. g \in Holding(All)
    BY <2>1
  <2> HIDE DEF g
  <2>3. Holding(All) = {g}
    BY <1>3, <2>2
  <2>4. Visible(k) = disk[g].recs[k]
    BY <1>4, <2>3
  <2> QED  BY <2>4 DEF g
<1>6. Holding(All) = Holding(files) \cup Holding(bgSrcFiles)
  OBVIOUS
<1>7. Holding(All) = {} => Visible(k) = {}
  BY <1>4
<1>8. TSFind(k) = IF Holding(files) # {} THEN First(files)
                  ELSE IF Holding(bgSrcFiles) # {} THEN First(bgSrcFiles) ELSE {}
  BY DEF TSFind
<1> HIDE DEF First, Holding
<1> QED  BY <1>5, <1>6, <1>7, <1>8

\* Files of more than one record: no two files a lookup can reach cover the same key,
\* a lookup finds the whole of a record that is not in memory, and no file outgrows
\* its limit, through every interleaving of slices and callers, with slices that fail
\* and files that iterators keep on disk.
THEOREM LayoutStays ==
  ASSUME MaxFileRecords > 1
  PROVE  Spec => []LayoutSound
<1> DEFINE I == LayoutInv /\ FilesFit /\ SlicesFit
<1>1. Init => I
  BY InitLayout DEF Init, FilesFit, SlicesFit, Pending
<1>2. I /\ [Next]_vars => I'
  <2> SUFFICES ASSUME I, [Next]_vars PROVE I'
    OBVIOUS
  <2>1. LayoutInv'
    BY LayoutStep
  <2>2. FilesFit'
    BY FitStep
  <2>3. SlicesFit'
    BY SlicesFitStep DEF LayoutInv, FilesInv
  <2> QED  BY <2>1, <2>2, <2>3
<1>3. I => LayoutSound
  BY LayoutApart, FindsWhole DEF LayoutSound, FilesFit
<1> QED  BY <1>1, <1>2, <1>3, PTL DEF Spec

\* In particular no two files a lookup can reach cover the same key, whatever the
\* limit on the size of a file.
THEOREM RangesApart ==
  Spec => [](\A f, g \in files \cup bgSrcFiles : f # g => Apart(f, g))
<1>1. LayoutInv /\ [Next]_vars => LayoutInv'
  BY LayoutStep
<1>2. LayoutInv => \A f, g \in files \cup bgSrcFiles : f # g => Apart(f, g)
  BY LayoutApart
<1> QED  BY InitLayout, <1>1, <1>2, PTL DEF Spec

-----------------------------------------------------------------------------
(* What a flush under the lock writes is what the tree and the files it    *)
(* rewrites held.                                                          *)

RecsIn(outs, k)  == UNION {o.recs[k] : o \in outs}
RecsOf(S, d, k) == UNION {d[f].recs[k] : f \in S}

LEMMA PlanKeeps ==
  ASSUME HasMergeFn, NEW t \in Tree, NEW fs \in SUBSET FileId, NEW d \in [FileId -> File],
         NEW plan \in Plans(t, fs, d), NEW k \in Key
  PROVE  RecsIn(PlanOutputs(t, plan, d), k) = t[k] \cup RecsOf(Sources(plan), d, k)
<1>1. plan \subseteq Slice /\ \A s \in plan : s.src \in Sources(plan) \cup {NoFile}
  BY PlanType
<1>2. ASSUME NEW s \in plan
      PROVE  /\ UNION {o.recs[k] : o \in Outputs(t, s, d)} = Merged(t, s, d)[k]
             /\ Merged(t, s, d)[k] = (IF k \in s.keys THEN t[k] ELSE {})
                                \cup (IF s.src = NoFile THEN {} ELSE d[s.src].recs[k])
  BY <1>1, OutputsExact, MergedUnion
<1>3. UNION {o.recs[k] : o \in PlanOutputs(t, plan, d)} = UNION {Merged(t, s, d)[k] : s \in plan}
  BY <1>2 DEF PlanOutputs
<1>4. UNION {Merged(t, s, d)[k] : s \in plan}
        \subseteq t[k] \cup UNION {d[f].recs[k] : f \in Sources(plan)}
  BY <1>1, <1>2
<1>5. t[k] \subseteq UNION {Merged(t, s, d)[k] : s \in plan}
  <2>1. t[k] # {} => \E s \in plan : k \in s.keys
    BY PlanCovers DEF KeysOf
  <2> QED  BY <1>2, <2>1
<1>6. ASSUME NEW f \in Sources(plan) PROVE d[f].recs[k] \subseteq UNION {Merged(t, s, d)[k] : s \in plan}
  <2>1. PICK s \in plan : s.src = f /\ f # NoFile
    BY DEF Sources
  <2> QED  BY <1>2, <2>1
<1> QED  BY <1>3, <1>4, <1>5, <1>6 DEF RecsIn, RecsOf

LEMMA IdleView ==
  ASSUME FilesInv, ~bgPending, NEW k \in Key
  PROVE  View[k] = memTree[k] \cup UNION {disk[f].recs[k] : f \in files \cap onDisk}
<1>1. bgTree[k] = {} /\ bgSrcFiles = {}
  BY IdleFiles DEF Empty
<1> QED  BY <1>1 DEF View, Visible

LEMMA RewriteView ==
  ASSUME HasMergeFn, FilesInv, ~bgPending, NEW plan \in Plans(memTree, files, disk),
         NEW c \in Naming(PlanOutputs(memTree, plan, disk)), FlushRewrites(plan, c),
         NEW d, d = Written(c), NEW k \in Key
  PROVE  UNION {d[f].recs[k] : f \in files' \cap onDisk'} = View[k]
<1> DEFINE outs == PlanOutputs(memTree, plan, disk)
           rest == (files \ Sources(plan)) \cap onDisk
<1>1. /\ memTree \in Tree /\ disk \in [FileId -> File] /\ files \in SUBSET FileId
      /\ onDisk \subseteq FileId
  BY DEF FilesInv, TypeOK
<1>2. outs \in SUBSET File
  BY <1>1, PlanOutputsType
<1>3. /\ DOMAIN c \cap (onDisk \cup files) = {} /\ DOMAIN c \subseteq FileId
  BY RewriteFiles
<1>4. files' \cap onDisk' = rest \cup DOMAIN c
  BY <1>3 DEF FlushRewrites
<1>5. Sources(plan) \subseteq files \cap onDisk
  BY <1>1, PlanType DEF FlushRewrites
<1>6. \A f \in DOMAIN c : d[f] = c[f]
  BY <1>3 DEF Written
<1>7. \A f \in rest : d[f] = disk[f]
  BY <1>1, <1>3 DEF Written
<1>8. UNION {d[f].recs[k] : f \in DOMAIN c} = UNION {o.recs[k] : o \in outs}
  <2>1. (\A f \in DOMAIN c : c[f] \in outs) /\ (\A o \in outs : \E f \in DOMAIN c : c[f] = o)
    BY <1>2, NamingFacts
  <2> HIDE DEF outs
  <2> QED  BY <1>6, <2>1
<1>9. UNION {o.recs[k] : o \in outs} = memTree[k] \cup UNION {disk[f].recs[k] : f \in Sources(plan)}
  <2>1. RecsIn(outs, k) = memTree[k] \cup RecsOf(Sources(plan), disk, k)
    BY <1>1, PlanKeeps
  <2> HIDE DEF outs
  <2> QED  BY <2>1 DEF RecsIn, RecsOf
<1>10. UNION {d[f].recs[k] : f \in rest} = UNION {disk[f].recs[k] : f \in rest}
  BY <1>7
<1>11. rest \cup Sources(plan) = files \cap onDisk
  BY <1>5
<1>12. UNION {d[f].recs[k] : f \in files' \cap onDisk'}
         = (UNION {d[f].recs[k] : f \in rest}) \cup UNION {d[f].recs[k] : f \in DOMAIN c}
  <2> HIDE DEF rest
  <2> QED  BY <1>4
<1>13. UNION {disk[f].recs[k] : f \in files \cap onDisk}
         = (UNION {disk[f].recs[k] : f \in rest}) \cup UNION {disk[f].recs[k] : f \in Sources(plan)}
  <2> HIDE DEF rest
  <2> QED  BY <1>11
<1>14. View[k] = memTree[k] \cup UNION {disk[f].recs[k] : f \in files \cap onDisk}
  BY IdleView
<1> HIDE DEF rest, outs
<1> QED  BY <1>8, <1>9, <1>10, <1>12, <1>13, <1>14

\* A flush leaves every record of the store in the registry, and adds none; files that
\* iterators read are left as they were.
LEMMA FlushView ==
  ASSUME FilesInv, ~bgPending, FlushMemTree
  PROVE  /\ HasMergeFn => \A k \in Key : UNION {disk'[f].recs[k] : f \in files' \cap onDisk'} = View[k]
         /\ \A f \in onDisk \cap onDisk' : disk'[f] = disk[f]
         /\ memTree' = Empty
<1>1. CASE memTree = Empty
  <2>1. \A k \in Key : memTree[k] = {}
    BY <1>1 DEF Empty
  <2>2. UNCHANGED <<memTree, files, onDisk, disk>>
    BY <1>1 DEF FlushMemTree
  <2> QED  BY <1>1, <2>1, <2>2, IdleView
<1>2. CASE memTree # Empty
  <2>1. PICK plan \in Plans(memTree, files, disk) :
             \E c \in Naming(PlanOutputs(memTree, plan, disk)) :
               FlushRewrites(plan, c) /\ disk' = Kept(Written(c), onDisk' \cup files')
    BY <1>2 DEF FlushMemTree
  <2>2. PICK c \in Naming(PlanOutputs(memTree, plan, disk)) :
               FlushRewrites(plan, c) /\ disk' = Kept(Written(c), onDisk' \cup files')
    BY <2>1
  <2>3. PICK d : d = Written(c)
    OBVIOUS
  <2>4. onDisk' \subseteq FileId /\ files' \subseteq FileId /\ TypeOK /\ onDisk \subseteq FileId
    BY <2>2, FlushRewritesTypes DEF FilesInv, TypeOK
  <2>5. \A f \in onDisk' : disk'[f] = d[f]
    BY <2>2, <2>3, <2>4 DEF Kept
  <2>6. \A f \in onDisk : d[f] = disk[f]
    BY <2>2, <2>3, <2>4, RewriteFiles DEF Written
  <2>7. HasMergeFn => \A k \in Key : UNION {d[f].recs[k] : f \in files' \cap onDisk'} = View[k]
    BY <2>2, <2>3, RewriteView
  <2>8. \A k \in Key : UNION {disk'[f].recs[k] : f \in files' \cap onDisk'}
                         = UNION {d[f].recs[k] : f \in files' \cap onDisk'}
    BY <2>5
  <2> QED  BY <2>2, <2>5, <2>6, <2>7, <2>8 DEF FlushRewrites
<1> QED  BY <1>1, <1>2

-----------------------------------------------------------------------------
(* Iterators.                                                              *)

\* An iterator is not affected by a step that leaves the files it has open alone.
LEMMA IsolationSame ==
  ASSUME IteratorIsolation, iter' = iter,
         \A i \in Iter : iter[i].open => \A f \in iter[i].held : disk'[f] = disk[f]
  PROVE  IteratorIsolation'
<1> SUFFICES ASSUME NEW i \in Iter, iter[i].open, NEW k \in Key, k > iter[i].pos
             PROVE  UNION {disk'[f].recs[k] : f \in iter[i].held} = iter[i].at[k]
  BY DEF IteratorIsolation
<1>1. UNION {disk'[f].recs[k] : f \in iter[i].held} = UNION {disk[f].recs[k] : f \in iter[i].held}
  OBVIOUS
<1> QED  BY <1>1 DEF IteratorIsolation

LEMMA FileOpIsolation ==
  ASSUME LayoutInv, IteratorIsolation, FileOps
  PROVE  IteratorIsolation'
<1>0. TypeOK /\ FilesInv /\ files \subseteq FileId /\ onDisk \subseteq FileId
  BY DEF LayoutInv, FilesInv, TypeOK
<1>1. ~bgPending /\ iter' = iter
  BY DEF FileOps, SyncFlush, Delete, Update, callerVars
<1>2. \A i \in Iter : \A f \in iter[i].held : f \in onDisk /\ HeldByIter(f)
  BY <1>0 DEF FilesInv, Holds, HeldByIter
<1>3. ASSUME SyncFlush PROVE IteratorIsolation'
  <2>1. FlushMemTree
    BY <1>3 DEF SyncFlush
  <2>2. \A f \in onDisk : HeldByIter(f) => f \in onDisk'
    BY <1>0, <1>1, <2>1, FlushFiles
  <2>3. \A f \in onDisk \cap onDisk' : disk'[f] = disk[f]
    BY <1>0, <1>1, <2>1, FlushView
  <2> QED  BY <1>1, <1>2, <2>2, <2>3, IsolationSame
<1>4. ASSUME NEW k \in Key, Delete(k) PROVE IteratorIsolation'
  <2>1. disk' = disk \/ \E g \in files : disk' = Tombstoned(k, g)
    BY <1>4 DEF Delete, Covering
  <2>2. ASSUME NEW g \in files, disk' = Tombstoned(k, g), NEW f \in FileId, HeldByIter(f)
        PROVE  disk'[f] = disk[f]
    <3>1. f # g \/ ~Writable(g)
      BY <2>2 DEF Writable
    <3> QED  BY <1>0, <2>2, <3>1, TombstonedKeys
  <2>3. \A i \in Iter : \A f \in iter[i].held : disk'[f] = disk[f]
    BY <1>0, <1>2, <2>1, <2>2
  <2> QED  BY <1>1, <2>3, IsolationSame
<1>5. ASSUME NEW k \in Key, NEW v \in Val, Update(k, v) PROVE IteratorIsolation'
  <2> DEFINE Open == {i \in Iter : iter[i].open}
  <2>1. Cardinality(Open) = 0
    BY <1>5 DEF Update, IterCount
  <2>2. IsFiniteSet(Open)
    BY FS_Subset, StoreAssumption
  <2>3. Open = {}
    <3> HIDE DEF Open
    <3> QED  BY <2>1, <2>2, FS_EmptySet
  <2>4. \A i \in Iter : ~iter[i].open
    BY <2>3
  <2> QED  BY <1>1, <2>4, IsolationSame
<1> QED  BY <1>3, <1>4, <1>5 DEF FileOps

LEMMA IterOpenIsolation ==
  ASSUME HasMergeFn, LayoutInv, IteratorIsolation, NEW i \in Iter, IterOpen(i)
  PROVE  IteratorIsolation'
<1>0. FilesInv /\ iter \in [Iter -> Iterator]
  BY DEF LayoutInv, FilesInv, TypeOK
<1>1. ~bgPending /\ FlushMemTree
  BY DEF IterOpen
<1>2. /\ iter'[i].held = files' \cap onDisk' /\ iter'[i].at = View
      /\ \A j \in Iter \ {i} : iter'[j] = iter[j]
  BY <1>0 DEF IterOpen, View
<1>3. \A f \in onDisk : HeldByIter(f) => f \in onDisk'
  BY <1>0, <1>1, FlushFiles
<1>4. /\ \A k \in Key : UNION {disk'[f].recs[k] : f \in files' \cap onDisk'} = View[k]
      /\ \A f \in onDisk \cap onDisk' : disk'[f] = disk[f]
  BY <1>0, <1>1, FlushView
<1> SUFFICES ASSUME NEW j \in Iter, iter'[j].open, NEW k \in Key, k > iter'[j].pos
             PROVE  UNION {disk'[f].recs[k] : f \in iter'[j].held} = iter'[j].at[k]
  BY DEF IteratorIsolation
<1>5. CASE j = i
  BY <1>2, <1>4, <1>5
<1>6. CASE j # i
  <2>1. iter'[j] = iter[j]
    BY <1>2, <1>6
  <2>2. \A f \in iter[j].held : disk'[f] = disk[f]
    BY <1>0, <1>3, <1>4 DEF FilesInv, Holds, HeldByIter
  <2>3. UNION {disk'[f].recs[k] : f \in iter[j].held} = UNION {disk[f].recs[k] : f \in iter[j].held}
    BY <2>2
  <2>4. UNION {disk[f].recs[k] : f \in iter[j].held} = iter[j].at[k]
    BY <2>1 DEF IteratorIsolation
  <2> QED  BY <2>1, <2>3, <2>4
<1> QED  BY <1>5, <1>6

\* A file that is closed early, or the end of the iteration, hides no record: the slots
\* passed are all the file has.
LEMMA IterNextIsolation ==
  ASSUME LayoutInv, IteratorIsolation, NEW i \in Iter, IterNext(i)
  PROVE  IteratorIsolation'
<1>0. /\ iter \in [Iter -> Iterator] /\ disk \in [FileId -> File]
      /\ iter[i].pos \in 0..MaxKey /\ iter[i].held \subseteq onDisk /\ onDisk \subseteq FileId
  BY DEF LayoutInv, FilesInv, TypeOK, Iterator, Holds
<1>1. iter[i].open /\ disk' = disk
  BY DEF IterNext, fileVars
<1>2. \A k \in Key : k > iter[i].pos => UNION {disk[f].recs[k] : f \in iter[i].held} = iter[i].at[k]
  BY <1>1 DEF IteratorIsolation
<1>3. ASSUME NEW p \in Nat, NEW H \in SUBSET iter[i].held,
             \A j \in Iter \ {i} : iter'[j] = iter[j],
             iter'[i].pos = p, iter'[i].held = H, iter'[i].at = iter[i].at,
             \A k \in Key : k > p => k > iter[i].pos,
             \A k \in Key, f \in iter[i].held \ H : k > p => disk[f].recs[k] = {}
      PROVE  IteratorIsolation'
  <2> SUFFICES ASSUME NEW j \in Iter, iter'[j].open, NEW k \in Key, k > iter'[j].pos
               PROVE  UNION {disk[f].recs[k] : f \in iter'[j].held} = iter'[j].at[k]
    BY <1>1 DEF IteratorIsolation
  <2>1. CASE j = i
    <3>1. UNION {disk[f].recs[k] : f \in H} = UNION {disk[f].recs[k] : f \in iter[i].held}
      BY <1>3, <2>1
    <3> QED  BY <1>2, <1>3, <2>1, <3>1
  <2>2. CASE j # i
    BY <1>3, <2>2 DEF IteratorIsolation
  <2> QED  BY <2>1, <2>2
<1>4. CASE Ahead(i) = {}
  <2>1. /\ \A j \in Iter \ {i} : iter'[j] = iter[j]
        /\ iter'[i].pos = iter[i].pos /\ iter'[i].held = {} /\ iter'[i].at = iter[i].at
    <3>1. iter' = [iter EXCEPT ![i].held = {}]
      BY <1>4 DEF IterNext
    <3> QED  BY <1>0, <3>1 DEF Iterator
  <2>2. \A k \in Key, f \in iter[i].held : k > iter[i].pos => disk[f].recs[k] = {}
    BY <1>4 DEF Ahead
  <2>3. iter[i].pos \in Nat
    BY <1>0, MergeAssumption
  <2> QED  BY <1>3, <2>1, <2>2, <2>3
<1>5. CASE Ahead(i) # {}
  <2>1. PICK p \in Ahead(i) :
          iter' = [iter EXCEPT ![i].pos = p, ![i].held = {f \in @ : Hi(disk[f]) >= p}]
    BY <1>5 DEF IterNext
  <2>2. /\ \A j \in Iter \ {i} : iter'[j] = iter[j]
        /\ iter'[i].pos = p /\ iter'[i].held = {f \in iter[i].held : Hi(disk[f]) >= p}
        /\ iter'[i].at = iter[i].at
    BY <1>0, <2>1 DEF Iterator
  <2>3. p \in Key /\ p > iter[i].pos /\ p \in Nat /\ iter[i].pos \in Nat
    <3>1. p \in Key /\ p > iter[i].pos
      BY DEF Ahead
    <3>2. p \in Nat
      BY <3>1, KeysFinite
    <3>3. iter[i].pos \in Nat
      BY <1>0, MergeAssumption
    <3> QED  BY <3>1, <3>2, <3>3
  <2>4. \A k \in Key : k > p => k > iter[i].pos
    BY <2>3, KeysFinite
  <2>5. ASSUME NEW k \in Key, NEW f \in iter[i].held, ~(Hi(disk[f]) >= p), k > p
        PROVE  disk[f].recs[k] = {}
    <3>1. disk[f] \in File /\ Slotted(disk[f])
      BY <1>0 DEF LayoutInv, AllSlotted
    <3>2. Hi(disk[f]) \in Nat /\ \A j \in disk[f].keys : j <= Hi(disk[f])
      BY <3>1, FileEnds DEF Slotted
    <3>3. k \notin disk[f].keys
      <4>1. k \in Nat
        BY KeysFinite
      <4> QED  BY <2>3, <2>5, <3>2, <4>1
    <3> QED  BY <3>1, <3>3 DEF Slotted, KeysOf
  <2> QED  BY <1>3, <2>2, <2>3, <2>4, <2>5
<1> QED  BY <1>4, <1>5

LEMMA IsolationStep ==
  ASSUME HasMergeFn, LayoutInv, IteratorIsolation, [Next]_vars
  PROVE  IteratorIsolation'
<1>0. /\ TypeOK /\ onDisk \subseteq FileId /\ disk \in [FileId -> File] /\ bgTree \in Tree
      /\ \A i \in Iter : iter[i].held \subseteq onDisk
      /\ iter \in [Iter -> Iterator]
  BY DEF LayoutInv, FilesInv, TypeOK, Holds
<1>1. ASSUME iter' = iter, \A f \in onDisk : HeldByIter(f) => disk'[f] = disk[f]
      PROVE  IteratorIsolation'
  BY <1>0, <1>1, IsolationSame DEF HeldByIter
<1>2. CASE NewInsert \/ Resume
  <2>1. iter' = iter
    BY <1>2 DEF NewInsert, Resume, Insert, InsertFlushes, InsertWaits, InsertResumes, callerVars
  <2> QED  BY <1>1, <1>2, <2>1, InsertLayout
<1>3. ASSUME NEW i \in Iter, IterClose(i)
      PROVE  IteratorIsolation'
  <2>1. /\ onDisk' = onDisk \ Orphans(i)
        /\ disk' = Kept(disk, onDisk' \cup files \cup bgSrcFiles)
        /\ iter' = [iter EXCEPT ![i] = Closed]
    BY <1>3 DEF IterClose
  <2> SUFFICES ASSUME NEW j \in Iter, iter'[j].open, NEW k \in Key, k > iter'[j].pos
               PROVE  UNION {disk'[f].recs[k] : f \in iter'[j].held} = iter'[j].at[k]
    BY DEF IteratorIsolation
  <2>2. j # i /\ iter'[j] = iter[j]
    BY <1>0, <2>1 DEF Closed
  <2>3. \A f \in iter[j].held : f \in onDisk'
    BY <1>0, <2>1, <2>2 DEF Orphans
  <2>4. \A f \in iter[j].held : disk'[f] = disk[f]
    BY <1>0, <2>1, <2>3 DEF Kept
  <2>5. UNION {disk'[f].recs[k] : f \in iter[j].held} = UNION {disk[f].recs[k] : f \in iter[j].held}
    BY <2>4
  <2>6. UNION {disk[f].recs[k] : f \in iter[j].held} = iter[j].at[k]
    BY <2>2 DEF IteratorIsolation
  <2> QED  BY <2>2, <2>5, <2>6
<1>4. CASE \/ UNCHANGED vars
           \/ \E s \in queued : SliceOpen(s)
           \/ \E s \in running : SliceFail(s)
           \/ Signal
  BY <1>1, <1>4 DEF SliceOpen, SliceFail, Signal, vars, fileVars, callerVars
<1>5. CASE Finalize
  <2>1. /\ onDisk' = onDisk \ {f \in Discarded : Removable(f)} /\ iter' = iter
        /\ disk' = Kept(disk, onDisk' \cup files \cup Registered)
    BY <1>5 DEF Finalize, callerVars
  <2>2. \A f \in onDisk : HeldByIter(f) => f \in onDisk'
    BY <2>1 DEF Removable
  <2>3. \A f \in onDisk : HeldByIter(f) => disk'[f] = disk[f]
    BY <1>0, <2>1, <2>2 DEF Kept
  <2> QED  BY <1>1, <2>1, <2>3
<1>6. ASSUME NEW s \in running, SliceMerge(s)
      PROVE  IteratorIsolation'
  <2>1. PICK c \in Naming(Outputs(bgTree, s, disk)) : disk' = Written(c)
    BY <1>6 DEF SliceMerge
  <2>2. iter' = iter /\ s \in Slice
    BY <1>0, <1>6 DEF SliceMerge, callerVars, TypeOK
  <2>3. Outputs(bgTree, s, disk) \in SUBSET File
    BY <1>0, <2>2, OutputsType
  <2>4. DOMAIN c \cap onDisk = {}
    BY <2>3, NamingFacts DEF Unused
  <2>5. \A f \in onDisk : disk'[f] = disk[f]
    BY <1>0, <2>1, <2>4 DEF Written
  <2> QED  BY <1>1, <2>2, <2>5
<1> QED  BY <1>2, <1>3, <1>4, <1>5, <1>6, FileOpIsolation, IterOpenIsolation, IterNextIsolation
         DEF Next, IterOps, Worker

\* An open iterator still has before it exactly the records the store held when it was
\* opened: for every number of iterators, and whatever flushes, deletes, merges, failing
\* slices and other iterators that close do to the registry and the disk meanwhile.
THEOREM IteratorsIsolated ==
  ASSUME HasMergeFn
  PROVE  Spec => []IteratorIsolation
<1>1. Init => LayoutInv /\ IteratorIsolation
  BY InitLayout DEF Init, IteratorIsolation, Closed
<1>2. LayoutInv /\ IteratorIsolation /\ [Next]_vars => LayoutInv' /\ IteratorIsolation'
  BY LayoutStep, IsolationStep
<1> QED  BY <1>1, <1>2, PTL DEF Spec

-----------------------------------------------------------------------------
(* The store is a map.                                                     *)

\* Without iterators and failing slices nothing a merge has to remove stays behind, and
\* every merge succeeds.
MapInv == KeepInv /\ LayoutInv /\ ~anyFailed

LEMMA NoneFails ==
  ASSUME Iter = {}, ~SlicesMayFail, MapInv, [Next]_vars
  PROVE  ~anyFailed'
<1> USE DEF MapInv
<1>1. ASSUME NEW t, NEW rest, NEW fs, NEW d, Launch(t, rest, fs, d)
      PROVE  ~anyFailed'
  BY <1>1 DEF Launch
<1>2. ASSUME anyFailed' = anyFailed
      PROVE  ~anyFailed'
  BY <1>2
<1>3. ASSUME NEW k \in Key, NEW v \in Val, Put(k, v) \/ FlushAndPut(k, v)
      PROVE  ~anyFailed'
  BY <1>1, <1>2, <1>3 DEF Put, FlushAndPut, jobVars, sliceVars
<1>4. CASE NewInsert \/ Resume
  BY <1>2, <1>3, <1>4
     DEF NewInsert, Resume, Insert, InsertFlushes, InsertWaits, InsertResumes, jobVars, sliceVars
<1>5. CASE FileOps \/ Signal \/ UNCHANGED vars
  BY <1>2, <1>5 DEF FileOps, SyncFlush, Delete, Update, Signal, vars, jobVars, sliceVars
<1>6. CASE Finalize
  <2>1. \/ Launch(memTree, Empty, files \cup Registered, disk')
        \/ anyFailed' = FALSE
    BY <1>6 DEF Finalize
  <2> QED  BY <1>1, <2>1
<1>7. ASSUME NEW s \in queued, SliceOpen(s)
      PROVE  ~anyFailed'
  <2>1. s.src \in onDisk \cup {NoFile}
    BY DEF KeepInv, MergeAccounts, ReferencesExist, Pending
  <2> QED  BY <1>7, <2>1 DEF SliceOpen
<1>8. ASSUME NEW s \in running, SliceMerge(s) \/ SliceFail(s)
      PROVE  ~anyFailed'
  BY <1>2, <1>8 DEF SliceMerge, SliceFail
<1>9. ~IterOps
  BY DEF IterOps
<1> QED  BY <1>4, <1>5, <1>6, <1>7, <1>8, <1>9 DEF Next, Worker

LEMMA MapStep ==
  ASSUME Iter = {}, HasMergeFn, ~SlicesMayFail, MapInv, [Next]_vars
  PROVE  MapInv'
BY NoneFails, StepKeeps, LayoutStep DEF MapInv

\* Between merges, with every file on disk.
LEMMA QuietView ==
  ASSUME MapInv, ~bgPending, NEW k \in Key
  PROVE  View[k] = memTree[k] \cup RecsOf(files, disk, k)
<1>1. files \cap onDisk = files
  BY DEF MapInv, KeepInv, ReferencesExist
<1> QED  BY <1>1, IdleView DEF MapInv, LayoutInv, RecsOf

\* A merge that starts holds the records of its tree until they are in files.
LEMMA LaunchView ==
  ASSUME MapInv, ~bgPending, NEW t \in Tree, NEW rest, Launch(t, rest, files, disk),
         UNCHANGED <<disk, onDisk>>, NEW k \in Key
  PROVE  View'[k] = rest[k] \cup t[k] \cup RecsOf(files, disk, k)
<1>1. files \in SUBSET FileId /\ files \cap onDisk = files
  BY DEF MapInv, KeepInv, TypeOK, ReferencesExist
<1>2. bgTree' = t /\ memTree' = rest /\ files' \cup bgSrcFiles' = files
  BY <1>1, LaunchAccounts
<1>3. View'[k] = memTree'[k] \cup bgTree'[k]
                   \cup UNION {disk'[f].recs[k] : f \in (files' \cup bgSrcFiles') \cap onDisk'}
  BY DEF View, Visible
<1> QED  BY <1>1, <1>2, <1>3 DEF RecsOf

\* What Map!Insert asks for, key by key.
LEMMA MapInsert ==
  ASSUME NEW k \in Key, NEW v \in Val,
         \A j \in Key : View'[j] = IF j = k THEN View[j] \cup {v} ELSE View[j]
  PROVE  Map!Insert(k, v)
<1>1. View' = [j \in Key |-> View'[j]] /\ View = [j \in Key |-> View[j]]
  BY DEF View
<1>2. [View EXCEPT ![k] = @ \cup {v}] = [j \in Key |-> IF j = k THEN View[j] \cup {v} ELSE View[j]]
  BY <1>1
<1>3. View' = [View EXCEPT ![k] = @ \cup {v}]
  BY <1>1, <1>2
<1> QED  BY <1>3 DEF Map!Insert

LEMMA PutView ==
  ASSUME HasMergeFn, MapInv, NEW k \in Key, NEW v \in Val, Put(k, v)
  PROVE  Map!Insert(k, v)
<1> DEFINE t == [memTree EXCEPT ![k] = Combine(@, {v})]
<1>1. memTree \in Tree
  BY DEF MapInv, KeepInv, TypeOK
<1>2. t \in Tree /\ \A j \in Key : t[j] = IF j = k THEN memTree[j] \cup {v} ELSE memTree[j]
  <2>1. Combine(memTree[k], {v}) = memTree[k] \cup {v}
    BY CombineUnion
  <2> QED  BY <1>1, <2>1, PutType DEF Tree
<1>3. \A j \in Key : Empty[j] = {}
  BY DEF Empty
<1>4. ASSUME ~bgPending, Launch(t, Empty, files, disk), UNCHANGED <<disk, onDisk>>, NEW j \in Key
      PROVE  View'[j] = IF j = k THEN View[j] \cup {v} ELSE View[j]
  <2> HIDE DEF t
  <2>1. View'[j] = Empty[j] \cup t[j] \cup RecsOf(files, disk, j)
    BY <1>2, <1>4, LaunchView
  <2>2. View[j] = memTree[j] \cup RecsOf(files, disk, j)
    BY <1>4, QuietView
  <2> QED  BY <1>2, <1>3, <2>1, <2>2
<1>5. ASSUME memTree' = t, UNCHANGED <<bgTree, fileVars, jobVars>>, NEW j \in Key
      PROVE  View'[j] = IF j = k THEN View[j] \cup {v} ELSE View[j]
  <2> HIDE DEF t
  <2>1. View[j] = memTree[j] \cup bgTree[j]
                    \cup UNION {disk[f].recs[j] : f \in (files \cup bgSrcFiles) \cap onDisk}
    BY DEF View, Visible
  <2>2. View'[j] = t[j] \cup bgTree[j]
                    \cup UNION {disk[f].recs[j] : f \in (files \cup bgSrcFiles) \cap onDisk}
    BY <1>5 DEF View, Visible, fileVars
  <2> QED  BY <1>2, <2>1, <2>2
<1>6. \A j \in Key : View'[j] = IF j = k THEN View[j] \cup {v} ELSE View[j]
  <2>1. \/ ~bgPending /\ Launch(t, Empty, files, disk) /\ UNCHANGED <<disk, onDisk>>
        \/ memTree' = t /\ UNCHANGED <<bgTree, fileVars, jobVars>>
    BY DEF Put
  <2> HIDE DEF t
  <2> QED  BY <1>4, <1>5, <2>1
<1> QED  BY <1>6, MapInsert

LEMMA FlushAndPutView ==
  ASSUME HasMergeFn, MapInv, NEW k \in Key, NEW v \in Val, FlushAndPut(k, v)
  PROVE  Map!Insert(k, v)
<1> DEFINE t == [Empty EXCEPT ![k] = {v}]
<1>1. memTree \in Tree
  BY DEF MapInv, KeepInv, TypeOK
<1>2. \A j \in Key : t[j] = IF j = k THEN {v} ELSE {}
  BY DEF Empty
<1>3. ASSUME ~bgPending, Launch(memTree, t, files, disk), UNCHANGED <<disk, onDisk>>, NEW j \in Key
      PROVE  View'[j] = IF j = k THEN View[j] \cup {v} ELSE View[j]
  <2> HIDE DEF t
  <2>1. View'[j] = t[j] \cup memTree[j] \cup RecsOf(files, disk, j)
    BY <1>1, <1>3, LaunchView
  <2>2. View[j] = memTree[j] \cup RecsOf(files, disk, j)
    BY <1>3, QuietView
  <2> QED  BY <1>2, <2>1, <2>2
<1>4. CASE ~bgPending /\ Launch(memTree, t, files, disk) /\ UNCHANGED <<disk, onDisk>>
  BY <1>3, <1>4, MapInsert
<1>5. CASE Put(k, v)
  BY <1>5, PutView
<1> QED  BY <1>4, <1>5 DEF FlushAndPut

\* No file but the one whose range has the key holds a record of it.
LEMMA CoveringHolds ==
  ASSUME MapInv, NEW k \in Key
  PROVE  /\ \A f \in files : disk[f].recs[k] # {} => f \in Covering(k)
         /\ \A f, g \in Covering(k) : f = g
<1>1. ASSUME NEW f \in files
      PROVE  /\ Lo(disk[f]) \in Nat /\ Hi(disk[f]) \in Nat /\ k \in Nat
             /\ disk[f].recs[k] # {} => Lo(disk[f]) <= k /\ k <= Hi(disk[f])
  <2>1. disk[f] \in File /\ Slotted(disk[f])
    BY DEF MapInv, KeepInv, TypeOK, LayoutInv, AllSlotted
  <2>2. disk[f].recs[k] # {} => k \in disk[f].keys
    BY <2>1 DEF Slotted, KeysOf
  <2> QED  BY <2>1, <2>2, FileEnds, KeysFinite DEF Slotted
<1>2. \A f, g \in files : f # g => Hi(disk[f]) < Lo(disk[g]) \/ Hi(disk[g]) < Lo(disk[f])
  BY LayoutApart DEF MapInv, Apart
<1>3. ASSUME NEW f \in Covering(k), NEW g \in Covering(k), f # g
      PROVE  FALSE
  <2>1. /\ f \in files /\ g \in files
        /\ Lo(disk[f]) <= k /\ k <= Hi(disk[f]) /\ Lo(disk[g]) <= k /\ k <= Hi(disk[g])
    BY DEF Covering, InRange
  <2> QED  BY <1>1, <1>2, <1>3, <2>1
<1> QED  BY <1>1, <1>3 DEF Covering, InRange

LEMMA DeleteView ==
  ASSUME Iter = {}, MapInv, NEW k \in Key, Delete(k)
  PROVE  Map!Delete(k)
<1>1. /\ ~bgPending /\ memTree' = [memTree EXCEPT ![k] = {}]
      /\ UNCHANGED <<bgTree, onDisk, files, bgSrcFiles, bgPending>>
  BY DEF Delete, jobVars
<1>2. /\ TypeOK /\ memTree \in Tree /\ files \subseteq onDisk /\ files \subseteq FileId
      /\ disk \in [FileId -> File] /\ bgSrcFiles = {} /\ bgTree = Empty
  BY <1>1, QuietNow DEF MapInv, KeepInv, TypeOK, ReferencesExist
<1>3. ASSUME NEW g \in Covering(k), disk' = Tombstoned(k, g), NEW f \in files, NEW j \in Key
      PROVE  disk'[f].recs[j] = IF j = k THEN {} ELSE disk[f].recs[j]
  <2>1. g \in files /\ Writable(g)
    BY <1>2 DEF Covering, Writable, HeldByIter
  <2>2. CASE f = g
    <3>1. disk'[g].recs = [disk[g].recs EXCEPT ![k] = {}]
      BY <1>2, <1>3, <2>1, TombstonedKeys
    <3>2. disk[g].recs \in [Key -> SUBSET Val]
      BY <1>2, <2>1 DEF File, Tree
    <3> QED  BY <2>2, <3>1, <3>2
  <2>3. CASE f # g
    <3>1. disk'[f] = disk[f]
      BY <1>2, <1>3, <2>1, <2>3, TombstonedKeys
    <3>2. disk[f].recs[k] = {}
      BY <2>3, CoveringHolds
    <3> QED  BY <3>1, <3>2
  <2> QED  BY <2>2, <2>3
<1>4. ASSUME Covering(k) = {}, disk' = disk, NEW f \in files, NEW j \in Key
      PROVE  disk'[f].recs[j] = IF j = k THEN {} ELSE disk[f].recs[j]
  BY <1>4, CoveringHolds
<1>5. \A f \in files, j \in Key : disk'[f].recs[j] = IF j = k THEN {} ELSE disk[f].recs[j]
  BY <1>3, <1>4 DEF Delete
<1>6. ASSUME NEW j \in Key
      PROVE  View'[j] = IF j = k THEN {} ELSE View[j]
  <2>1. View[j] = memTree[j] \cup RecsOf(files, disk, j)
    BY <1>1, QuietView
  <2>2. View'[j] = memTree'[j] \cup bgTree'[j]
                   \cup UNION {disk'[f].recs[j] : f \in (files' \cup bgSrcFiles') \cap onDisk'}
    BY DEF View, Visible
  <2>3. (files' \cup bgSrcFiles') \cap onDisk' = files /\ bgTree'[j] = {}
    BY <1>1, <1>2 DEF Empty
  <2>4. UNION {disk'[f].recs[j] : f \in files} = IF j = k THEN {} ELSE RecsOf(files, disk, j)
    BY <1>5 DEF RecsOf
  <2>5. memTree'[j] = IF j = k THEN {} ELSE memTree[j]
    BY <1>1, <1>2 DEF Tree
  <2> QED  BY <2>1, <2>2, <2>3, <2>4, <2>5
<1>7. View' = [View EXCEPT ![k] = {}]
  <2>1. View' = [j \in Key |-> View'[j]] /\ View = [j \in Key |-> View[j]]
    BY DEF View
  <2>2. [View EXCEPT ![k] = {}] = [j \in Key |-> IF j = k THEN {} ELSE View[j]]
    BY <2>1
  <2> QED  BY <1>6, <2>1, <2>2
<1> QED  BY <1>7 DEF Map!Delete

LEMMA OverwrittenRecs ==
  ASSUME NEW d \in [FileId -> File], NEW S \in SUBSET FileId, NEW k \in Key, NEW v, NEW j \in Key
  PROVE  RecsOf(S, Overwritten(d, S, k, v), j)
           = IF j = k /\ RecsOf(S, d, k) # {} THEN {v} ELSE RecsOf(S, d, j)
<1>1. PICK e : e = Overwritten(d, S, k, v)
  OBVIOUS
<1>2. ASSUME NEW f \in S
      PROVE  e[f].recs[j] = IF j = k /\ d[f].recs[k] # {} THEN {v} ELSE d[f].recs[j]
  <2>1. e[f] = IF d[f].recs[k] # {} THEN [d[f] EXCEPT !.recs[k] = {v}] ELSE d[f]
    BY <1>1 DEF Overwritten
  <2>2. d[f] \in File /\ d[f].recs \in [Key -> SUBSET Val]
    BY DEF File, Tree
  <2>3. [d[f] EXCEPT !.recs[k] = {v}].recs = [d[f].recs EXCEPT ![k] = {v}]
    BY <2>2 DEF File
  <2> QED  BY <2>1, <2>2, <2>3
<1>3. RecsOf(S, e, j) = IF j = k /\ RecsOf(S, d, k) # {} THEN {v} ELSE RecsOf(S, d, j)
  <2>1. CASE j # k
    BY <1>2, <2>1 DEF RecsOf
  <2>2. CASE j = k /\ \A f \in S : d[f].recs[k] = {}
    BY <1>2, <2>2 DEF RecsOf
  <2>3. ASSUME j = k, NEW g \in S, d[g].recs[k] # {}
        PROVE  RecsOf(S, d, k) # {} /\ RecsOf(S, e, k) = {v}
    <3>1. RecsOf(S, d, k) # {}
      BY <2>3 DEF RecsOf
    <3>2. e[g].recs[k] = {v} /\ \A f \in S : e[f].recs[k] \subseteq {v}
      BY <1>2, <2>3
    <3> QED  BY <3>1, <3>2 DEF RecsOf
  <2> QED  BY <2>1, <2>2, <2>3
<1> QED  BY <1>1, <1>3

\* What Map!Update asks for, or nothing where there is no record, key by key.
LEMMA MapUpdate ==
  ASSUME NEW k \in Key, NEW v \in Val,
         \A j \in Key : View'[j] = IF j = k /\ View[k] # {} THEN {v} ELSE View[j]
  PROVE  Map!Update(k, v) \/ (View[k] = {} /\ View' = View)
<1>1. View' = [j \in Key |-> View'[j]] /\ View = [j \in Key |-> View[j]]
  BY DEF View
<1>2. CASE View[k] = {}
  BY <1>1, <1>2
<1>3. CASE View[k] # {}
  <2>1. [View EXCEPT ![k] = {v}] = [j \in Key |-> IF j = k THEN {v} ELSE View[j]]
    BY <1>1
  <2>2. View' = [View EXCEPT ![k] = {v}]
    BY <1>1, <1>3, <2>1
  <2> QED  BY <1>3, <2>2 DEF Map!Update
<1> QED  BY <1>2, <1>3

LEMMA UpdateView ==
  ASSUME HasMergeFn, MapInv, NEW k \in Key, NEW v \in Val, Update(k, v)
  PROVE  Map!Update(k, v) \/ (View[k] = {} /\ View' = View)
<1>1. ~bgPending /\ UNCHANGED <<bgTree, bgSrcFiles>>
  BY DEF Update
<1>2. /\ TypeOK /\ FilesInv /\ memTree \in Tree /\ files \subseteq onDisk /\ files \subseteq FileId
      /\ disk \in [FileId -> File] /\ bgSrcFiles = {} /\ bgTree = Empty
  BY <1>1, QuietNow DEF MapInv, LayoutInv, KeepInv, TypeOK, ReferencesExist
<1>3. ASSUME NEW e \in [FileId -> File], NEW S \in SUBSET FileId,
             S = files' \cap onDisk', disk' = Overwritten(e, S, k, v), memTree'[k] = {},
             \A j \in Key : View[j] = memTree'[j] \cup RecsOf(S, e, j)
      PROVE  \A j \in Key : View'[j] = IF j = k /\ View[k] # {} THEN {v} ELSE View[j]
  <2> TAKE j \in Key
  <2>1. View'[j] = memTree'[j] \cup bgTree'[j]
                   \cup UNION {disk'[f].recs[j] : f \in (files' \cup bgSrcFiles') \cap onDisk'}
    BY DEF View, Visible
  <2>2. (files' \cup bgSrcFiles') \cap onDisk' = S /\ bgTree'[j] = {}
    BY <1>1, <1>2, <1>3 DEF Empty
  <2>3. View'[j] = memTree'[j] \cup RecsOf(S, disk', j)
    BY <2>1, <2>2 DEF RecsOf
  <2>4. RecsOf(S, disk', j) = IF j = k /\ RecsOf(S, e, k) # {} THEN {v} ELSE RecsOf(S, e, j)
    <3>1. RecsOf(S, Overwritten(e, S, k, v), j)
            = IF j = k /\ RecsOf(S, e, k) # {} THEN {v} ELSE RecsOf(S, e, j)
      BY OverwrittenRecs
    <3>2. RecsOf(S, disk', j) = RecsOf(S, Overwritten(e, S, k, v), j)
      BY <1>3 DEF RecsOf
    <3> QED  BY <3>1, <3>2
  <2>5. View[k] = RecsOf(S, e, k) /\ View[j] = memTree'[j] \cup RecsOf(S, e, j)
    BY <1>3
  <2> QED  BY <1>3, <2>3, <2>4, <2>5
<1>4. CASE memTree[k] = {}
  <2>1. disk' = Overwritten(disk, files, k, v) /\ files' \cap onDisk' = files /\ memTree' = memTree
    <3>1. files \cap onDisk = files
      BY <1>2
    <3> QED  BY <1>4, <3>1 DEF Update
  <2>2. \A j \in Key : View[j] = memTree[j] \cup RecsOf(files, disk, j)
    BY <1>1, QuietView
  <2>3. \A j \in Key : View'[j] = IF j = k /\ View[k] # {} THEN {v} ELSE View[j]
    BY <1>2, <1>3, <1>4, <2>1, <2>2
  <2> QED  BY <2>3, MapUpdate
<1>5. CASE memTree[k] # {}
  <2>1. PICK plan \in Plans(memTree, files, disk) :
             \E c \in Naming(PlanOutputs(memTree, plan, disk)) :
               /\ FlushRewrites(plan, c)
               /\ disk' = Overwritten(Kept(Written(c), onDisk' \cup files'),
                                      files' \cap onDisk', k, v)
    BY <1>5 DEF Update
  <2>2. PICK c \in Naming(PlanOutputs(memTree, plan, disk)) :
               /\ FlushRewrites(plan, c)
               /\ disk' = Overwritten(Kept(Written(c), onDisk' \cup files'),
                                      files' \cap onDisk', k, v)
    BY <2>1
  <2>3. PICK d : d = Written(c)
    OBVIOUS
  <2>4. onDisk' \cup files' \subseteq FileId /\ d \in [FileId -> File] /\ memTree' = Empty
    BY <1>2, <2>2, <2>3, FlushRewritesTypes DEF FlushRewrites
  <2>5. PICK used : used = onDisk' \cup files'
    OBVIOUS
  <2>6. PICK S : S = files' \cap onDisk'
    OBVIOUS
  <2>7. PICK e : e = Kept(d, used)
    OBVIOUS
  <2>8. e \in [FileId -> File] /\ S \in SUBSET FileId /\ \A f \in S : e[f] = d[f]
    BY <2>4, <2>5, <2>6, <2>7, DiskType DEF Kept
  <2>9. disk' = Overwritten(e, S, k, v)
    BY <2>2, <2>3, <2>5, <2>6, <2>7
  <2>10. \A j \in Key : memTree'[j] = {}
    BY <2>4 DEF Empty
  <2>11. \A j \in Key : View[j] = memTree'[j] \cup RecsOf(S, e, j)
    <3> TAKE j \in Key
    <3>1. UNION {d[f].recs[j] : f \in files' \cap onDisk'} = View[j]
      BY <1>1, <1>2, <2>2, <2>3, RewriteView
    <3>2. RecsOf(S, e, j) = UNION {d[f].recs[j] : f \in S}
      BY <2>8 DEF RecsOf
    <3> QED  BY <2>6, <2>10, <3>1, <3>2
  <2>12. \A j \in Key : View'[j] = IF j = k /\ View[k] # {} THEN {v} ELSE View[j]
    BY <1>3, <2>6, <2>8, <2>9, <2>10, <2>11
  <2> QED  BY <2>12, MapUpdate
<1> QED  BY <1>4, <1>5

LEMMA SyncFlushView ==
  ASSUME HasMergeFn, MapInv, SyncFlush
  PROVE  View' = View
<1>1. ~bgPending /\ FlushMemTree /\ UNCHANGED <<bgTree, bgSrcFiles>> /\ FilesInv
  BY DEF SyncFlush, MapInv, LayoutInv
<1>2. bgSrcFiles = {} /\ bgTree = Empty
  BY <1>1, IdleFiles
<1>3. /\ \A k \in Key : UNION {disk'[f].recs[k] : f \in files' \cap onDisk'} = View[k]
      /\ memTree' = Empty
  BY <1>1, FlushView
<1>4. ASSUME NEW k \in Key PROVE View'[k] = View[k]
  <2>1. View'[k] = memTree'[k] \cup bgTree'[k]
                   \cup UNION {disk'[f].recs[k] : f \in (files' \cup bgSrcFiles') \cap onDisk'}
    BY DEF View, Visible
  <2>2. files' \cup bgSrcFiles' = files' /\ memTree'[k] = {} /\ bgTree'[k] = {}
    BY <1>1, <1>2, <1>3 DEF Empty
  <2> QED  BY <1>3, <2>1, <2>2
<1> QED  BY <1>4 DEF View

\* With no iterator open and no slice failing, the store is a map: whatever its limits,
\* the threads and the order of slices, a call changes what the store holds as it changes
\* the map, in one step, and flushes and merges do not change it.
THEOREM StoreIsMap ==
  ASSUME Iter = {}, HasMergeFn, ~SlicesMayFail
  PROVE  Spec => ImplementsMap
<1> DEFINE Step ==
      /\ \A k \in Key, v \in Val :
           /\ Insert(k, v) \/ InsertFlushes(k, v) \/ InsertResumes(k, v) => Map!Insert(k, v)
           /\ Update(k, v) => Map!Update(k, v) \/ (View[k] = {} /\ View' = View)
      /\ \A k \in Key : Delete(k) => Map!Delete(k)
      /\ SyncFlush \/ Worker \/ IterOps => View' = View
<1>1. Init => MapInv
  BY InitKeeps, InitLayout DEF MapInv, Init
<1>2. Init => Map!Init
  <2> SUFFICES ASSUME Init PROVE View = [k \in Key |-> {}]
    BY DEF Map!Init
  <2>1. \A k \in Key : Visible(k) = {}
    BY DEF Init, Visible, Empty
  <2> QED  BY <2>1 DEF View
<1>3. MapInv /\ [Next]_vars => MapInv'
  BY MapStep
<1>4. MapInv => Step
  <2> SUFFICES ASSUME MapInv PROVE Step
    OBVIOUS
  <2>1. ASSUME NEW k \in Key, NEW v \in Val,
               Insert(k, v) \/ InsertFlushes(k, v) \/ InsertResumes(k, v)
        PROVE  Map!Insert(k, v)
    BY <2>1, PutView, FlushAndPutView DEF Insert, InsertFlushes, InsertResumes
  <2>2. SyncFlush \/ Worker \/ IterOps => View' = View
    <3>1. ~IterOps
      BY DEF IterOps
    <3>2. Worker => View' = View
      BY WorkerKeeps DEF MapInv
    <3> QED  BY <3>1, <3>2, SyncFlushView
  <2> QED  BY <2>1, <2>2, UpdateView, DeleteView
<1>5. MapInv /\ [Next]_vars => [Step]_vars
  BY <1>4
<1> QED  BY <1>1, <1>2, <1>3, <1>5, PTL DEF Spec, ImplementsMap
=============================================================================
