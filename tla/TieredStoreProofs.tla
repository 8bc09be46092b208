-------------------------- MODULE TieredStoreProofs --------------------------
(***************************************************************************)
(* What holds of the tiered store whatever the number of keys, the limits  *)
(* on tree and files, the threads of the pool and the I/O errors: types,   *)
(* and that the background merge keeps every record.                       *)
(***************************************************************************)
EXTENDS TieredStoreProps, TSMergeProofs, FiniteSetTheorems

-----------------------------------------------------------------------------
(* Types                                                                   *)

LEMMA BlankFile == Blank \in File
BY EmptyTree DEF Blank, File

\* Reading and writing the table of files keeps its type.
LEMMA DiskType ==
  ASSUME NEW d \in [FileId -> File]
  PROVE  /\ \A S : Kept(d, S) \in [FileId -> File]
         /\ \A k \in Key, f \in FileId : d[f].recs[k] \subseteq Val
         /\ \A S : \A k \in Key, v \in Val : Overwritten(d, S, k, v) \in [FileId -> File]
<1>1. \A S : Kept(d, S) \in [FileId -> File]
  BY BlankFile DEF Kept
<1>2. \A k \in Key, f \in FileId : d[f].recs[k] \subseteq Val
  BY DEF File, Tree
<1>3. ASSUME NEW S, NEW k \in Key, NEW v \in Val, NEW f \in FileId
      PROVE  [d[f] EXCEPT !.recs[k] = {v}] \in File
  BY DEF File, Tree
<1>4. ASSUME NEW S, NEW k \in Key, NEW v \in Val
      PROVE  Overwritten(d, S, k, v) \in [FileId -> File]
  BY <1>3 DEF Overwritten
<1> QED  BY <1>1, <1>2, <1>4

LEMMA VisibleType ==
  ASSUME TypeOK
  PROVE  View \in Tree
<1>1. \A k \in Key : memTree[k] \subseteq Val /\ bgTree[k] \subseteq Val
  BY DEF TypeOK, Tree
<1>2. \A k \in Key, f \in FileId : disk[f].recs[k] \subseteq Val
  BY DiskType DEF TypeOK
<1>3. \A k \in Key : Visible(k) \subseteq Val
  BY <1>1, <1>2 DEF Visible, TypeOK
<1> QED  BY <1>3 DEF View, Tree

\* Names drawn for outputs are names that were not in use.
LEMMA NamingFacts ==
  ASSUME NEW outs \in SUBSET File, NEW c \in Naming(outs)
  PROVE  /\ DOMAIN c \subseteq Unused
         /\ \A f \in DOMAIN c : c[f] \in outs
         /\ \A o \in outs : \E f \in DOMAIN c : c[f] = o
BY DEF Naming

LEMMA WrittenType ==
  ASSUME TypeOK, NEW outs \in SUBSET File, NEW c \in Naming(outs)
  PROVE  /\ Written(c) \in [FileId -> File]
         /\ DOMAIN c \subseteq FileId
BY NamingFacts DEF TypeOK, Written, Unused

LEMMA PlanOutputsType ==
  ASSUME NEW t \in Tree, NEW fs \in SUBSET FileId, NEW d \in [FileId -> File],
         NEW plan \in Plans(t, fs, d)
  PROVE  PlanOutputs(t, plan, d) \subseteq File
BY PlanType, OutputsType DEF PlanOutputs

\* A record put in a tree leaves a tree.
LEMMA PutType ==
  ASSUME NEW t \in Tree, NEW k \in Key, NEW v \in Val
  PROVE  /\ [t EXCEPT ![k] = Combine(@, {v})] \in Tree
         /\ [Empty EXCEPT ![k] = {v}] \in Tree
BY CombineBound, EmptyTree DEF Tree

TreeTypes == memTree \in Tree /\ bgTree \in Tree
FileTypes == disk \in [FileId -> File] /\ onDisk \subseteq FileId
             /\ files \subseteq FileId /\ bgSrcFiles \subseteq FileId
JobTypes  == /\ bgPending \in BOOLEAN /\ job \in {"none", "merging", "signal"}
             /\ queued \subseteq Slice /\ running \subseteq Slice
             /\ toRegister \subseteq FileId /\ mergedSrcs \subseteq FileId
             /\ anyFailed \in BOOLEAN
CallerTypes == /\ blocked \subseteq Key \X Val
               /\ iter \in [Iter -> Iterator]

LEMMA TypeParts == TypeOK <=> TreeTypes /\ FileTypes /\ JobTypes /\ CallerTypes
BY DEF TypeOK, TreeTypes, FileTypes, JobTypes, CallerTypes

LEMMA LaunchTypes ==
  ASSUME NEW t \in Tree, NEW rest \in Tree, NEW fs \in SUBSET FileId, NEW d,
         Launch(t, rest, fs, d)
  PROVE  /\ TreeTypes' /\ JobTypes'
         /\ files' \subseteq FileId /\ bgSrcFiles' \subseteq FileId
<1>1. PICK plan \in Plans(t, fs, d) :
        /\ bgTree' = t /\ memTree' = rest
        /\ files' = fs \ Sources(plan) /\ bgSrcFiles' = Sources(plan)
        /\ queued' = plan /\ running' = {} /\ toRegister' = {} /\ mergedSrcs' = {}
        /\ anyFailed' = FALSE /\ bgPending' = TRUE /\ job' = "merging"
  BY DEF Launch
<1>2. plan \subseteq Slice /\ Sources(plan) \subseteq FileId
  BY PlanType
<1> QED  BY <1>1, <1>2 DEF TreeTypes, JobTypes

LEMMA PutTypes ==
  ASSUME TypeOK, NEW k \in Key, NEW v \in Val, Put(k, v)
  PROVE  TreeTypes' /\ FileTypes' /\ JobTypes'
<1> DEFINE t == [memTree EXCEPT ![k] = Combine(@, {v})]
<1>1. t \in Tree  BY PutType DEF TypeOK
<1>2. CASE Launch(t, Empty, files, disk) /\ UNCHANGED <<disk, onDisk>>
  <2>1. files \in SUBSET FileId /\ Empty \in Tree
    BY EmptyTree DEF TypeOK
  <2>2. TreeTypes' /\ JobTypes' /\ files' \subseteq FileId /\ bgSrcFiles' \subseteq FileId
    BY <1>1, <1>2, <2>1, LaunchTypes
  <2> QED  BY <1>2, <2>2 DEF FileTypes, TypeOK
<1>3. CASE memTree' = t /\ UNCHANGED <<bgTree, fileVars, jobVars>>
  BY <1>1, <1>3 DEF TypeOK, TreeTypes, FileTypes, JobTypes, fileVars, jobVars, sliceVars
<1> QED  BY <1>2, <1>3 DEF Put

LEMMA FlushAndPutTypes ==
  ASSUME TypeOK, NEW k \in Key, NEW v \in Val, FlushAndPut(k, v)
  PROVE  TreeTypes' /\ FileTypes' /\ JobTypes'
<1> DEFINE t == [Empty EXCEPT ![k] = {v}]
<1>1. CASE Launch(memTree, t, files, disk) /\ UNCHANGED <<disk, onDisk>>
  <2>1. t \in Tree /\ memTree \in Tree /\ files \in SUBSET FileId
    BY PutType, EmptyTree DEF TypeOK
  <2>2. TreeTypes' /\ JobTypes' /\ files' \subseteq FileId /\ bgSrcFiles' \subseteq FileId
    BY <1>1, <2>1, LaunchTypes
  <2> QED  BY <1>1, <2>2 DEF FileTypes, TypeOK
<1> QED  BY <1>1, PutTypes DEF FlushAndPut

LEMMA FlushRewritesTypes ==
  ASSUME TypeOK, NEW plan \in Plans(memTree, files, disk),
         NEW c \in Naming(PlanOutputs(memTree, plan, disk)), FlushRewrites(plan, c)
  PROVE  /\ memTree' \in Tree /\ onDisk' \subseteq FileId /\ files' \subseteq FileId
         /\ Written(c) \in [FileId -> File]
<1>1. PlanOutputs(memTree, plan, disk) \in SUBSET File
  BY PlanOutputsType DEF TypeOK
<1>2. Written(c) \in [FileId -> File] /\ DOMAIN c \subseteq FileId
  BY <1>1, WrittenType
<1> QED  BY <1>2, EmptyTree DEF FlushRewrites, TypeOK

LEMMA FlushMemTreeTypes ==
  ASSUME TypeOK, FlushMemTree
  PROVE  memTree' \in Tree /\ disk' \in [FileId -> File] /\ onDisk' \subseteq FileId
         /\ files' \subseteq FileId
<1>1. CASE memTree = Empty
  BY <1>1 DEF FlushMemTree, TypeOK
<1>2. CASE memTree # Empty
  <2>1. PICK plan \in Plans(memTree, files, disk) :
             \E c \in Naming(PlanOutputs(memTree, plan, disk)) :
               FlushRewrites(plan, c) /\ disk' = Kept(Written(c), onDisk' \cup files')
    BY <1>2 DEF FlushMemTree
  <2>2. PICK c \in Naming(PlanOutputs(memTree, plan, disk)) :
               FlushRewrites(plan, c) /\ disk' = Kept(Written(c), onDisk' \cup files')
    BY <2>1
  <2> QED  BY <2>2, FlushRewritesTypes, DiskType
<1> QED  BY <1>1, <1>2

LEMMA InsertTypes ==
  ASSUME TypeOK, NewInsert \/ Resume
  PROVE  TypeOK'
<1>1. CallerTypes  BY TypeParts
<1>2. ASSUME NEW k \in Key, NEW v \in Val, Insert(k, v) PROVE TypeOK'
  BY <1>1, <1>2, PutTypes, TypeParts DEF Insert, callerVars, TypeOK, TreeTypes, FileTypes, JobTypes
<1>3. ASSUME NEW k \in Key, NEW v \in Val, InsertFlushes(k, v) PROVE TypeOK'
  BY <1>1, <1>3, FlushAndPutTypes
     DEF InsertFlushes, callerVars, TypeOK, TreeTypes, FileTypes, JobTypes
<1>4. ASSUME NEW k \in Key, NEW v \in Val, InsertWaits(k, v) PROVE TypeOK'
  BY <1>4 DEF InsertWaits, treeVars, fileVars, jobVars, sliceVars, TypeOK
<1>5. ASSUME NEW k \in Key, NEW v \in Val, InsertResumes(k, v) PROVE TypeOK'
  BY <1>1, <1>5, FlushAndPutTypes
     DEF InsertResumes, TypeOK, TreeTypes, FileTypes, JobTypes
<1> QED  BY <1>2, <1>3, <1>4, <1>5 DEF NewInsert, Resume

LEMMA FileOpTypes ==
  ASSUME TypeOK, FileOps
  PROVE  TypeOK'
<1>1. ASSUME SyncFlush PROVE TypeOK'
  BY <1>1, FlushMemTreeTypes DEF SyncFlush, jobVars, sliceVars, callerVars, TypeOK
<1>2. ASSUME NEW k \in Key, Delete(k) PROVE TypeOK'
  <2>1. memTree' \in Tree
    BY <1>2 DEF Delete, TypeOK, Tree
  <2>2. \A f \in FileId : Tombstoned(k, f) \in [FileId -> File]
    <3>1. \A f \in FileId : [disk[f] EXCEPT !.recs[k] = {}] \in File
      BY DEF TypeOK, File, Tree
    <3> QED  BY <3>1 DEF Tombstoned, TypeOK
  <2>3. disk' \in [FileId -> File]
    BY <1>2, <2>2 DEF Delete, Covering, TypeOK
  <2> QED  BY <1>2, <2>1, <2>3 DEF Delete, jobVars, sliceVars, callerVars, TypeOK
<1>3. ASSUME NEW k \in Key, NEW v \in Val, Update(k, v) PROVE TypeOK'
  <2>1. /\ memTree' \in Tree /\ disk' \in [FileId -> File]
        /\ onDisk' \subseteq FileId /\ files' \subseteq FileId
    <3>1. CASE memTree[k] = {}
      <4>1. disk' = Overwritten(disk, files \cap onDisk, k, v)
            /\ memTree' = memTree /\ onDisk' = onDisk /\ files' = files
        BY <1>3, <3>1 DEF Update
      <4>2. disk \in [FileId -> File]
        BY DEF TypeOK
      <4>3. Overwritten(disk, files \cap onDisk, k, v) \in [FileId -> File]
        BY <4>2, DiskType
      <4> QED  BY <4>1, <4>3 DEF TypeOK
    <3>2. CASE memTree[k] # {}
      <4>1. PICK plan \in Plans(memTree, files, disk) :
                 \E c \in Naming(PlanOutputs(memTree, plan, disk)) :
                   /\ FlushRewrites(plan, c)
                   /\ disk' = Overwritten(Kept(Written(c), onDisk' \cup files'),
                                          files' \cap onDisk', k, v)
        BY <1>3, <3>2 DEF Update
      <4>2. PICK c \in Naming(PlanOutputs(memTree, plan, disk)) :
                   /\ FlushRewrites(plan, c)
                   /\ disk' = Overwritten(Kept(Written(c), onDisk' \cup files'),
                                          files' \cap onDisk', k, v)
        BY <4>1
      <4>3. /\ memTree' \in Tree /\ onDisk' \subseteq FileId /\ files' \subseteq FileId
            /\ Written(c) \in [FileId -> File]
        BY <4>2, FlushRewritesTypes
      <4>4. Kept(Written(c), onDisk' \cup files') \in [FileId -> File]
        BY <4>3, DiskType
      <4>5. disk' \in [FileId -> File]
        BY <4>2, <4>4, DiskType
      <4> QED  BY <4>3, <4>5
    <3> QED  BY <3>1, <3>2
  <2> QED  BY <1>3, <2>1 DEF Update, jobVars, sliceVars, callerVars, TypeOK
<1> QED  BY <1>1, <1>2, <1>3 DEF FileOps

LEMMA IterTypes ==
  ASSUME TypeOK, IterOps
  PROVE  TypeOK'
<1> USE MergeAssumption
<1>1. ASSUME NEW i \in Iter, IterOpen(i) PROVE TypeOK'
  <2>1. /\ memTree' \in Tree /\ disk' \in [FileId -> File]
        /\ onDisk' \subseteq FileId /\ files' \subseteq FileId
    BY <1>1, FlushMemTreeTypes DEF IterOpen
  <2>2. View \in Tree  BY VisibleType
  <2>3. [open |-> TRUE, snap |-> files', held |-> files' \cap onDisk',
         pos |-> 0, at |-> View] \in Iterator
    BY <2>1, <2>2 DEF Iterator
  <2>4. iter' \in [Iter -> Iterator]
    BY <1>1, <2>3 DEF IterOpen, TypeOK, View
  <2> QED  BY <1>1, <2>1, <2>4 DEF IterOpen, jobVars, sliceVars, TypeOK
<1>2. ASSUME NEW i \in Iter, IterNext(i) PROVE TypeOK'
  <2>1. iter[i] \in Iterator
    BY DEF TypeOK
  <2>2. [iter[i] EXCEPT !.held = {}] \in Iterator
    BY <2>1 DEF Iterator
  <2>3. \A k \in Key : [iter[i] EXCEPT !.pos = k, !.held = {f \in @ : Hi(disk[f]) >= k}]
                         \in Iterator
    <3>1. ASSUME NEW k \in Key
          PROVE  [iter[i] EXCEPT !.pos = k, !.held = {f \in @ : Hi(disk[f]) >= k}] \in Iterator
      <4>1. k \in 0..MaxKey  BY DEF Key
      <4>2. {f \in iter[i].held : Hi(disk[f]) >= k} \in SUBSET FileId
        BY <2>1 DEF Iterator
      <4> HIDE DEF Key
      <4> QED  BY <2>1, <4>1, <4>2 DEF Iterator
    <3> QED  BY <3>1
  <2>4. iter' \in [Iter -> Iterator]
    <3>1. CASE Ahead(i) = {}
      BY <1>2, <2>2, <3>1 DEF IterNext, TypeOK
    <3>2. CASE Ahead(i) # {}
      <4>1. PICK k \in Ahead(i) :
                iter' = [iter EXCEPT ![i].pos = k, ![i].held = {f \in @ : Hi(disk[f]) >= k}]
        BY <1>2, <3>2 DEF IterNext
      <4>2. k \in Key  BY DEF Ahead
      <4>3. iter' = [iter EXCEPT ![i] = [iter[i] EXCEPT !.pos = k,
                                                       !.held = {f \in @ : Hi(disk[f]) >= k}]]
        BY <4>1
      <4> QED  BY <2>3, <4>2, <4>3 DEF TypeOK
    <3> QED  BY <3>1, <3>2
  <2> QED  BY <1>2, <2>4 DEF IterNext, treeVars, fileVars, jobVars, sliceVars, TypeOK
<1>3. ASSUME NEW i \in Iter, IterClose(i) PROVE TypeOK'
  <2>1. Closed \in Iterator
    BY EmptyTree DEF Closed, Iterator
  <2> QED  BY <1>3, <2>1, DiskType DEF IterClose, treeVars, jobVars, sliceVars, TypeOK
<1> QED  BY <1>1, <1>2, <1>3 DEF IterOps

LEMMA WorkerTypes ==
  ASSUME TypeOK, Worker
  PROVE  TypeOK'
<1>1. ASSUME NEW s \in queued, SliceOpen(s) PROVE TypeOK'
  <2>1. /\ s \in queued /\ queued' = queued \ {s}
        /\ running' = running \cup {s} \/ running' = running
        /\ anyFailed' = anyFailed \/ anyFailed' = TRUE
    BY <1>1, Zenon DEF SliceOpen
  <2>2. anyFailed' \in BOOLEAN
    BY <2>1, Zenon DEF TypeOK
  <2>3. queued' \subseteq Slice /\ running' \subseteq Slice
    BY <2>1 DEF TypeOK
  <2> QED  BY <1>1, <2>2, <2>3 DEF SliceOpen, treeVars, fileVars, callerVars, TypeOK
<1>2. ASSUME NEW s \in running, SliceMerge(s) PROVE TypeOK'
  <2>1. PICK c \in Naming(Outputs(bgTree, s, disk)) :
          /\ disk' = Written(c) /\ onDisk' = onDisk \cup DOMAIN c
          /\ toRegister' = toRegister \cup DOMAIN c
    BY <1>2 DEF SliceMerge
  <2>2. Outputs(bgTree, s, disk) \in SUBSET File /\ s \in Slice
    BY OutputsType DEF TypeOK
  <2>3. disk' \in [FileId -> File] /\ DOMAIN c \subseteq FileId
    BY <2>1, <2>2, WrittenType
  <2> QED  BY <1>2, <2>1, <2>2, <2>3 DEF SliceMerge, treeVars, callerVars, TypeOK, Slice
<1>3. ASSUME NEW s \in running, SliceFail(s) PROVE TypeOK'
  BY <1>3 DEF SliceFail, treeVars, fileVars, callerVars, TypeOK
<1>4. ASSUME Finalize PROVE TypeOK'
  <2>1. Registered \subseteq FileId
    BY DEF Registered, TypeOK
  <2>2. disk' \in [FileId -> File] /\ onDisk' \subseteq FileId
    BY <1>4, DiskType DEF Finalize, TypeOK
  <2>3. TreeTypes' /\ JobTypes' /\ files' \subseteq FileId /\ bgSrcFiles' \subseteq FileId
    <3>1. CASE Launch(memTree, Empty, files \cup Registered, disk')
      <4>1. memTree \in Tree /\ Empty \in Tree /\ files \cup Registered \in SUBSET FileId
        BY <2>1, EmptyTree DEF TypeOK
      <4> QED  BY <3>1, <4>1, LaunchTypes
    <3>2. CASE ~(Chains /\ memTree # Empty)
      BY <1>4, <2>1, <3>2, EmptyTree DEF Finalize, TypeOK, TreeTypes, JobTypes
    <3> QED  BY <1>4, <3>1, <3>2 DEF Finalize
  <2> QED  BY <1>4, <2>2, <2>3, TypeParts
           DEF Finalize, callerVars, TypeOK, TreeTypes, JobTypes
<1>5. ASSUME Signal PROVE TypeOK'
  BY <1>5 DEF Signal, treeVars, fileVars, sliceVars, callerVars, TypeOK
<1> QED  BY <1>1, <1>2, <1>3, <1>4, <1>5 DEF Worker

LEMMA StutterTypes ==
  ASSUME TypeOK, UNCHANGED vars
  PROVE  TypeOK'
BY DEF vars, treeVars, fileVars, jobVars, sliceVars, callerVars, TypeOK

LEMMA TypeStep ==
  ASSUME TypeOK, [Next]_vars
  PROVE  TypeOK'
BY InsertTypes, FileOpTypes, IterTypes, WorkerTypes, StutterTypes DEF Next

\* Every variable of the store keeps its type, through every operation, merge step,
\* I/O error and iterator.
THEOREM TypeCorrect == Spec => []TypeOK
<1>1. Init => TypeOK
  <2>1. Closed \in Iterator
    BY EmptyTree, MergeAssumption DEF Closed, Iterator
  <2> QED  BY EmptyTree, BlankFile, <2>1 DEF Init, TypeOK
<1>2. TypeOK /\ [Next]_vars => TypeOK'
  BY TypeStep
<1> QED  BY <1>1, <1>2, PTL DEF Spec

-----------------------------------------------------------------------------
(* bgPending and the worker that will clear it                             *)

LEMMA LaunchPends ==
  ASSUME NEW t, NEW rest, NEW fs, NEW d, Launch(t, rest, fs, d)
  PROVE  PendingHasJob'
BY DEF Launch, PendingHasJob

LEMMA PutPends ==
  ASSUME PendingHasJob, NEW k \in Key, NEW v \in Val, Put(k, v) \/ FlushAndPut(k, v)
  PROVE  PendingHasJob'
<1>1. ASSUME Put(k, v) PROVE PendingHasJob'
  BY <1>1, LaunchPends DEF Put, jobVars, PendingHasJob
<1>2. ASSUME FlushAndPut(k, v) PROVE PendingHasJob'
  BY <1>1, <1>2, LaunchPends DEF FlushAndPut
<1> QED  BY <1>1, <1>2

LEMMA FinalizePends ==
  ASSUME MaxMemoryRecords > 0, PendingHasJob, Finalize
  PROVE  PendingHasJob'
<1>1. memTree = Empty => ~Chains
  <2>1. Count(Empty) = 0
    BY EmptyTree, FS_EmptySet DEF Count
  <2> QED  BY <2>1, StoreAssumption DEF Chains
<1>2. CASE Launch(memTree, Empty, files \cup Registered, disk')
  BY <1>2, LaunchPends
<1>3. CASE ~(Chains /\ memTree # Empty)
  BY <1>1, <1>3 DEF Finalize, PendingHasJob
<1> QED  BY <1>2, <1>3 DEF Finalize

\* With a threshold of at least one record, a caller that waits for bgPending always
\* waits for a merge that exists: the chained merges never drop it.
THEOREM PendingDiscipline ==
  ASSUME MaxMemoryRecords > 0
  PROVE  Spec => []PendingHasJob
<1>1. Init => PendingHasJob
  BY DEF Init, PendingHasJob
<1>2. PendingHasJob /\ [Next]_vars => PendingHasJob'
  <2> SUFFICES ASSUME PendingHasJob, [Next]_vars PROVE PendingHasJob'
    OBVIOUS
  <2>1. ASSUME NewInsert \/ Resume PROVE PendingHasJob'
    BY <2>1, PutPends
       DEF NewInsert, Resume, Insert, InsertFlushes, InsertWaits, InsertResumes, jobVars,
           PendingHasJob
  <2>2. ASSUME FileOps \/ IterOps \/ UNCHANGED vars PROVE PendingHasJob'
    BY <2>2 DEF FileOps, SyncFlush, Delete, Update, IterOps, IterOpen, IterNext, IterClose,
                vars, jobVars, PendingHasJob
  <2>3. ASSUME Worker PROVE PendingHasJob'
    BY <2>3, FinalizePends
       DEF Worker, SliceOpen, SliceMerge, SliceFail, Signal, PendingHasJob
  <2> QED  BY <2>1, <2>2, <2>3 DEF Next
<1> QED  BY <1>1, <1>2, PTL DEF Spec

-----------------------------------------------------------------------------
(* The merge keeps every record.  The invariant says where each record of  *)
(* the tree and of the source files is while slices finish in any order.   *)

Merging == job = "merging" => bgPending

KeepInv == TypeOK /\ Merging /\ ReferencesExist /\ MergeAccounts

Owners ==
  /\ mergedSrcs \subseteq bgSrcFiles
  /\ files \cap bgSrcFiles = {}
  /\ toRegister \cap (files \cup bgSrcFiles) = {}
  /\ \A s \in Pending : s.src \in bgSrcFiles \cup {NoFile}
Quiet ==
  job # "merging" =>
    /\ bgTree = Empty /\ bgSrcFiles = {} /\ Pending = {} /\ toRegister = {}
    /\ ~anyFailed
NothingNew(k) == Recs(toRegister, k) \subseteq bgTree[k] \cup Recs(bgSrcFiles, k)
TreeKept(k)   == bgTree[k] \subseteq Recs(toRegister, k) \/ \E s \in Pending : k \in s.keys
SourceKept(f, k) ==
  IF f \in mergedSrcs THEN disk[f].recs[k] \subseteq Recs(toRegister, k)
  ELSE \E s \in Pending : s.src = f
AllKept == \A k \in Key : TreeKept(k) /\ \A f \in bgSrcFiles : SourceKept(f, k)

LEMMA AccountParts ==
  /\ MergeAccounts <=> /\ Owners /\ Quiet
                       /\ \A k \in Key : NothingNew(k)
                       /\ ~anyFailed => AllKept
  /\ MergeAccounts' <=> /\ Owners' /\ Quiet'
                        /\ (\A k \in Key : NothingNew(k))'
                        /\ ~anyFailed' => AllKept'
BY DEF MergeAccounts, Owners, Quiet, NothingNew, TreeKept, SourceKept, AllKept

\* A step that leaves the merge alone keeps its accounts.
LEMMA SameAccounts ==
  ASSUME MergeAccounts, Merging,
         UNCHANGED <<bgTree, disk, files, bgSrcFiles, bgPending, job, sliceVars>>
  PROVE  Merging' /\ MergeAccounts'
BY DEF MergeAccounts, Merging, sliceVars, Recs, Pending

\* While no merge runs there is nothing to account for.
LEMMA QuietAccounts ==
  ASSUME job' # "merging", bgTree' = Empty, bgSrcFiles' = {}, queued' = {}, running' = {},
         toRegister' = {}, mergedSrcs' = {}, ~anyFailed'
  PROVE  Merging' /\ MergeAccounts'
<1>1. Pending' = {}
  BY DEF Pending
<1>2. \A k \in Key : Recs(toRegister, k)' = {} /\ bgTree'[k] = {}
  BY DEF Recs, Empty
<1> QED  BY <1>1, <1>2 DEF MergeAccounts, Merging, Recs

LEMMA QuietNow ==
  ASSUME KeepInv, ~bgPending
  PROVE  /\ job # "merging" /\ bgTree = Empty /\ bgSrcFiles = {} /\ queued = {} /\ running = {}
         /\ toRegister = {} /\ mergedSrcs = {} /\ ~anyFailed
BY DEF KeepInv, Merging, MergeAccounts, Pending

\* Every record a merge starts from is in one of its slices.
LEMMA LaunchAccounts ==
  ASSUME NEW t \in Tree, NEW rest, NEW fs \in SUBSET FileId, NEW d, Launch(t, rest, fs, d)
  PROVE  /\ Merging' /\ MergeAccounts'
         /\ bgTree' = t /\ memTree' = rest
         /\ files' \cup bgSrcFiles' = fs /\ toRegister' = {}
<1>1. PICK plan \in Plans(t, fs, d) :
        /\ bgTree' = t /\ memTree' = rest
        /\ files' = fs \ Sources(plan) /\ bgSrcFiles' = Sources(plan)
        /\ queued' = plan /\ running' = {} /\ toRegister' = {} /\ mergedSrcs' = {}
        /\ anyFailed' = FALSE /\ bgPending' = TRUE /\ job' = "merging"
  BY DEF Launch
<1>2. /\ Sources(plan) \subseteq fs
      /\ \A s \in plan : s.src \in Sources(plan) \cup {NoFile}
  BY PlanType
<1>3. Pending' = plan
  BY <1>1 DEF Pending
<1>4. \A k \in Key : Recs(toRegister, k)' = {}
  BY <1>1 DEF Recs
<1>5. \A k \in Key : bgTree'[k] = {} \/ \E s \in plan : k \in s.keys
  BY <1>1, PlanCovers DEF KeysOf
<1>6. \A f \in bgSrcFiles' : \E s \in plan : s.src = f
  BY <1>1 DEF Sources
<1>7. Owners' /\ Quiet'
  BY <1>1, <1>2, <1>3 DEF Owners, Quiet
<1>8. (\A k \in Key : NothingNew(k))'
  BY <1>4 DEF NothingNew
<1>9. AllKept'
  BY <1>1, <1>3, <1>4, <1>5, <1>6 DEF AllKept, TreeKept, SourceKept
<1> QED  BY <1>1, <1>2, <1>7, <1>8, <1>9, AccountParts DEF Merging

LEMMA InsertKeeps ==
  ASSUME KeepInv, NewInsert \/ Resume
  PROVE  Merging' /\ ReferencesExist' /\ MergeAccounts'
<1> USE DEF KeepInv
<1>1. ASSUME NEW t \in Tree, NEW rest, Launch(t, rest, files, disk), UNCHANGED <<disk, onDisk>>
      PROVE  Merging' /\ ReferencesExist' /\ MergeAccounts'
  <2>1. files \in SUBSET FileId
    BY DEF TypeOK
  <2> QED  BY <1>1, <2>1, LaunchAccounts DEF ReferencesExist
<1>2. ASSUME NEW k \in Key, NEW v \in Val, Put(k, v)
      PROVE  Merging' /\ ReferencesExist' /\ MergeAccounts'
  <2> DEFINE t == [memTree EXCEPT ![k] = Combine(@, {v})]
  <2>1. t \in Tree  BY PutType DEF TypeOK
  <2>2. CASE Launch(t, Empty, files, disk) /\ UNCHANGED <<disk, onDisk>>
    BY <2>1, <2>2, <1>1
  <2>3. CASE UNCHANGED <<bgTree, fileVars, jobVars>>
    BY <2>3, SameAccounts DEF fileVars, jobVars, sliceVars, ReferencesExist
  <2> QED  BY <1>2, <2>2, <2>3 DEF Put
<1>3. ASSUME NEW k \in Key, NEW v \in Val, FlushAndPut(k, v)
      PROVE  Merging' /\ ReferencesExist' /\ MergeAccounts'
  BY <1>1, <1>2, <1>3 DEF FlushAndPut, TypeOK
<1>4. ASSUME NEW k \in Key, NEW v \in Val, InsertWaits(k, v)
      PROVE  Merging' /\ ReferencesExist' /\ MergeAccounts'
  BY <1>4, SameAccounts DEF InsertWaits, treeVars, fileVars, jobVars, sliceVars, ReferencesExist
<1> QED  BY <1>2, <1>3, <1>4 DEF NewInsert, Resume, Insert, InsertFlushes, InsertResumes

\* A synchronous flush changes the registry while no merge runs.
LEMMA RewriteKeeps ==
  ASSUME KeepInv, ~bgPending, NEW plan \in Plans(memTree, files, disk),
         NEW c \in Naming(PlanOutputs(memTree, plan, disk)), FlushRewrites(plan, c)
  PROVE  files' \subseteq onDisk'
BY DEF FlushRewrites, KeepInv, ReferencesExist

LEMMA FlushKeeps ==
  ASSUME KeepInv, ~bgPending, FlushMemTree
  PROVE  files' \subseteq onDisk'
<1>1. CASE memTree = Empty
  BY <1>1 DEF FlushMemTree, KeepInv, ReferencesExist
<1>2. CASE memTree # Empty
  BY <1>2, RewriteKeeps DEF FlushMemTree
<1> QED  BY <1>1, <1>2

LEMMA FileOpKeeps ==
  ASSUME KeepInv, FileOps
  PROVE  Merging' /\ ReferencesExist' /\ MergeAccounts'
<1>1. ~bgPending
  BY DEF FileOps, SyncFlush, Delete, Update
<1>2. UNCHANGED <<bgTree, bgSrcFiles, jobVars>>
  BY DEF FileOps, SyncFlush, Delete, Update
<1>3. Merging' /\ MergeAccounts'
  BY <1>1, <1>2, QuietNow, QuietAccounts DEF jobVars, sliceVars
<1>4. files' \subseteq onDisk'
  <2>1. ASSUME SyncFlush PROVE files' \subseteq onDisk'
    BY <1>1, <2>1, FlushKeeps DEF SyncFlush
  <2>2. ASSUME NEW k \in Key, Delete(k) PROVE files' \subseteq onDisk'
    BY <2>2 DEF Delete, KeepInv, ReferencesExist
  <2>3. ASSUME NEW k \in Key, NEW v \in Val, Update(k, v) PROVE files' \subseteq onDisk'
    <3>1. CASE memTree[k] = {}
      BY <2>3, <3>1 DEF Update, KeepInv, ReferencesExist
    <3>2. CASE memTree[k] # {}
      BY <1>1, <2>3, <3>2, RewriteKeeps DEF Update
    <3> QED  BY <3>1, <3>2
  <2> QED  BY <2>1, <2>2, <2>3 DEF FileOps
<1>5. bgSrcFiles' = {} /\ toRegister' = {}
  BY <1>1, <1>2, QuietNow DEF jobVars, sliceVars
<1> QED  BY <1>3, <1>4, <1>5 DEF ReferencesExist

LEMMA SliceOpenKeeps ==
  ASSUME KeepInv, NEW s \in queued, SliceOpen(s)
  PROVE  Merging' /\ ReferencesExist' /\ MergeAccounts' /\ View' = View
<1>1. s.src \in onDisk \cup {NoFile}
  BY DEF KeepInv, MergeAccounts, ReferencesExist, Pending
<1>2. /\ queued' = queued \ {s} /\ running' = running \cup {s} /\ anyFailed' = anyFailed
      /\ UNCHANGED <<treeVars, fileVars, bgPending, job, toRegister, mergedSrcs>>
  BY <1>1 DEF SliceOpen
<1>3. Pending' = Pending
  BY <1>2 DEF Pending
<1>4. MergeAccounts'
  BY <1>2, <1>3 DEF KeepInv, MergeAccounts, Recs, treeVars, fileVars
<1> QED  BY <1>2, <1>4 DEF KeepInv, Merging, ReferencesExist, View, Visible, treeVars, fileVars

LEMMA SliceFailKeeps ==
  ASSUME KeepInv, NEW s \in running, SliceFail(s)
  PROVE  Merging' /\ ReferencesExist' /\ MergeAccounts' /\ View' = View
<1>1. /\ running' = running \ {s} /\ anyFailed'
      /\ UNCHANGED <<treeVars, fileVars, bgPending, job, queued, toRegister, mergedSrcs>>
  BY DEF SliceFail
<1>2. s \in Pending /\ Pending' \subseteq Pending
  BY <1>1 DEF Pending
<1>3. job = "merging"
  BY <1>2 DEF KeepInv, MergeAccounts
<1>4. MergeAccounts'
  BY <1>1, <1>2, <1>3 DEF KeepInv, MergeAccounts, Recs, treeVars, fileVars
<1> QED  BY <1>1, <1>4 DEF KeepInv, Merging, ReferencesExist, View, Visible, treeVars, fileVars

LEMMA SliceMergeKeeps ==
  ASSUME HasMergeFn, KeepInv, NEW s \in running, SliceMerge(s)
  PROVE  Merging' /\ ReferencesExist' /\ MergeAccounts' /\ View' = View
<1> DEFINE m == Merged(bgTree, s, disk)
<1> USE DEF KeepInv
<1>1. s \in Slice /\ s \in Pending /\ bgTree \in Tree /\ disk \in [FileId -> File]
  BY DEF TypeOK, Pending
<1>2. PICK c \in Naming(Outputs(bgTree, s, disk)) :
        /\ disk' = Written(c) /\ onDisk' = onDisk \cup DOMAIN c
        /\ toRegister' = toRegister \cup DOMAIN c
  BY DEF SliceMerge
<1>3. /\ mergedSrcs' = mergedSrcs \cup ({s.src} \ {NoFile}) /\ running' = running \ {s}
      /\ UNCHANGED <<memTree, bgTree, files, bgSrcFiles, bgPending, job, queued, anyFailed>>
  BY DEF SliceMerge, treeVars
<1>4. job = "merging"
  BY <1>1 DEF MergeAccounts
<1>5. /\ DOMAIN c \subseteq FileId /\ DOMAIN c \cap (onDisk \cup files \cup bgSrcFiles) = {}
      /\ \A f \in DOMAIN c : c[f] \in Outputs(bgTree, s, disk)
      /\ \A o \in Outputs(bgTree, s, disk) : \E f \in DOMAIN c : c[f] = o
  <2>1. Outputs(bgTree, s, disk) \in SUBSET File
    BY <1>1, OutputsType
  <2>2. DOMAIN c \subseteq Unused
    BY <2>1, NamingFacts
  <2> QED  BY <2>1, <2>2, NamingFacts DEF Unused
<1>6. /\ \A f \in onDisk : disk'[f] = disk[f]
      /\ \A f \in DOMAIN c : disk'[f] = c[f]
  BY <1>2, <1>5 DEF Written, TypeOK
<1>7. files \cup bgSrcFiles \cup toRegister \subseteq onDisk
  BY DEF ReferencesExist
<1>8. \A k \in Key : Recs(toRegister, k)' = Recs(toRegister, k) \cup m[k]
  <2> SUFFICES ASSUME NEW k \in Key PROVE Recs(toRegister, k)' = Recs(toRegister, k) \cup m[k]
    OBVIOUS
  <2>1. m[k] = UNION {o.recs[k] : o \in Outputs(bgTree, s, disk)}
    BY <1>1, OutputsExact
  <2>2. m[k] = UNION {disk'[f].recs[k] : f \in DOMAIN c}
    <3> HIDE DEF m
    <3> QED  BY <1>5, <1>6, <2>1
  <2>3. Recs(toRegister, k) = UNION {disk'[f].recs[k] : f \in toRegister}
    BY <1>6, <1>7 DEF Recs
  <2> HIDE DEF m
  <2> QED  BY <1>2, <2>2, <2>3 DEF Recs
<1>9. \A k \in Key : Recs(bgSrcFiles, k)' = Recs(bgSrcFiles, k)
  BY <1>3, <1>6, <1>7 DEF Recs
<1>10. \A k \in Key : m[k] = (IF k \in s.keys THEN bgTree[k] ELSE {})
                            \cup (IF s.src = NoFile THEN {} ELSE disk[s.src].recs[k])
  BY <1>1, MergedUnion
<1>11. s.src \in bgSrcFiles \cup {NoFile}
  BY <1>1 DEF MergeAccounts
<1>12. Pending' \subseteq Pending /\ Pending \ {s} \subseteq Pending'
  BY <1>3 DEF Pending
<1> HIDE DEF m
<1>13. Owners' /\ Quiet'
  BY <1>2, <1>3, <1>4, <1>5, <1>11, <1>12, AccountParts DEF Owners, Quiet
<1>14. (\A k \in Key : NothingNew(k))'
  <2> SUFFICES ASSUME NEW k \in Key PROVE NothingNew(k)'
    OBVIOUS
  <2>1. Recs(toRegister, k) \subseteq bgTree[k] \cup Recs(bgSrcFiles, k)
    BY AccountParts DEF NothingNew
  <2>2. m[k] \subseteq bgTree[k] \cup Recs(bgSrcFiles, k)
    BY <1>10, <1>11 DEF Recs
  <2> QED  BY <1>3, <1>8, <1>9, <2>1, <2>2 DEF NothingNew
<1>15. ASSUME ~anyFailed PROVE AllKept'
  <2>1. AllKept
    BY <1>15, AccountParts
  <2>2. ASSUME NEW k \in Key PROVE TreeKept(k)'
    <3>1. CASE bgTree[k] \subseteq Recs(toRegister, k) \/ k \in s.keys
      BY <1>3, <1>8, <1>10, <3>1 DEF TreeKept
    <3>2. CASE \E r \in Pending : k \in r.keys /\ r # s
      BY <1>12, <3>2 DEF TreeKept
    <3> QED  BY <2>1, <3>1, <3>2 DEF AllKept, TreeKept
  <2>3. ASSUME NEW k \in Key, NEW f \in bgSrcFiles PROVE SourceKept(f, k)'
    <3>0. disk'[f] = disk[f] /\ f # NoFile
      BY <1>6, <1>7, MergeAssumption DEF TypeOK
    <3>1. CASE f \in mergedSrcs
      BY <1>3, <1>8, <2>1, <3>0, <3>1 DEF AllKept, SourceKept
    <3>2. CASE f = s.src
      BY <1>3, <1>8, <1>10, <3>0, <3>2 DEF SourceKept
    <3>3. CASE f \notin mergedSrcs /\ f # s.src
      BY <1>3, <1>12, <2>1, <3>3 DEF AllKept, SourceKept
    <3> QED  BY <3>1, <3>2, <3>3
  <2> QED  BY <1>3, <2>2, <2>3 DEF AllKept
<1>16. MergeAccounts'
  BY <1>3, <1>13, <1>14, <1>15, AccountParts
<1>17. ReferencesExist' /\ Merging'
  BY <1>2, <1>3, <1>7 DEF ReferencesExist, Merging
<1>18. View' = View
  <2>1. (files' \cup bgSrcFiles') \cap onDisk' = (files \cup bgSrcFiles) \cap onDisk
    BY <1>2, <1>3, <1>7
  <2>2. \A k \in Key : Visible(k)' = Visible(k)
    BY <1>3, <1>6, <2>1 DEF Visible
  <2> QED  BY <2>2 DEF View
<1> QED  BY <1>16, <1>17, <1>18

\* The registry Finalize makes: outputs of slices that all succeeded, or the sources
\* of those that did not; either way the files are there, and nothing else goes.
LEMMA FinalizeRegistry ==
  ASSUME Iter = {}, KeepInv, Finalize
  PROVE  /\ files \cup Registered \subseteq onDisk'
         /\ \A f \in files \cup Registered : disk'[f] = disk[f]
         /\ Registered \subseteq FileId
<1>1. \A f : Removable(f)
  BY DEF Finalize, Removable, HeldByIter, HeldBySlice
<1>2. /\ onDisk' = onDisk \ Discarded
      /\ disk' = Kept(disk, onDisk' \cup files \cup Registered)
  BY <1>1 DEF Finalize
<1>3. Registered \subseteq onDisk /\ files \subseteq onDisk /\ onDisk \subseteq FileId
  BY DEF KeepInv, ReferencesExist, Registered, TypeOK
<1>4. (files \cup Registered) \cap Discarded = {}
  BY DEF KeepInv, MergeAccounts, Registered, Discarded
<1> QED  BY <1>2, <1>3, <1>4 DEF Kept

LEMMA FinalizeAccounts ==
  ASSUME Iter = {}, KeepInv, Finalize
  PROVE  /\ Merging' /\ MergeAccounts'
         /\ files' \cup bgSrcFiles' = files \cup Registered /\ toRegister' = {}
         /\ \A k \in Key : memTree'[k] \cup bgTree'[k] = memTree[k]
<1>0. \A k \in Key : Empty[k] = {}
  BY DEF Empty
<1>1. CASE Launch(memTree, Empty, files \cup Registered, disk')
  <2>1. memTree \in Tree /\ files \cup Registered \in SUBSET FileId
    BY FinalizeRegistry DEF KeepInv, TypeOK
  <2>2. /\ Merging' /\ MergeAccounts' /\ bgTree' = memTree /\ memTree' = Empty
        /\ files' \cup bgSrcFiles' = files \cup Registered /\ toRegister' = {}
    BY <1>1, <2>1, LaunchAccounts
  <2> QED  BY <1>0, <2>2
<1>2. CASE ~(Chains /\ memTree # Empty)
  <2>1. /\ files' = files \cup Registered /\ bgSrcFiles' = {} /\ bgTree' = Empty
        /\ toRegister' = {} /\ mergedSrcs' = {} /\ ~anyFailed' /\ job' # "merging"
        /\ memTree' = memTree /\ queued' = {} /\ running' = {}
    BY <1>2 DEF Finalize
  <2> QED  BY <1>0, <2>1, QuietAccounts
<1> QED  BY <1>1, <1>2 DEF Finalize

LEMMA FinalizeKeeps ==
  ASSUME Iter = {}, KeepInv, Finalize
  PROVE  /\ Merging' /\ ReferencesExist' /\ MergeAccounts'
         /\ \A k \in Key : View'[k] \subseteq View[k]
         /\ ~anyFailed => View' = View
<1>1. ReferencesExist' /\ Merging' /\ MergeAccounts'
  BY FinalizeRegistry, FinalizeAccounts DEF ReferencesExist
<1>2. \A k \in Key : View'[k] = memTree[k] \cup Recs(files \cup Registered, k)
  <2>1. (files' \cup bgSrcFiles') \cap onDisk' = files \cup Registered
    BY FinalizeRegistry, FinalizeAccounts
  <2>2. \A k \in Key : UNION {disk'[f].recs[k] : f \in files \cup Registered}
                        = Recs(files \cup Registered, k)
    BY FinalizeRegistry DEF Recs
  <2> QED  BY <2>1, <2>2, FinalizeAccounts DEF View, Visible
<1>3. \A k \in Key : View[k] = memTree[k] \cup bgTree[k] \cup Recs(files \cup bgSrcFiles, k)
  <2>1. (files \cup bgSrcFiles) \cap onDisk = files \cup bgSrcFiles
    BY DEF KeepInv, ReferencesExist
  <2> QED  BY <2>1 DEF View, Visible, Recs
<1>4. CASE anyFailed
  <2>1. \A k \in Key : Recs(files \cup Registered, k) \subseteq Recs(files \cup bgSrcFiles, k)
    BY <1>4 DEF Registered, Recs
  <2> QED  BY <1>1, <1>2, <1>3, <1>4, <2>1
<1>5. CASE ~anyFailed
  <2>1. Registered = toRegister
    BY <1>5 DEF Registered
  <2>2. Pending = {}
    BY DEF Finalize, Pending
  <2>3. ASSUME NEW k \in Key PROVE View'[k] = View[k]
    <3>1. bgTree[k] \subseteq Recs(toRegister, k)
      BY <1>5, <2>2 DEF KeepInv, MergeAccounts
    <3>2. \A f \in bgSrcFiles : disk[f].recs[k] \subseteq Recs(toRegister, k)
      BY <1>5, <2>2 DEF KeepInv, MergeAccounts
    <3>3. Recs(toRegister, k) = bgTree[k] \cup Recs(bgSrcFiles, k)
      <4>1. Recs(bgSrcFiles, k) \subseteq Recs(toRegister, k)
        BY <3>2 DEF Recs
      <4>2. Recs(toRegister, k) \subseteq bgTree[k] \cup Recs(bgSrcFiles, k)
        BY DEF KeepInv, MergeAccounts
      <4> QED  BY <3>1, <4>1, <4>2
    <3>4. \A S, T : Recs(S \cup T, k) = Recs(S, k) \cup Recs(T, k)
      BY DEF Recs
    <3>5. /\ Recs(files \cup toRegister, k) = Recs(files, k) \cup Recs(toRegister, k)
          /\ Recs(files \cup bgSrcFiles, k) = Recs(files, k) \cup Recs(bgSrcFiles, k)
      BY <3>4
    <3> QED  BY <1>2, <1>3, <2>1, <3>3, <3>5
  <2>4. View' = View
    BY <2>3 DEF View
  <2> QED  BY <1>1, <2>3, <2>4
<1> QED  BY <1>4, <1>5

LEMMA SignalKeeps ==
  ASSUME KeepInv, Signal
  PROVE  Merging' /\ ReferencesExist' /\ MergeAccounts' /\ View' = View
<1>1. /\ job' # "merging" /\ job = "signal"
      /\ UNCHANGED <<treeVars, fileVars, sliceVars>>
  BY DEF Signal
<1>2. /\ bgTree' = Empty /\ bgSrcFiles' = {} /\ queued' = {} /\ running' = {}
      /\ toRegister' = {} /\ mergedSrcs' = {} /\ ~anyFailed'
  BY <1>1 DEF KeepInv, MergeAccounts, Pending, treeVars, fileVars, sliceVars
<1>3. Merging' /\ MergeAccounts'
  BY <1>1, <1>2, QuietAccounts
<1> QED  BY <1>1, <1>3 DEF KeepInv, ReferencesExist, View, Visible, treeVars, fileVars, sliceVars

LEMMA WorkerKeeps ==
  ASSUME Iter = {}, HasMergeFn, KeepInv, Worker
  PROVE  /\ Merging' /\ ReferencesExist' /\ MergeAccounts'
         /\ \A k \in Key : View'[k] \subseteq View[k]
         /\ ~anyFailed => View' = View
BY SliceOpenKeeps, SliceMergeKeeps, SliceFailKeeps, FinalizeKeeps, SignalKeeps DEF Worker

LEMMA StepKeeps ==
  ASSUME Iter = {}, HasMergeFn, KeepInv, [Next]_vars
  PROVE  KeepInv'
<1>1. TypeOK'
  BY TypeStep DEF KeepInv
<1>2. Merging' /\ ReferencesExist' /\ MergeAccounts'
  <2>1. ASSUME UNCHANGED vars
        PROVE  Merging' /\ ReferencesExist' /\ MergeAccounts'
    <3>1. UNCHANGED <<treeVars, fileVars, jobVars>>
      BY <2>1 DEF vars
    <3> QED  BY <3>1, SameAccounts
             DEF KeepInv, treeVars, fileVars, jobVars, sliceVars, ReferencesExist
  <2>2. ~IterOps
    BY DEF IterOps
  <2> QED  BY <2>1, <2>2, InsertKeeps, FileOpKeeps, WorkerKeeps DEF Next
<1> QED  BY <1>1, <1>2 DEF KeepInv

LEMMA InitKeeps == Init => KeepInv
<1>1. Init => TypeOK
  <2>1. Closed \in Iterator
    BY EmptyTree, MergeAssumption DEF Closed, Iterator
  <2> QED  BY EmptyTree, BlankFile, <2>1 DEF Init, TypeOK
<1>2. Init => MergeAccounts
  BY DEF Init, MergeAccounts, Recs, Pending, Empty
<1> QED  BY <1>1, <1>2 DEF Init, KeepInv, Merging, ReferencesExist

\* With no iterator open, the steps of a merge bring back no record and, unless a
\* slice fails, lose none: for every tree, layout of files, order of slices and
\* interleaving with the callers.
THEOREM MergeKeeps ==
  ASSUME Iter = {}, HasMergeFn
  PROVE  Spec => MergeKeepsRecords
<1>1. KeepInv /\ [Next]_vars => KeepInv'
  BY StepKeeps
<1>2. KeepInv /\ [Next]_vars =>
        [Worker => /\ \A k \in Key : View'[k] \subseteq View[k]
                   /\ ~anyFailed => View' = View]_vars
  BY WorkerKeeps
<1> QED  BY InitKeeps, <1>1, <1>2, PTL DEF Spec, MergeKeepsRecords

\* Nor does the registry or a merge ever refer to a file that is not on disk.
THEOREM ReferencesStay ==
  ASSUME Iter = {}, HasMergeFn
  PROVE  Spec => []ReferencesExist
<1>1. KeepInv /\ [Next]_vars => KeepInv'
  BY StepKeeps
<1>2. KeepInv => ReferencesExist
  BY DEF KeepInv
<1> QED  BY InitKeeps, <1>1, <1>2, PTL DEF Spec

\* Why: every record of the tree and the sources is in an output or awaits a slice.
THEOREM AccountsStay ==
  ASSUME Iter = {}, HasMergeFn
  PROVE  Spec => []MergeAccounts
<1>1. KeepInv /\ [Next]_vars => KeepInv'
  BY StepKeeps
<1>2. KeepInv => MergeAccounts
  BY DEF KeepInv
<1> QED  BY InitKeeps, <1>1, <1>2, PTL DEF Spec
=============================================================================
