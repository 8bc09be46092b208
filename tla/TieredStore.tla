----------------------------- MODULE TieredStore -----------------------------
(***************************************************************************)
(* The running tiered store of TieredStoreHybrid: an in-memory tree, a     *)
(* registry of sorted disk files with disjoint key ranges, and a           *)
(* background merge that a thread pool carries out slice by slice while    *)
(* inserts, finds and open iterators go on.                                *)
(*                                                                         *)
(* One action is one critical section of storeLock, or one step a worker   *)
(* of mergePool takes without it.  A thread that waits for bgPending to    *)
(* become 0 and then retakes the lock is an action guarded by ~bgPending,  *)
(* since the code tests bgPending again under the lock.                    *)
(*                                                                         *)
(* A file name stands for the path made from the never repeated fileId; a  *)
(* name nothing refers to any more is blanked and may be drawn again.      *)
(* Allocation failures and failing writes of a synchronous flush are left  *)
(* out; a failing slice of a background merge is not (SlicesMayFail).      *)
(***************************************************************************)
EXTENDS TSMerge

CONSTANTS
  MaxMemoryRecords,  \* maxMemoryBytes / recordSize
  ArenaMode,         \* TRUE: the tree lives in a caller's arena, FALSE: malloc
  Threads,           \* threads of mergePool
  SlicesMayFail,     \* TRUE: a slice may hit an I/O error
  Iter,              \* iterators the callers may have open
  MaxBlocked         \* bound on the inserters waiting for the merge

ASSUME StoreAssumption ==
  /\ MaxMemoryRecords \in Nat
  /\ ArenaMode \in BOOLEAN
  /\ ArenaMode \/ MaxMemoryRecords >= 2
  /\ Threads \in Nat \ {0}
  /\ SlicesMayFail \in BOOLEAN
  /\ IsFiniteSet(Iter)
  /\ MaxBlocked \in Nat

VARIABLES
  memTree, bgTree,   \* the tree inserts go to; the tree being merged
  disk,              \* descriptor and slots of every name
  onDisk,            \* names that are files of the file system
  files,             \* the registry ts->files
  bgSrcFiles,        \* sources of the merge in flight
  bgPending,
  job,               \* "none", "merging", or "signal": Finalize left the lock
                     \* and has not cleared bgPending yet
  queued, running,   \* slices not started; slices that have their source open
  toRegister, mergedSrcs, anyFailed,
  blocked,           \* records whose inserter waits for the merge
  iter               \* the iterators

treeVars   == <<memTree, bgTree>>
fileVars   == <<disk, onDisk, files, bgSrcFiles>>
sliceVars  == <<queued, running, toRegister, mergedSrcs, anyFailed>>
jobVars    == <<bgPending, job, sliceVars>>
callerVars == <<blocked, iter>>
vars       == <<treeVars, fileVars, jobVars, callerVars>>

-----------------------------------------------------------------------------
(* Iterators and the file system.                                          *)

\* snap: the files of the snapshot; held: those of them whose handle is open;
\* pos: the key returned last.  at is history: the map the store held at the open.
Iterator == [open : BOOLEAN, snap : SUBSET FileId, held : SUBSET FileId,
             pos : 0..MaxKey, at : Tree]
Closed   == [open |-> FALSE, snap |-> {}, held |-> {}, pos |-> 0, at |-> Empty]

IterCount == Cardinality({i \in Iter : iter[i].open})      \* activeIterCount

HeldByIter(f)  == \E i \in Iter : f \in iter[i].held
HeldBySlice(f) == \E s \in running : s.src = f

\* Windows does not remove a file somebody has open.
Removable(f) == ~HeldByIter(f) /\ ~HeldBySlice(f)

\* Bug: a file is opened for writing while an iterator reads it.
Writable_Shared(f) == f \in onDisk

\* fopen_s(.., "r+b") fails while the file is open elsewhere.
Writable(f) == f \in onDisk /\ ~HeldByIter(f)

Unused == FileId \ (onDisk \cup files \cup bgSrcFiles \cup UNION {iter[i].snap : i \in Iter})

\* New names for a set of files, the lowest unused ones in key order.
Naming(outs) ==
  LET ids == {f \in Unused : Rank(Unused, f) < Cardinality(outs)}
  IN  {c \in [ids -> outs] :
         /\ \A f, g \in ids : f < g => Lo(c[f]) < Lo(c[g])
         /\ \A o \in outs : \E f \in ids : c[f] = o}

Written(c)    == [f \in FileId |-> IF f \in DOMAIN c THEN c[f] ELSE disk[f]]
Kept(d, used) == [f \in FileId |-> IF f \in used THEN d[f] ELSE Blank]

\* All parts the store holds for a key, wherever they are: no call returns this.
Visible(k) ==
  memTree[k] \cup bgTree[k]
    \cup UNION {disk[f].recs[k] : f \in (files \cup bgSrcFiles) \cap onDisk}

\* What a lookup returns: the first part it meets, nothing if it cannot read.
TSFind(k) ==
  LET Holding(S) == {f \in S \cap onDisk : disk[f].recs[k] # {}}
      First(S)   == disk[CHOOSE f \in Holding(S) : TRUE].recs[k]
  IN  CASE memTree[k] # {} -> memTree[k]
        [] memTree[k] = {} /\ bgTree[k] # {} -> bgTree[k]
        [] memTree[k] = {} /\ bgTree[k] = {} ->
             IF Holding(files) # {} THEN First(files)
             ELSE IF Holding(bgSrcFiles) # {} THEN First(bgSrcFiles) ELSE {}

-----------------------------------------------------------------------------
(* Starting a background merge (TSI_TriggerBgFlush with TSI_PrepMergeJob)  *)
(* of tree t over the registry fs, leaving rest as the tree inserts see.   *)

Launch(t, rest, fs, d) ==
  \E plan \in Plans(t, fs, d) :
    /\ bgTree' = t
    /\ memTree' = rest
    /\ files' = fs \ Sources(plan)
    /\ bgSrcFiles' = Sources(plan)
    /\ queued' = plan
    /\ running' = {}
    /\ toRegister' = {}
    /\ mergedSrcs' = {}
    /\ anyFailed' = FALSE
    /\ bgPending' = TRUE
    /\ job' = "merging"

-----------------------------------------------------------------------------
(* TSInsert                                                                *)

\* In malloc mode the tree is full at maxMemoryRecords keys; in arena mode when
\* the arena has overflowed, which depends on sizes that are not modelled.
MustFit(k)  == memTree[k] # {} \/ Count(memTree) < MaxMemoryRecords
Fits(k)     == ArenaMode \/ MustFit(k)
MayBeFull(k) == IF ArenaMode THEN memTree # Empty ELSE ~MustFit(k)

\* The record goes into a tree that has room; the soft threshold starts a merge.
Put(k, v) ==
  LET t == [memTree EXCEPT ![k] = Combine(@, {v})]
  IN  IF memTree[k] = {} /\ ~bgPending /\ Count(t) >= MaxMemoryRecords
      THEN Launch(t, Empty, files, disk) /\ UNCHANGED <<disk, onDisk>>
      ELSE memTree' = t /\ UNCHANGED <<bgTree, fileVars, jobVars>>

Insert(k, v) ==
  /\ Fits(k)
  /\ Put(k, v)
  /\ UNCHANGED callerVars

\* Tree full with no merge in flight: flush it, whatever it holds by now.
FlushAndPut(k, v) ==
  /\ ~bgPending
  /\ IF memTree = Empty THEN Put(k, v)
     ELSE /\ Launch(memTree, [Empty EXCEPT ![k] = {v}], files, disk)
          /\ UNCHANGED <<disk, onDisk>>

InsertFlushes(k, v) ==
  /\ MayBeFull(k)
  /\ FlushAndPut(k, v)
  /\ UNCHANGED callerVars

InsertWaits(k, v) ==
  /\ MayBeFull(k)
  /\ bgPending
  /\ <<k, v>> \notin blocked
  /\ Cardinality(blocked) < MaxBlocked
  /\ blocked' = blocked \cup {<<k, v>>}
  /\ UNCHANGED <<treeVars, fileVars, jobVars, iter>>

InsertResumes(k, v) ==
  /\ <<k, v>> \in blocked
  /\ FlushAndPut(k, v)
  /\ blocked' = blocked \ {<<k, v>>}
  /\ UNCHANGED iter

-----------------------------------------------------------------------------
(* Operations on the files: each waits until no merge is in flight.        *)

\* TSI_FlushMemTree: every file the tree touches is rewritten under the lock.
FlushRewrites(plan, c) ==
  /\ Sources(plan) \subseteq onDisk
  /\ memTree' = Empty
  /\ files' = (files \ Sources(plan)) \cup DOMAIN c
  /\ onDisk' = (onDisk \ {f \in Sources(plan) : Removable(f)}) \cup DOMAIN c

FlushMemTree ==
  IF memTree = Empty THEN UNCHANGED <<memTree, files, onDisk, disk>>
  ELSE \E plan \in Plans(memTree, files, disk) :
       \E c \in Naming(PlanOutputs(memTree, plan, disk)) :
         /\ FlushRewrites(plan, c)
         /\ disk' = Kept(Written(c), onDisk' \cup files')

\* What TSCheckpoint and TSEnumerate do to the running store.
SyncFlush ==
  /\ ~bgPending
  /\ memTree # Empty
  /\ FlushMemTree
  /\ UNCHANGED <<bgTree, bgSrcFiles, jobVars, callerVars>>

Covering(k) == {f \in files : InRange(k, disk[f])}

\* The slot becomes a tombstone, unless the file cannot be opened for writing:
\* then TSDelete returns an error and the tree has lost its part of the record.
Tombstoned(k, f) ==
  IF Writable(f) THEN [disk EXCEPT ![f].recs[k] = {}] ELSE disk

\* Bug: TSDelete does not wait for the merge in flight.
Delete_NoWait(k) ==
  /\ memTree' = [memTree EXCEPT ![k] = {}]
  /\ \/ Covering(k) = {} /\ disk' = disk
     \/ \E f \in Covering(k) : disk' = Tombstoned(k, f)
  /\ UNCHANGED <<bgTree, onDisk, files, bgSrcFiles, jobVars, callerVars>>

Delete(k) ==
  /\ ~bgPending
  /\ memTree' = [memTree EXCEPT ![k] = {}]
  /\ \/ Covering(k) = {} /\ disk' = disk
     \/ \E f \in Covering(k) : disk' = Tombstoned(k, f)
  /\ UNCHANGED <<bgTree, onDisk, files, bgSrcFiles, jobVars, callerVars>>

Overwritten(d, present, k, v) ==
  [f \in FileId |->
     IF f \in present /\ d[f].recs[k] # {} THEN [d[f] EXCEPT !.recs[k] = {v}] ELSE d[f]]

\* A record of the tree is flushed first, so that it has a slot to overwrite.
Update(k, v) ==
  /\ ~bgPending
  /\ IterCount = 0
  /\ IF memTree[k] = {}
     THEN /\ disk' = Overwritten(disk, files \cap onDisk, k, v)
          /\ UNCHANGED <<memTree, files, onDisk>>
     ELSE \E plan \in Plans(memTree, files, disk) :
          \E c \in Naming(PlanOutputs(memTree, plan, disk)) :
            /\ FlushRewrites(plan, c)
            /\ disk' = Overwritten(Kept(Written(c), onDisk' \cup files'),
                                   files' \cap onDisk', k, v)
  /\ UNCHANGED <<bgTree, bgSrcFiles, jobVars, callerVars>>

-----------------------------------------------------------------------------
(* TSIterOpen, TSIterNext, TSIterClose                                     *)

IterOpen(i) ==
  /\ ~bgPending
  /\ ~iter[i].open
  /\ FlushMemTree
  /\ iter' = [iter EXCEPT ![i] =
                [open |-> TRUE, snap |-> files', held |-> files' \cap onDisk',
                 pos |-> 0, at |-> [k \in Key |-> Visible(k)]]]
  /\ UNCHANGED <<bgTree, bgSrcFiles, jobVars, blocked>>

\* Keys the iterator has still to return.
Ahead(i) ==
  {k \in Key : k > iter[i].pos /\ \E f \in iter[i].held : disk[f].recs[k] # {}}

\* One record, in key order; a file is closed once its last slot has been passed.
IterNext(i) ==
  /\ iter[i].open
  /\ IF Ahead(i) = {}
     THEN iter' = [iter EXCEPT ![i].held = {}]
     ELSE \E k \in Ahead(i) :
            /\ \A j \in Ahead(i) : k <= j
            /\ iter' = [iter EXCEPT ![i].pos = k,
                                    ![i].held = {f \in @ : Hi(disk[f]) >= k}]
  /\ UNCHANGED <<treeVars, fileVars, jobVars, blocked>>

\* Bug: nobody removes the sources a merge could not remove.
Orphans_Left(i) == {}

\* Files of the snapshot that are no longer registered are taken for leftovers of
\* a merge that could not remove them.
Orphans(i) ==
  {f \in iter[i].snap \ files :
     ~HeldBySlice(f) /\ \A j \in Iter \ {i} : f \notin iter[j].held}

IterClose(i) ==
  /\ iter[i].open
  /\ onDisk' = onDisk \ Orphans(i)
  /\ disk' = Kept(disk, onDisk' \cup files \cup bgSrcFiles)
  /\ iter' = [iter EXCEPT ![i] = Closed]
  /\ UNCHANGED <<treeVars, files, bgSrcFiles, jobVars, blocked>>

-----------------------------------------------------------------------------
(* The background merge: TSI_RunSliceJob on the threads of mergePool, and  *)
(* TSI_FinalizeJob on the thread that finished the last slice.             *)

Start(s) == Lo([keys |-> s.keys \cup (IF s.src = NoFile THEN {} ELSE disk[s.src].keys)])

\* Slices start in the order they were queued, ascending keys.
SliceOpen(s) ==
  /\ s \in queued
  /\ \A r \in queued : Start(s) <= Start(r)
  /\ Cardinality(running) < Threads
  /\ queued' = queued \ {s}
  /\ IF s.src \in onDisk \cup {NoFile}
     THEN running' = running \cup {s} /\ anyFailed' = anyFailed
     ELSE anyFailed' = TRUE /\ running' = running
  /\ UNCHANGED <<treeVars, fileVars, bgPending, job, toRegister, mergedSrcs, callerVars>>

SliceMerge(s) ==
  /\ s \in running
  /\ \E c \in Naming(Outputs(bgTree, s, disk)) :
       /\ disk' = Written(c)
       /\ onDisk' = onDisk \cup DOMAIN c
       /\ toRegister' = toRegister \cup DOMAIN c
  /\ mergedSrcs' = mergedSrcs \cup ({s.src} \ {NoFile})
  /\ running' = running \ {s}
  /\ UNCHANGED <<treeVars, files, bgSrcFiles, bgPending, job, queued, anyFailed, callerVars>>

\* Bug: a failed slice is not reported to the job.
SliceFail_Silent(s) ==
  /\ SlicesMayFail
  /\ s \in running
  /\ running' = running \ {s}
  /\ UNCHANGED <<treeVars, fileVars, bgPending, job, queued, toRegister, mergedSrcs,
                 anyFailed, callerVars>>

SliceFail(s) ==
  /\ SlicesMayFail
  /\ s \in running
  /\ running' = running \ {s}
  /\ anyFailed' = TRUE
  /\ UNCHANGED <<treeVars, fileVars, bgPending, job, queued, toRegister, mergedSrcs, callerVars>>

\* What Finalize adds to the registry, and what it removes from disk.
Registered == IF anyFailed THEN bgSrcFiles \ mergedSrcs ELSE toRegister

\* Bug: a failed merge removes every source, also those it registers again.
Discarded_AllSources == bgSrcFiles \cup (IF anyFailed THEN toRegister ELSE {})

Discarded == mergedSrcs \cup (IF anyFailed THEN toRegister ELSE {})

\* Bug: the chained merge is started although the tree is below the threshold.
Chains_Early == ~anyFailed /\ Count(memTree) + 1 >= MaxMemoryRecords

Chains == ~anyFailed /\ Count(memTree) >= MaxMemoryRecords

Finalize ==
  /\ job = "merging"
  /\ queued = {} /\ running = {}
  /\ onDisk' = onDisk \ {f \in Discarded : Removable(f)}
  /\ disk' = Kept(disk, onDisk' \cup files \cup Registered)
  /\ IF Chains /\ memTree # Empty
     THEN Launch(memTree, Empty, files \cup Registered, disk')
     ELSE /\ files' = files \cup Registered
          /\ bgSrcFiles' = {}
          /\ bgTree' = Empty
          /\ toRegister' = {}
          /\ mergedSrcs' = {}
          /\ anyFailed' = FALSE
          /\ job' = IF Chains THEN "none" ELSE "signal"
          /\ UNCHANGED <<memTree, bgPending, queued, running>>
  /\ UNCHANGED callerVars

\* Bug: the last worker leaves without clearing bgPending.
Signal_Forgotten ==
  /\ job = "signal"
  /\ job' = "none"
  /\ UNCHANGED <<treeVars, fileVars, bgPending, sliceVars, callerVars>>

\* The store lock is free again when bgPending is cleared.
Signal ==
  /\ job = "signal"
  /\ job' = "none"
  /\ bgPending' = FALSE
  /\ UNCHANGED <<treeVars, fileVars, sliceVars, callerVars>>

-----------------------------------------------------------------------------

Init ==
  /\ memTree = Empty /\ bgTree = Empty
  /\ disk = [f \in FileId |-> Blank]
  /\ onDisk = {} /\ files = {} /\ bgSrcFiles = {}
  /\ bgPending = FALSE /\ job = "none"
  /\ queued = {} /\ running = {}
  /\ toRegister = {} /\ mergedSrcs = {} /\ anyFailed = FALSE
  /\ blocked = {}
  /\ iter = [i \in Iter |-> Closed]

NewInsert ==
  \E k \in Key, v \in Val : Insert(k, v) \/ InsertFlushes(k, v) \/ InsertWaits(k, v)

Resume == \E k \in Key, v \in Val : InsertResumes(k, v)

FileOps ==
  \/ SyncFlush
  \/ \E k \in Key : Delete(k) \/ \E v \in Val : Update(k, v)

IterOps == \E i \in Iter : IterOpen(i) \/ IterNext(i) \/ IterClose(i)

Worker ==
  \/ \E s \in queued : SliceOpen(s)
  \/ \E s \in running : SliceMerge(s) \/ SliceFail(s)
  \/ Finalize
  \/ Signal

Next == NewInsert \/ Resume \/ FileOps \/ IterOps \/ Worker

Spec == Init /\ [][Next]_vars

\* A pool thread that has a slice, or finished the last one, goes on; an inserter
\* that was notified gets the lock while nobody starts another merge before it.
Fairness ==
  /\ WF_vars(\E s \in queued : SliceOpen(s))
  /\ WF_vars(\E s \in running : SliceMerge(s) \/ SliceFail(s))
  /\ WF_vars(Finalize)
  /\ WF_vars(Signal)
  /\ WF_vars(Resume)

FairSpec == Spec /\ Fairness
=============================================================================
