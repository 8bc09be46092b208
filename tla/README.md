# Othello solver: a verification project

The repository enumerates and solves Othello positions on a PC with a GPU. Its
programs share a few libraries: a tiered on-disk store of sorted records
(`TieredStoreHybrid`), the B+ tree it keeps in memory (`BPlusTreeHybrid`), a
thread pool and a lock (`Utility`), a queue of boards on files (`BoardsToProcess`)
and the board operations (`OthelloBasics` and its device form). On top of them
stand a command-line solver, a multithreaded solver with a dialog, a sequential
solver, and the pipeline of `OthelloLevelEnumerator`. This directory holds TLA+
models of them, TLC configurations and TLAPS proofs.

## The system

| Component | State | Operations | What is hard |
|---|---|---|---|
| `TieredStoreHybrid`, running store | `memTree`, `bgTree`, registry `files`, `bgSrcFiles`, `bgPending`, one merge job, open iterators | `TSInsert`, `TSFind`, `TSUpdate`, `TSDelete`, `TSEnumerate`, `TSStatus`, `TSIterOpen/Next/Close`, background merge | a merge by several threads while callers insert, find and iterate; failing slices; files removed while somebody reads them |
| `TieredStoreHybrid`, durable state | data files, meta-store (a store that holds the registry), two manifests | `TSCreate`, `TSOpen`, `TSCheckpoint`, `TSClose` | a process that ends between two effects; manifests replaced one after the other |
| Merge pool | queue of at most 5000 jobs, worker threads, `bgMutex`/`bgCV` of each store | `Start`, `QueueJob`, `Stop`, `IsBusy`; starting, chaining and ending merges; tearing a store down | lost wakeups, tearing down a store a worker still uses, a worker that queues to its own bounded queue |
| `BPlusTreeHybrid` | nodes with a latch each, the tree's latch, counters | insert with splits, delete with borrowing and merging, update, searches, iterators, level walker | latches taken down and to the right and tried against that order; key nodes whose record is deleted; iterators between calls |
| `OthelloLevelEnumerator` | two run-file registries, level registries, run configuration, files on several drives | pipeline, flush monitor, migration, collection on the NAS, merge phase, stop and resume | files that migrate while a solve goes on; what `--restart` believes after a crash; sources deleted before the level is recorded as done |
| `BoardsToProcess` | two cursors over numbered files, a saved position | put, get batch, checkpoint, replay | a reader that catches up with the writer; boards in flight at a restart |
| `OthelloBasics`, `OthelloBasicsForCUDA` | none | moves, flips, symmetries, canonical form, expand and dedup kernels | agreement of bit tricks with the board, and of the CPU and the GPU form |
| `OthelloSolverCommandLine` | a board and a move store per level, arenas, manifests, sentinel | breadth-first sweep with worker jobs, back-propagation, report, restart | which level a restart takes for finished; stores open while jobs use them; records that a flush has split |
| `OthelloSolverMultithreaded` | trees of boards and moves, queue, workers | play all boards, stop, restart, count the wins | a worker that finds the queue empty while another still plays; batches a stop drops |
| `OthelloSolverUsingBplusOnly` | the same trees, one thread | play all boards, count the wins | none; it is the reference of the multithreaded solver |
| Dialogs, testers, comparison and status tools | none of their own | | |

Interactions: the solver's workers call `TSInsert` on the board store of the next
level and the move store of this one; `TSInsert` on a full tree starts a merge on
the `ThreadPool` the solver gave to all stores (or a store's own), whose workers
take the store's lock and signal its condition variable; `TSCheckpoint` calls
`TSCheckpoint` on the meta-store; each level's end calls `TSCheckpoint` on its
stores; the store cuts a flush at the keys the tree's level walker returns; the
multithreaded solver's workers share the queue and the trees; the enumerator's
pipeline, monitor, migration and writer threads share its registries.

## Modules

| Module | Models |
|---|---|
| `TSMerge` | the pure part of a flush: how a tree is cut into slices along the files (`TSI_FlushMemTree`, `TSI_PrepMergeJob`) and what a slice's two-way merge writes (`DoMerge`) |
| `StoreMap` | abstract: a map from keys to data with insert, update, delete |
| `TieredStore`, `TieredStoreProps`, `MCTieredStore` | the running store, one action per critical section of `storeLock` and per step of a merge worker; its properties and the refinement of `StoreMap` |
| `ThreadPool` | `Utility/ThreadPool`: start, bounded queue, worker loop, `Stop`, with the two condition variables |
| `StorePool`, `StorePoolProps` | stores on a pool: `TSI_TriggerBgFlush`, `TSI_RunSliceJob`, `TSI_FinalizeJob`, `TSI_WaitForBgMerge`, `TSI_FreeStore` statement by statement; extends `ThreadPool` |
| `TSDurable` | checkpoint, crash and reopening, one action per durable effect |
| `OrderedSet` | abstract: an ordered set whose calls take effect one at a time |
| `BPNodes`, `BPIntegrity` | the operations on nodes as operators; the library's own check of a tree, and the level walker |
| `BPlusTree`, `BPlusTreeProps`, `MCBPlusTree` | calls of several threads, one action per hold of latches; its properties and the refinement of `OrderedSet` |
| `OthelloBasics`, `OthelloBasicsForCUDA` | boards, moves and symmetries with 64-bit words as sets of cells; the device forms and the kernels that expand, sort and deduplicate |
| `MergePhase` | the enumerator's k-way merge of sorted files, in passes and into partitions, as operators |
| `OthelloGame` | boards a run reaches, one at a time, with the properties of the three modules before |
| `LevelEnumerator`, `LevelEnumeratorProps`, `MCLevelEnumerator` | the level loop with its threads, files, registries, stop, crash and restart |
| `CommandLineSolver`, `CommandLineSolverProps`, `MCCommandLineSolver` | sweep, jobs, checkpoints, back-propagation, report, crash and restart |
| `BoardsToProcess` | the queue on files |
| `MultithreadedSolver`, `MultithreadedSolverProps`, `MCMultithreadedSolver` | workers, controller, dialog buttons; extends `BoardsToProcess` |
| `SolverUsingBplusOnly` | the sequential solver's whole run as one value |
| `SolversAgree` | the multithreaded solver compared with it; a module of its own, because recursive operators may not reach a module with proofs |
| `TSMergeProofs`, `TieredStoreProofs`, `TieredStoreFilesProofs`, `StorePoolProofs`, `TSDurableProofs`, `LevelEnumeratorProofs`, `CommandLineSolverProofs`, `MultithreadedSolverProofs` | theorems and proofs; `TieredStoreFilesProofs` builds on `TieredStoreProofs` and `TSMergeProofs` |

`TieredStore` extends `TSMerge`, and `OthelloGame` extends `MergePhase` and the board
modules. `StorePool` forgets what a slice does to files, `TSDurable` what the
store's threads do, and `CommandLineSolver` keeps of a store what the solver sees
(tree, tree being merged, files, what the manifest names): these views share the
merge's steps (start, slice, finalize, signal).

### The running store

A record is a key with a set of values; the caller's `mergeFn` is their union and a
store without it keeps one of the two. A file is the set of keys with a slot and
the records in them; an empty record is a tombstone, so ranges do not shrink by a
delete, as in the code. `Insert`, `Delete`, `Update`, `SyncFlush`, `IterOpen`,
`IterNext` and `IterClose` are the calls. A call that releases the lock, waits for
`bgPending = 0` and takes the lock again is one action guarded by `~bgPending`,
because the code tests `bgPending` again under the lock; the inserter that waits is
kept in `blocked`, because its flush happens after the wait whatever the tree holds
by then. `SliceOpen`, `SliceMerge`, `SliceFail` are `TSI_RunSliceJob`; opening and
merging are two steps since in between an iterator may close and remove files.
`Finalize` is `TSI_FinalizeJob` up to the unlock, and `Signal` is the rest.

Where the code's choice depends on the shape of the B+ tree (level walker on a store
without files, fullness of an arena) the model leaves the choice open
(`LevelPlans`, `MayBeFull`); `LevelCutsSound` checks what the walker really returns.

### The merge pool

Client threads are named like their store. `lock`, `bgPending`, `left`
(`pendingSlices`), `toQueue` and `deleted` are the store's side; a program counter
per thread follows `QueueJob`, `ThreadLoop`, `Stop` and the merge functions.
`Init` chooses whether one store owns the pool or all share the caller's. A
`notify` on a condition variable that `TSI_FreeStore` has deleted has no effect in
`pool`, so that the rest can be checked (see the disagreements below). Merges have
one to `MaxSlices` slices, and `MaxMerges` bounds the merges of all stores together.
A worker that waits for room in the queue is modelled; within the bounds of the run
`pool` not every worker can be in that wait at once.

### The durable state

Here a record is its key and a merge has one output. `MetaFlush`, `MetaRemove`,
`MetaRename` are the meta-store's checkpoint and `MainRemove`, `MainRename` the
store's own; `Launch` deletes the sources' entries from the meta-store in place, as
`TSI_PrepMergeJob` does. `FaultAt` names the places where a crash or a failing
write may fall. `saved`, `clean` and `deleted` are history.

### The B+ tree

A node is its keys and children, or its records, with links to its neighbours and
its parent; `latch` holds the readers and writers of each node and of the tree
(`rwTreeLock`). A call is a record in `op` with a program counter; an action is
what happens between two latches, so that threads interleave wherever the code
holds none in common. `RWLockTry...` calls are tried once in the model and the delete
or the leftward search that gives up starts again, at most `MaxRetries` times. Three
points are coarser than the code: the children moved by a merge of key nodes are latched
as one guard; `rwIdxLock`, held only around single assignments, is left out; and the
first and last key of a search without a bound are the searches for the keys at both
ends (0 and `MaxKey + 1`). Only the mode that allocates nodes one by
one is modelled, not the arena. The delete that gives up keeps the latch of a found key
node (a disagreement below); `NoStuck` therefore says what is kept, and that nothing
else is, and asks for progress where nothing was kept.

### Boards, kernels and files of boards

A 64-bit word is the set of cells whose bit is set, and a shift adds to the cells
and drops what leaves the word without knowing rows: what a mask must prevent can
therefore happen in the model. Each function has its cell-by-cell form, the other
branch of the code's `#ifdef`, as the reference. `SortAndDedup` is the three
stable passes and the flags; `MergePhase` has the heap of readers, the passes under
a limit of handles, the sampled pivots and the partitions.

### The level enumerator

`disk` maps files to their boards; a file is a record of kind, level, directory and
number. One action is one step on a file or on a registry, so that a crash falls
between any two of them. A batch is one board. Free space, quotas and measured
speeds decide in the code when a directory is flushed, a run file migrated or
everything collected on the NAS: in the model they may happen whenever the code's
other conditions allow. A merge that fails or is cut off leaves a file whose header
counts no records, which every reader passes over: here there is none then.
`unsafe` is history: a stop came when files held a part of a level (`SafeStop`).

### The command-line solver

A game is given by its edges, with passes and with children whose colours are
exchanged; a record of wins is three numbers and the stores' merge function adds
them. `Dispatch`, `WorkerProcessBatch`, `Counted`, `ReturnContext` are the pool's jobs,
`Drain` the loop over passes, the three checkpoint actions the end of a level, and
`CarryBack` one edge of the back-propagation. `split`, `lost`, `redone` are history: a
record was found in parts, a store was opened whose files a merge had replaced, a
restart resumed the run.

### The queue and the multithreaded solver

Each operation of the queue is one step, since it holds the locks of what it changes
to its end; the position is saved in a step of its own, as the code does after the
locks are released. Reads that fail are steps; writes that fail end the process and
are left out. A worker's steps are those between its looks at shared state: `stop`,
the queue, the tree, `activeCount`. The dialog is `LaunchSolver`, `ClickStop` and
`Close`, which loses the trees. `dropped` is history: boards a stop has lost.

Files are never taken from: a record keeps its place (file and position), and `Pending`
and `Replayable` are the records at the places the read cursor has before it and at those
a restart reads. The counting of wins goes down by depth (`Wins`), as deep as there are
boards; the code recurses without a bound, and the same function on the game's own edges
(`Wins0`) says what it should find.

## Runs

| Run | Instance | Shows |
|---|---|---|
| `map` | 2 keys, 2 values (exchangeable), arena that may be full at any time, one waiting inserter | `ImplementsMap`: each call does to the map what it promises, flushes, slices and iterators change nothing |
| `failing_slices` | 3 keys, 2 workers, slices may fail | `LayoutSound` (disjoint ranges, size limit), `ReferencesExist`, `MergeAccounts`, `MergeKeepsRecords` |
| `iterators` | 2 keys, files of one record, 2 workers, one iterator | `NoOrphanFile`, `IteratorIsolation` |
| `quiet` | limits of one record, failing slices, a waiting inserter, fairness | `PendingHasJob`, and `QuietDrains`: once inserts cease every merge ends and every waiting inserter goes on |
| `pool` | 2 workers, 2 stores, queue of 3, up to 3 merges of up to 2 slices, fairness | `IdleMeansDone`, `ClosedIsDrained`, `CallsReturn` |
| `durable` | 2 keys, 4 file ids, crashes and failing checkpoints up to the meta-store's flush | `ReopenExact`, `NothingReturns`, `NamedFilesExist`, `IdsFresh` |
| `bptree` | order 4, 6 keys, 2 threads, up to 12 nodes on three levels, 2 retries | `IntegrityHolds` (the library's check and the fill of nodes), `NeverFatal`, `NoStuck`, `LevelCutsSound`, `ScanExact`, `ImplementsSet` |
| `levels` | 3 levels, 2 Fast directories, one Moderate, the NAS, one crash or Ctrl+C, one collection a level, fairness | `LevelExact`, `NothingLost`, `InputsKept`, `RestartFindsLevel`, `RunEnds` |
| `boards` | all openings of 4x4 up to 11 pieces, two games to the end from each and on 6x6 and 8x8, 1, 4, 8 and 16 symmetries, 2 samples per file | `MovesExact`, `SymmetrySound` (one canonical form, and children that commute with it), `DedupExact` |
| `solver` | 3 levels, 2 workers, batches of 2, 3 arenas, 2 flushes, 2 crashes, fairness | `LevelsComplete`, `ResultExact`, `FailsOnlyIfLost`, `JobsHaveStores`, `RunEnds` |
| `work_queue` | 7 boards, 2 workers, files of 3 records, batches of 2, 3 runs, one failing read, one closing, fairness | `PlayedOnce`, `NoBoardForgotten`, `DoneMeansExact`, `SameAsSequential`, `RunsEnd` |
| `restart_exact` | as `solver` | `RestartExact` is violated: see Findings |

Bounds of the store. Two keys give overlap, gap and neighbour between tree and file;
the third key of `failing_slices` gives a gap between two files, a file with an interior
key, and merges of two slices that end in either order. A file limit of one record is
the boundary at which `flushGap` stops cutting; two is the smallest at which a file has
an interior. `FileId` bounds the files that exist at once, not those ever created: a name
nothing refers to is drawn again. Six are enough for two sources with two outputs each
beside the snapshot of an iterator. In `durable` the four ids are never reused, so four
merges or flushes happen in one behaviour, across crashes. `MaxBlocked` inserters wait
at most; one is enough for the order wait, merge, another caller's flush, resume. Queue,
slices and merges in `pool` reach a full queue with a client waiting, chained merges, and
`Stop` with work left.

Bounds of the rest. Order 4 is the smallest at which a node can be split and borrowed
from; the trees the run starts from stand just before a split, a borrow or a merge on
one and on two levels, and the threads' calls are chosen around those keys (`Mixed`), so
that root splits, root collapses and merges under different parents meet. In `levels`
the second level has two boards with a common child, so that merging and
deduplication matter, and the last level is empty; window, file limit and directories of
one or two make a level write several files, flush in several passes, migrate and collect
before it ends. In `boards` the openings of 4x4 are complete for 16 symmetries (about a
thousand boards); what follows and the larger boards cannot be, so games follow rules
that vary the corner played and reach passes, full boards and, on 4x4, six moves. In `solver` the
game has a pass on the way, a board with two predecessors and an early end; three
arenas are the code's number. In `work_queue` a file holds one batch and a half, so that
readers meet the end of a file, catch up with the writer, and a stop finds boards of an
exhausted file in a batch.

Deadlock is checked except in `durable` (ids run out, and a store without manifest cannot
be opened), `bptree` (the latch kept after a failed delete can stop everything; `NoStuck`
says when), `levels` (a run whose last level is empty cannot be restarted), `boards` (a
game ends), `solver` and `work_queue` (runs end, and the number of runs is bounded).

Fairness. Threads of the pool go on when they can (`WF` of each slice step, of
`Finalize` and `Signal`, and of each worker); a client that has called a function
goes on, but nobody has to call one. `Resume` is weakly fair: the condition variable
notifies all waiters, and the action is enabled only while no merge is in flight, so
that it may wait forever while other inserters chain merges. `QuietDrains` therefore
speaks of behaviours in which new inserts cease. In `levels` the main, writer, flush and
migration threads are weakly fair; what the monitor starts depends on free space and is
not, nor is a restart. In `solver` the main thread, each job and the merges are, flushes
and crashes are not. In `work_queue` each worker and the controller are, the user is not.

## Findings

`restart_exact`: a restart redoes the last checkpointed level on a board store that was
checkpointed with the wins of its terminal boards, and adds them again; after a stop in
the back-propagation what was carried back is carried back again
(`OthelloSolverCommandLine.cpp:1208`; the comment at 1171-1172 promises to regenerate the
stores). The reported result counts games twice. `ResultExact` keeps what remains true: an
undisturbed run is exact, and a resumed run misses nothing.

Disagreements met on the way, without a run:

* One slice of a merge fails after another succeeded: the outputs of the successful ones
  are discarded and their sources removed all the same (`TieredStore.cpp:1049`, `1067`);
  the comment at 1053-1055 promises the data stays. `MergeKeepsRecords` and `MergeAccounts`
  are therefore stated up to the first failure.
* `TSIterClose` takes the sources of a merge in flight for leftovers, since they are not in
  `files`, and removes them (`TieredStoreIterator.cpp:243`). The proofs exclude iterators.
* With a shared pool `TSI_FreeStore` can delete `bgCV` between the worker's `bgPending = 0`
  and its `notify_all` (`TieredStore.cpp:1112-1114`).
* A merge that starts after a checkpoint takes its sources out of the durable registry at
  once (945, with the tombstones of 303), its outputs enter it at the next checkpoint: a
  crash in between loses records the checkpoint had saved. `ReopenExact` speaks of runs
  without such a merge (`clean`).
* A crash between the two manifests (`TieredStoreCheckpoint.cpp:104`) leaves `nextFileId`
  older than the registry, and the next flush writes over a file with records. Between
  removing and renaming a manifest (103) `TSOpen` fails, and a solver that takes this for
  "no store" creates an empty one.
* `TSDelete` takes the part of a record in the tree before the file's slot is known to be
  writable (`TieredStoreDelete.cpp:18`); when that fails half of the record remains.
* `TSI_FinalizeJob` unlocks before it clears `bgPending`; inserts in between start no
  flush and the tree stays at its threshold until the next one (`TierdStore.h:103`).
* `TSStatus` waits for the merge before it takes the lock; a merge that starts in
  between is missing from `totalRecords`, "in-memory + all disk files" (`TierdStore.h:67`).
* A pool thread that chains a merge calls `QueueJob` on its own pool, holding
  `storeLock`; when all threads do so with more than `MAX_QUEUE_DEPTH` slices to queue,
  none takes a job any more (`TieredStore.cpp:1155`, `ThreadPool.cpp:82`).
* `TSClose` is documented to flush and to write the manifest (`TierdStore.h:138`); it
  frees the store (`TieredStoreCreate.cpp:169`). `TSDurable` models what it does.
* A gap before a file makes the walk resume at that file's `minKey`, so the file is
  rewritten although no key of the tree is in its range (`TieredStore.cpp:664`, `913`;
  the comment at 429-430 says otherwise).
* With `maxFileRecords = 1` `flushGap` cuts only once (526: the count never equals the
  limit again), so the last file of a longer gap exceeds the limit (`TSMerge!GapPart`;
  `LayoutSound` is checked with a limit of two).
* Without `mergeFn` the newer record wins, not the older one as `TierdStore.h:56` says.
* Parts of one record can be in the tree and in a file; `TSFind` returns the first.
* With a limit of zero records a chain on an empty tree forgets to clear `bgPending`
  (1098-1115 against the comment at 1095-1097).
* A delete in the B+ tree that gives up for want of a neighbour's latch keeps the write
  latch of the key node it had found (`BPDelete.cpp:783`): every later call through that
  node waits for ever (`OnlyKeyNodesKept` in `NoStuck`).
* `BPTreeCheckAllDataFound` never descends from the root; the counters of leaves and key
  nodes are decremented without `rwIdxLock`; `BPIterate` after its end dereferences a
  null tree. An insert of a key that is known splits full nodes all the same.
* A restart of the enumerator cannot tell files of a finished solve phase from those of an
  interrupted one, and takes a part of a level for the whole (`OLEMain.cpp:1390`);
  `LevelExact` and `NothingLost` are stated up to such a stop. A migration that races the
  collection on the NAS leaves a run file nobody knows (1771-1772). `FRSave` ignores write
  errors. With one Fast directory that is demoted, the number of Fast directories is zero
  and the code divides by it.
* `OthelloBasicsForCUDA.h:19-20` says that `numRotations` is 1, 4 or 8 and that `BoardFlip`
  is not implemented; 16 and `dev_boardFlip` are. An 8x8 board has 28 result slots and
  positions with more moves are known; they end the run with `Fatal`. On 4x4 the most moves
  met are six, which is the number of slots.
* In the command-line solver merges during the back-propagation delete files the last
  manifest names, so that a restart opens a store without them (`lost`); the second pass
  reads the newest part of a record that a flush has split (`split`); the sentinel (969) is
  written before the report (993), so that a crash between them loses the result.
* The multithreaded solver's stop drops the boards of a batch whose file was read to its
  end; a restart reads only the current file again, and the counting of wins then ends with
  `Fatal` (against `Worker.cpp:416-417`). A second restart in one directory ends with `Fatal`
  because `CheckPoint.txt.save` exists; in a new process the Restart button is enabled by
  `checkpoint.dat` although the trees are gone; a Stop clicked before the controller clears
  the flag is lost and the button stays disabled; a read error is taken for an empty queue.

## Proofs

* `TSMergeProofs`: `PlanCovers` (every key of the tree is in a slice) and
  `OutputsExact` (the outputs of a slice hold the merged records, no more, no less),
  for every tree, layout and limit; and the lemmas on ranges the next modules rest on:
  slices of a plan are apart from each other and from the files no slice reads
  (`PlanSeparate`, `PlanFits`), outputs are apart and stay in their slice's range
  (`OutputsSeparate`, `OutputsFit`).
* `TieredStoreProofs`: `TypeCorrect`; `PendingDiscipline`, inductive by itself when the
  tree may hold a record; `MergeKeeps`, `ReferencesStay`, `AccountsStay` from the
  inductive invariant `KeepInv`: types, "a merge in flight keeps `bgPending` set", every
  name referred to is on disk, and `MergeAccounts`. That a merge keeps every record is
  not inductive alone: between a slice's end and `Finalize` one has to know that each
  record of the tree and of the sources is in an output already or belongs to a slice
  not finished, that outputs, sources and registry are disjoint, and that the merged
  sources are those whose slices have ended; `MergeAccounts` says so.
  Assumptions: `Iter = {}` (a closing iterator removes sources, see above) and
  `HasMergeFn` (without it the older half of a record is dropped by design).
* `TieredStoreFilesProofs`: `NoFileForgotten` (a file on disk is in the registry, of the
  merge in flight, or kept by an iterator that removes it) from `FilesInv`, which says who
  answers for each file; `RangesApart` from `LayoutInv`, which adds that outputs and the
  slices in flight are apart from each other and from what the registry keeps, and
  `LayoutStays`, that files keep their limit as well; `IteratorsIsolated`; and `StoreIsMap`,
  the refinement `ImplementsMap`: a step of the store is one step of `StoreMap` or leaves
  the map as it is. That rests on `LayoutInv` and `MergeAccounts`: a key has at most one file
  to be looked up in, and is read the same before and after its slice is merged, and before
  and after the merge is finalized. Slices may fail and iterators may be open for the first
  four; `LayoutStays` assumes `MaxFileRecords > 1` (with one record to a file the cuts
  in the gap between two files run over), `IteratorsIsolated` assumes `HasMergeFn`,
  and `StoreIsMap` assumes `HasMergeFn`, no failing slice and `Iter = {}`.
* `StorePoolProofs`: `OwnPoolSignals`. The invariant `OwnInv` follows
  `Stop`: once `shouldTerminate` is set the queue stays empty, a thread that is joined has
  left its loop, and `TSI_FreeStore` comes behind the join when the store owns the pool.
  For a shared pool it is false.
  In the same module `SlicesCounted`, `IdlePoolDone` and `ClosedStoreDrained`, for a
  pool shared or owned. The invariant `PoolInv` accounts for every slice of a merge: it waits
  to be queued, is in the queue, or is in one worker's hands, and their number is `left`;
  one thread finalizes, and the lock is held from a merge's start until its slices are
  queued. Workers are finite, and no thread is named like the free mark of a lock.
* `TSDurableProofs`: `RegistryExists` and `IdsNeverRepeat` from `DurableInv`: registry and
  meta-store have the same entries, the output in progress is nobody's file, sources stay
  on disk until the merge ends, and the main manifest's counter is behind the registry
  only between the two renames; the assumption is that no process or checkpoint ends
  just there, for ids do repeat then. `ReopenIsExact` and
  `DeletedStayDeleted` follow from `RecordsInv` under the same assumption: a checkpoint
  leaves nothing in the trees and its manifests written until the next insertion or merge
  (`Settled`), the output of a merge holds nothing but what it was made of (`Written`), and
  a deleted record is in no tree and in no file either process may read (`Forgotten`).
* `LevelEnumeratorProofs`: `InputsStay` and `RegistryFound`, with stops and crashes anywhere
  and no assumption on where. They are not inductive: the invariant `KeepInv` of that module
  adds that everything a thread may remove, or has in hand and may put among what is
  removed, is work of the level (`WorkOnly`), that what a registry names is the seed or a
  merged level (`KeptOnly`), that the merged file is there before its sources go and its
  registry before the configuration names it (`MergedKept`), and that the helper threads
  are at rest when the main thread merges and saves (`Alone`). That the registry itself is
  written whole is assumed, as in the model.
  `LevelsExact` and `NoBoardLost`, unless a stop came at a bad moment (`unsafe`), rest on two
  more invariants. `HandInv` holds with any stop: a file belongs to one owner at a time (the
  registries, the writer's job, a flush, the migration), a name is drawn only once, and each
  stage of a flush says which of its files are gone and which are not yet recorded. `GoodInv`
  holds while `~unsafe`: the children of every expanded board are accumulated, in the job,
  or in a file a registry or a flush holds (`KidsCarried`), where a file that may be gone has
  its boards in the output that replaced it (`Covered`, `Collected`); no file holds a board
  that is not of its level (`Sound`); the files a restart would find of a level
  are all of it or none (`Durable`); and merged levels are exact (`Levels`). `Reach` is a
  recursive function, so `LeastNumber` and `ReachIs` prove by well-founded induction that it
  is what its definition says. Assumed are a first board whose moves stay in the game,
  that boards are numbers, that a directory is of one drive class (`OLERunConfig.h:46`) and
  that the NAS is not one of them (`:13`).
* `CommandLineSolverProofs`: `JobsAlwaysHaveStores` and `ArenasAlwaysSuffice`, for every
  game, batch size, number of threads, flushes and crashes, with at least three arenas as
  `k_arenaPoolSize` has. Neither is inductive. The invariant `SolverInv` adds that a job has
  something to insert only while it is counted and is counted only during the sweep
  (`JobsOK`), that stores, queues and iterators hold boards and moves of their own level
  (`StoresOK`, `ReadOK`, `CarryOK`), so that no child but a pass is of the last level or
  beyond, which stores are open (`OpenOK`), and which levels hold an arena at each point of
  the run (`ArenasOK`). `GameAssumption` is what a move does: it adds one piece, a pass none.
  `LevelsAlwaysComplete` and `FailsOnlyWhenLost` say that the sweep finds every board there
  is and that a restart ends with an error only when files a manifest names were removed
  (`lost`). Their invariant `PlayInv` adds, while nothing is lost, that a manifest names a
  prefix of the levels and whole files of each; that a board found is expanded, pending in a
  batch, or still ahead of the sweep's iterator; that the children of an expanded board are
  found or in a job's hands; and that a level all of whose parents are done is whole.
  `PlayAssumption` is what it means that `Boards` are the boards of the game: each is
  reached in play from the root. `Boards` are numbers, as the keys of the store are.
  `ResultAlwaysExact` says what is reported: a run never resumed counts exactly the games
  that end each way, a resumed one no fewer, unless a pass child's record was read in parts
  (`split`) or a store's merged files were lost (`lost`). It needs four more invariants.
  `RecordInv`: a record is three counts wherever it lies, and a store without an arena is
  empty. `OnceInv`: a board without moves is read once, no pass leads to it and it is in
  one job at most, so its wins are inserted once. `CountInv`, while `~lost` and `~split`:
  a record counts what `Want` says of the moment, its own end and the moves already carried
  back, and the manifests of levels not yet carried back name records as the sweep left
  them (`SavedCounts`). `ResultInv` is about the report. That a move's wins leave the sum
  when the move leaves the set, whichever move `CHOOSE` takes first, is `SumTakes`; that
  `Wins` is its definition at every board is `WinsAre`. Both take a smallest set, or a last
  board, for which it could fail, since the library's induction theorems cannot be used.
  `OutcomeAssumption` holds of the game: its moves are finite, a board without moves has
  three counts, and a pass leads to a board with moves, none a pass, since
  the kernel writes a pass only when the opponent can move.

* `MultithreadedSolverProofs`: `BoardsPlayedOnce`, `NoneForgotten` and `DoneIsExact`, for
  every game, number of workers, size of files and batches, and any order of stops,
  restarts, failing reads and closings of the program. None is inductive: that a worker's
  test of a board's state still holds when it updates the board needs to know that no other
  worker has the board, and that needs the queue. The invariant `Inv` says where a board is.
  In the tree it is either at one place of the files or once in the hands of the worker that
  found it (`PlacesOK`); what is in a batch or in play has been read, is read no more, and
  is there once (`HandsOK`). The moves in the tree are those of the played boards and the
  ones entered so far of a board in play (`MovesOK`), `activeCount` counts those who play
  (`CountOK`), and files and cursors fit each other (`Filled`, `ReadOK`): the files are those
  before the write cursor, none is empty, and the reader stands behind the writer on a record
  that is there. `Reachable` is `NoBoardForgotten` with the time between a stop and the
  restart, which needs the saved position to be the one the queue stopped at (`Saved`).
  `Exhausted` is why a worker may leave while another holds a full batch: when all have
  found nothing, nothing is pending, and a worker with a batch has not left. When
  all is played the tree is closed under moves, so it is the whole game (`AllPlayed`) and
  `Wins` is `Wins0`. The lemmas `BatchAdded`, `RefillIs`, `RestartIs` and `CreateIs` say what
  the queue's operations do to the places; what `AddRecordBatch` builds one record after
  another is followed by the least number for which it could fail. Assumed are a finite set of
  workers that is not empty (`SolverAssumption`), boards that are those of the game, each
  reached in play from the first (`PlayAssumption`), and moves that stay among them
  (`GameAssumption`).

Only model-checked: all liveness (`QuietDrains`, `CallsReturn`, both `RunEnds`, `RunsEnd`);
the refinement `ImplementsSet` and the B+ tree; boards and merges of files and the
comparison with the sequential solver (`SameAsSequential`), whose operators are recursive;
RECURSIVE operators and temporal properties under fairness are beyond the provers, and
`LevelCutsSound` with the rest of the B+ tree needs an invariant about every node of it.

## Not modelled, and why

* Of the store: allocation failures and failing writes of a synchronous flush (one return
  code, no protocol), statistics and `TSStatus`, which change nothing, the binary layout of
  files and manifests, corrupt manifests.
* Of the tree: the arena, comparison of fields, printing.
* Of the enumerator: benchmark and choice of drives, memory budget, quotas, the status
  block and its printer, and functions nothing calls (`MergePhaseRun`, `RunPreMergeDir`,
  `RunMergePartition`, `CopyFileRaw`, `SFLowerBound`). Partitions of a level are one file in
  `LevelEnumerator`; how it is cut is in `MergePhase`.
* Of the solvers: arguments, reports, statistics and their unguarded counters, dialogs;
  `GPU_DEDUP`, which is switched off; the game of the sequential solver that `main` does not
  start. Failing writes of the multithreaded solver end its process, and since its trees
  are in memory only a killed process loses everything: neither has a protocol.
* `OthelloEnumerator`, `OthelloSolverMFCandCUDA` and `OthelloSolverCuda`: dialogs and threads
  around the same board operations, and a single kernel; the comparison tool only reads;
  the testers are programs that call the libraries, and were read for what they expect.

`PROJECT.json` lists every component with its status.

## Plan

1. Proofs: `LevelCutsSound` of the B+ tree, then its integrity.
2. `OthelloEnumerator` and the solver of `OthelloSolverMFCandCUDA`, as far as their threads
   differ from the solvers modelled.
3. The composition of `CommandLineSolver` with `TSDurable`, so that a crash in a checkpoint
   and a crash of the solver are one.
