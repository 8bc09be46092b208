------------------------------ MODULE TSDurable ------------------------------
(***************************************************************************)
(* What of a tiered store survives the process: data files, the meta-store *)
(* that holds the file registry and is a tiered store itself, and the two  *)
(* manifests.  One action is one durable effect of TSCheckpoint, of a      *)
(* background merge or of a call, so that a crash can fall between any     *)
(* two: each source of a merge or flush is forgotten by the meta-store in  *)
(* one step and removed in another.                                        *)
(*                                                                         *)
(* A record is its key.  A merge has one output, whatever its slices, and  *)
(* which files it rewrites follows their ranges as in TSMerge.             *)
(* The meta-store's entries are the ids of the files; an id enters it once *)
(* and ids ascend, so that a flush of the meta-store adds a file and       *)
(* rewrites none, and TSDelete on it is a tombstone written in place.      *)
(* A crash ends the process: what was written stays, in order.             *)
(***************************************************************************)
EXTENDS Naturals, FiniteSets

CONSTANTS
  MaxKey,         \* keys are 1..MaxKey
  MaxId,          \* bound on nextFileId
  FaultAt         \* places where a crash or a failing write may happen

ASSUME DurableAssumption ==
  /\ MaxKey \in Nat /\ MaxId \in Nat \ {0}
  /\ FaultAt \subseteq {"idle", "written", "swapped", "metaFlushed", "metaGone", "metaDone",
                        "mainGone"}

Key == 1..MaxKey
Id == 1..MaxId
None == 0                    \* there is no such file, or no manifest

VARIABLES
  \* in memory
  up,             \* the store is open
  pc,             \* how far TSCheckpoint has come; "idle" between calls
  tree, bgTree,   \* memTree, bgTree
  files,          \* the registry
  nextFileId,
  bg,             \* how far the background merge has come, or "none"
  bgSrcFiles, out,
  src,            \* sources whose entries the meta-store has still to delete
  dying,          \* sources that are still to be removed from the disk
  metaTree,       \* memTree of the meta-store
  metaNew,        \* entries in meta-store files no manifest names yet
  \* on disk
  slots,          \* the keys with a slot in each data file
  live,           \* those whose slot is no tombstone
  onDisk,
  metaFiles,      \* entries in the meta-store files its manifest names
  metaManifest,   \* the meta-store's manifest exists
  manifest,       \* nextFileId in the main manifest, or None
  \* history
  clean,          \* since the last checkpoint nothing was inserted or merged
  deleted         \* keys deleted and not inserted again

diskVars  == <<slots, live, onDisk>>
metaVars  == <<metaTree, metaNew, metaFiles>>
bgVars    == <<bg, bgTree, bgSrcFiles, out>>
work      == <<src, dying>>
history   == <<clean, deleted>>
manifests == <<metaManifest, manifest>>
vars      == <<up, pc, tree, files, nextFileId, bgVars, work, diskVars, metaVars, manifests, history>>

Recs(F) == UNION {live[f] : f \in F}

\* What a caller finds in the open store, and what TSOpen would find now.
Content   == tree \cup bgTree \cup Recs(files \cup bgSrcFiles)
Recovered == IF metaManifest /\ manifest # None THEN Recs(metaFiles) ELSE {}

\* The files whose range holds a key of t, and behind a key in a gap the next file.
Covers(f, k) == \E i, j \in slots[f] : i <= k /\ k <= j
Above(k) == {f \in files : \A j \in slots[f] : k < j}
IsNext(f, k) ==
  /\ f \in Above(k)
  /\ \A g \in files : ~Covers(g, k)
  /\ \A g \in Above(k) : \A j \in slots[g] : \E i \in slots[f] : i <= j
Touched(t) == {f \in files : \E k \in t : Covers(f, k) \/ IsNext(f, k)}

\* A new data file with the records R.
WriteFile(f, R) ==
  /\ slots' = [slots EXCEPT ![f] = R]
  /\ live' = [live EXCEPT ![f] = R]
  /\ onDisk' = onDisk \cup {f}

\* Bug: only the meta-store's tree is searched for the entry.
Unregister_TreeOnly(f) ==
  /\ metaTree' = metaTree \ {f}
  /\ UNCHANGED <<metaNew, metaFiles>>

\* TSDelete on the meta-store: durable at once where the entry is on disk.
Unregister(f) ==
  /\ metaTree' = metaTree \ {f}
  /\ metaNew' = metaNew \ {f}
  /\ metaFiles' = metaFiles \ {f}

\* A call may take the store's lock: a checkpoint holds it, and so does a merge while
\* it extracts its sources and while it removes them.
Idle == up /\ pc = "idle" /\ src = {} /\ dying = {}

-----------------------------------------------------------------------------
(* TSInsert, TSDelete                                                      *)

Insert(k) ==
  /\ Idle
  /\ k \notin tree
  /\ tree' = tree \cup {k}
  /\ clean' = FALSE
  /\ deleted' = deleted \ {k}
  /\ UNCHANGED <<up, pc, files, nextFileId, bgVars, work, diskVars, metaVars, manifests>>

\* Bug: only the tree's copy is deleted.
Delete_TreeOnly(k) ==
  /\ Idle /\ bg = "none"
  /\ k \in Content
  /\ tree' = tree \ {k}
  /\ deleted' = deleted \cup {k}
  /\ UNCHANGED <<up, pc, files, nextFileId, bgVars, work, diskVars, metaVars, manifests, clean>>

Delete(k) ==
  /\ Idle /\ bg = "none"
  /\ k \in Content
  /\ tree' = tree \ {k}
  /\ live' = [f \in Id |-> IF f \in files THEN live[f] \ {k} ELSE live[f]]
  /\ deleted' = deleted \cup {k}
  /\ UNCHANGED <<up, pc, files, nextFileId, bgVars, work, slots, onDisk, metaVars, manifests,
                 clean>>

-----------------------------------------------------------------------------
(* The background merge: TSI_PrepMergeJob, a slice, TSI_FinalizeJob.       *)

Launch ==
  /\ Idle /\ bg = "none"
  /\ tree # {} /\ nextFileId \in Id
  /\ bg' = "launched"
  /\ bgTree' = tree /\ tree' = {}
  /\ bgSrcFiles' = Touched(tree)
  /\ files' = files \ Touched(tree)
  /\ src' = Touched(tree)
  /\ out' = nextFileId
  /\ nextFileId' = nextFileId + 1
  /\ clean' = FALSE
  /\ UNCHANGED <<up, pc, dying, diskVars, metaVars, manifests, deleted>>

RunSlice ==
  /\ up /\ bg = "launched" /\ src = {}
  /\ bg' = "written"
  /\ WriteFile(out, bgTree \cup Recs(bgSrcFiles))
  /\ UNCHANGED <<up, pc, tree, files, nextFileId, bgTree, bgSrcFiles, out, work, metaVars,
                 manifests, history>>

Finalize ==
  /\ Idle /\ bg = "written"
  /\ bg' = "none"
  /\ files' = files \cup {out}
  /\ metaTree' = metaTree \cup {out}
  /\ dying' = bgSrcFiles
  /\ bgTree' = {} /\ bgSrcFiles' = {} /\ out' = None
  /\ UNCHANGED <<up, pc, tree, nextFileId, src, diskVars, metaNew, metaFiles, manifests,
                 history>>

\* One source leaves the meta-store: all those of a merge before it runs (a flush takes
\* one, removes its file, and only then takes the next).
Forget(f) ==
  /\ up /\ f \in src /\ dying = {}
  /\ Unregister(f)
  /\ src' = src \ {f}
  /\ dying' = IF pc = "written" THEN {f} ELSE {}
  /\ UNCHANGED <<up, pc, tree, files, nextFileId, bgVars, diskVars, manifests, history>>

\* The file of a source is removed from the disk.
RemoveFile(f) ==
  /\ up /\ f \in dying
  /\ files' = files \ {f}
  /\ dying' = dying \ {f}
  /\ onDisk' = onDisk \ {f}
  /\ slots' = [slots EXCEPT ![f] = {}]
  /\ live' = [live EXCEPT ![f] = {}]
  /\ UNCHANGED <<up, pc, tree, nextFileId, bgVars, src, metaVars, manifests, history>>

-----------------------------------------------------------------------------
(* TSCheckpoint, under the store lock from the flush to the end.           *)

Step(here, there) == up /\ pc = here /\ pc' = there

\* TSI_FlushMemTree: write the merged file, forget and remove its sources one by one,
\* register it.
FlushWrites ==
  /\ Idle /\ bg = "none"
  /\ IF tree = {} THEN Step("idle", "swapped") /\ UNCHANGED <<out, src, nextFileId, diskVars>>
     ELSE /\ nextFileId \in Id
          /\ Step("idle", "written")
          /\ out' = nextFileId
          /\ src' = Touched(tree)
          /\ nextFileId' = nextFileId + 1
          /\ WriteFile(nextFileId, tree \cup Recs(Touched(tree)))
  /\ clean' = FALSE
  /\ UNCHANGED <<up, tree, files, bg, bgTree, bgSrcFiles, dying, metaVars, manifests, deleted>>

FlushEnds ==
  /\ Step("written", "swapped")
  /\ src = {} /\ dying = {}
  /\ files' = files \cup {out}
  /\ metaTree' = metaTree \cup {out}
  /\ tree' = {} /\ out' = None
  /\ UNCHANGED <<up, nextFileId, bg, bgTree, bgSrcFiles, work, diskVars, metaNew, metaFiles, manifests, history>>

\* TSCheckpoint of the meta-store: flush, write the new manifest beside the old one,
\* remove the old one, rename.
MetaFlush ==
  /\ Step("swapped", "metaFlushed")
  /\ metaNew' = metaNew \cup metaTree
  /\ metaTree' = {}
  /\ UNCHANGED <<up, tree, files, nextFileId, bgVars, work, diskVars, metaFiles, manifests,
                 history>>

MetaRemove ==
  /\ Step("metaFlushed", "metaGone")
  /\ metaManifest' = FALSE
  /\ UNCHANGED <<up, tree, files, nextFileId, bgVars, work, diskVars, metaVars, manifest,
                 history>>

\* Bug: the manifest names the files the meta-store had before the flush.
MetaRename_Stale ==
  /\ Step("metaGone", "metaDone")
  /\ metaManifest' = TRUE
  /\ UNCHANGED <<up, tree, files, nextFileId, bgVars, work, diskVars, metaVars, manifest,
                 history>>

MetaRename ==
  /\ Step("metaGone", "metaDone")
  /\ metaManifest' = TRUE
  /\ metaFiles' = metaFiles \cup metaNew
  /\ metaNew' = {}
  /\ UNCHANGED <<up, tree, files, nextFileId, bgVars, work, diskVars, metaTree, manifest,
                 history>>

\* The main manifest, written in the same way.
MainRemove ==
  /\ Step("metaDone", "mainGone")
  /\ manifest' = None
  /\ UNCHANGED <<up, tree, files, nextFileId, bgVars, work, diskVars, metaVars, metaManifest,
                 history>>

\* Bug: the header has the last id in use instead of the next one.
MainRename_LastId ==
  /\ Step("mainGone", "idle")
  /\ manifest' = IF nextFileId = 1 THEN 1 ELSE nextFileId - 1
  /\ clean' = TRUE
  /\ UNCHANGED <<up, tree, files, nextFileId, bgVars, work, diskVars, metaVars, metaManifest,
                 deleted>>

MainRename ==
  /\ Step("mainGone", "idle")
  /\ manifest' = nextFileId
  /\ clean' = TRUE
  /\ UNCHANGED <<up, tree, files, nextFileId, bgVars, work, diskVars, metaVars, metaManifest,
                 deleted>>

\* The new manifest cannot be written or renamed: TSCheckpoint returns an error.
CheckpointFails ==
  /\ pc \in {"metaFlushed", "metaGone", "metaDone", "mainGone"} \cap FaultAt
  /\ Step(pc, "idle")
  /\ UNCHANGED <<up, tree, files, nextFileId, bgVars, work, diskVars, metaVars, manifests, history>>

-----------------------------------------------------------------------------
(* The end of the process, and the next one.                               *)

\* TSClose frees the store; a crash does the same at any moment.
Gone ==
  /\ up' = FALSE
  /\ pc' = "idle"
  /\ tree' = {} /\ bgTree' = {} /\ bgSrcFiles' = {} /\ bg' = "none" /\ out' = None
  /\ files' = {} /\ nextFileId' = 1 /\ src' = {} /\ dying' = {} /\ metaTree' = {} /\ metaNew' = {}
  /\ UNCHANGED <<diskVars, metaFiles, manifests, history>>

TSClose == Idle /\ bg = "none" /\ Gone

Crash == up /\ pc \in FaultAt /\ Gone

TSOpen ==
  /\ ~up
  /\ metaManifest /\ manifest # None
  /\ up' = TRUE
  /\ files' = metaFiles
  /\ nextFileId' = manifest
  /\ UNCHANGED <<pc, tree, bgVars, work, diskVars, metaVars, manifests, history>>

-----------------------------------------------------------------------------

Init ==
  /\ up = TRUE /\ pc = "idle"
  /\ tree = {} /\ bgTree = {} /\ bgSrcFiles = {} /\ bg = "none" /\ out = None
  /\ files = {} /\ nextFileId = 1 /\ src = {} /\ dying = {}
  /\ metaTree = {} /\ metaNew = {} /\ metaFiles = {}
  /\ slots = [f \in Id |-> {}] /\ live = slots /\ onDisk = {}
  /\ metaManifest = FALSE /\ manifest = None
  /\ clean = FALSE /\ deleted = {}

Checkpoint ==
  \/ FlushWrites \/ FlushEnds
  \/ MetaFlush \/ MetaRemove \/ MetaRename
  \/ MainRemove \/ MainRename \/ CheckpointFails

Next ==
  \/ \E k \in Key : Insert(k) \/ Delete(k)
  \/ Launch \/ RunSlice \/ Finalize
  \/ \E f \in Id : Forget(f) \/ RemoveFile(f)
  \/ Checkpoint
  \/ TSClose \/ Crash \/ TSOpen

Spec == Init /\ [][Next]_vars

-----------------------------------------------------------------------------
(* Properties.                                                             *)

\* The type of every variable.
TypeOK ==
  /\ up \in BOOLEAN /\ metaManifest \in BOOLEAN /\ clean \in BOOLEAN
  /\ pc \in {"idle", "written", "swapped", "metaFlushed", "metaGone", "metaDone", "mainGone"}
  /\ bg \in {"none", "launched", "written"}
  /\ tree \subseteq Key /\ bgTree \subseteq Key /\ deleted \subseteq Key
  /\ files \subseteq Id /\ bgSrcFiles \subseteq Id /\ onDisk \subseteq Id
  /\ src \subseteq Id /\ dying \subseteq Id
  /\ metaTree \subseteq Id /\ metaNew \subseteq Id /\ metaFiles \subseteq Id
  /\ out \in Id \cup {None} /\ nextFileId \in 1..(MaxId + 1) /\ manifest \in 0..(MaxId + 1)
  /\ slots \in [Id -> SUBSET Key] /\ live \in [Id -> SUBSET Key]

\* As long as nothing is inserted or merged after a checkpoint (a tree is not saved, and
\* a merge takes its sources out of the registry), a new process finds exactly what this
\* one holds, deletions made since included.
ReopenExact == up /\ pc = "idle" /\ clean => Recovered = Content

\* A record that was deleted is gone for good: neither the running store nor, after a
\* crash, the next one finds it, until it is inserted again.
NothingReturns == deleted \cap (Recovered \cup IF up THEN Content ELSE {}) = {}

\* The durable registry names only files that exist, whenever the process dies: the
\* meta-store forgets the sources of a merge before they are removed.
NamedFilesExist == metaFiles \subseteq onDisk

\* A file's id is never reused (TieredStoreInternal.h): no file the store reads has an id
\* it will give out again.
IdsFresh == up => \A f \in files \cup bgSrcFiles : f < nextFileId

=============================================================================
