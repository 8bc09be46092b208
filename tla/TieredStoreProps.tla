-------------------------- MODULE TieredStoreProps --------------------------
(***************************************************************************)
(* What the tiered store has to keep true, and the map it implements.      *)
(***************************************************************************)
EXTENDS TieredStore

\* Every variable has its type.
TypeOK ==
  /\ memTree \in Tree /\ bgTree \in Tree
  /\ disk \in [FileId -> File]
  /\ onDisk \subseteq FileId /\ files \subseteq FileId /\ bgSrcFiles \subseteq FileId
  /\ bgPending \in BOOLEAN /\ job \in {"none", "merging", "signal"}
  /\ queued \subseteq Slice /\ running \subseteq Slice
  /\ toRegister \subseteq FileId /\ mergedSrcs \subseteq FileId /\ anyFailed \in BOOLEAN
  /\ blocked \subseteq Key \X Val
  /\ iter \in [Iter -> Iterator]

Apart(f, g) == Hi(disk[f]) < Lo(disk[g]) \/ Hi(disk[g]) < Lo(disk[f])

\* No two files a lookup can reach cover the same key, during a merge and after
\* it: TSDelete and TSUpdate stop at the first file whose range has the key, and
\* the iterators rely on it to return keys in order.  TSFind stops at the first part
\* it meets: of a record that is not in memory it returns all.  No file has more
\* slots than maxFileBytes allows, however a merge cut it.
LayoutSound ==
  /\ \A f, g \in files \cup bgSrcFiles : f # g => Apart(f, g)
  /\ ~anyFailed => \A f, g \in files \cup toRegister : f # g => Apart(f, g)
  /\ \A k \in Key : memTree[k] = {} /\ bgTree[k] = {} => TSFind(k) = Visible(k)
  /\ \A f \in onDisk : Cardinality(disk[f].keys) <= MaxFileRecords

\* A file on disk always has somebody who will read or remove it: the registry,
\* the merge in flight, or an iterator that cleans up when it closes.
NoOrphanFile ==
  onDisk \subseteq files \cup bgSrcFiles \cup toRegister \cup UNION {iter[i].snap : i \in Iter}

\* What the registry or the merge in flight refers to exists on disk.
ReferencesExist == files \cup bgSrcFiles \cup toRegister \subseteq onDisk

\* An open iterator goes on to return the records the store held when it was
\* opened, and no others, whatever is inserted, deleted and merged meanwhile.
IteratorIsolation ==
  \A i \in Iter : iter[i].open =>
    \A k \in Key : k > iter[i].pos =>
      UNION {disk[f].recs[k] : f \in iter[i].held} = iter[i].at[k]

\* While a caller could be waiting for bgPending there is a worker that will
\* clear it: a merge in flight, or one that is about to signal.
PendingHasJob == bgPending <=> job # "none"

\* What the store holds for each key.
View == [k \in Key |-> Visible(k)]

Recs(S, k) == UNION {disk[f].recs[k] : f \in S}

Pending == queued \cup running

\* Why a merge keeps every record: at each of its steps the outputs hold nothing
\* but records of the tree and the sources, and, unless a slice has failed, each
\* of those is in the outputs already or waits in a slice that is not finished.
MergeAccounts ==
  /\ mergedSrcs \subseteq bgSrcFiles
  /\ files \cap bgSrcFiles = {}
  /\ toRegister \cap (files \cup bgSrcFiles) = {}
  /\ \A s \in Pending : s.src \in bgSrcFiles \cup {NoFile}
  /\ job # "merging" =>
       /\ bgTree = Empty /\ bgSrcFiles = {} /\ Pending = {} /\ toRegister = {}
       /\ ~anyFailed
  /\ \A k \in Key : Recs(toRegister, k) \subseteq bgTree[k] \cup Recs(bgSrcFiles, k)
  /\ ~anyFailed => \A k \in Key :
       /\ bgTree[k] \subseteq Recs(toRegister, k) \/ \E s \in Pending : k \in s.keys
       /\ \A f \in bgSrcFiles :
            IF f \in mergedSrcs THEN disk[f].recs[k] \subseteq Recs(toRegister, k)
            ELSE \E s \in Pending : s.src = f

\* Steps of the merge never bring a record back or make one up, and as long as no
\* slice has failed they lose none either.
MergeKeepsRecords ==
  [][Worker => /\ \A k \in Key : View'[k] \subseteq View[k]
               /\ ~anyFailed => View' = View]_vars

\* Once callers stop inserting, the merges die down and every waiting inserter
\* has been let through: no lost wakeup, no chain that never signals.
QuietDrains == <>[][~NewInsert]_vars => []<>(~bgPending /\ blocked = {})

Map == INSTANCE StoreMap WITH map <- View

\* The store is a map: every call does in one step what it does to the map, an
\* insert that had to wait at the moment it goes on, and no other step, of a flush,
\* a merge or an iterator, changes what the map holds.
ImplementsMap ==
  /\ Map!Init
  /\ [][/\ \A k \in Key, v \in Val :
           /\ Insert(k, v) \/ InsertFlushes(k, v) \/ InsertResumes(k, v) => Map!Insert(k, v)
           /\ Update(k, v) => Map!Update(k, v) \/ (View[k] = {} /\ View' = View)
        /\ \A k \in Key : Delete(k) => Map!Delete(k)
        /\ SyncFlush \/ Worker \/ IterOps => View' = View]_vars
=============================================================================
