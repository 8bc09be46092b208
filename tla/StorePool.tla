------------------------------ MODULE StorePool ------------------------------
(***************************************************************************)
(* Stores on a merge pool: the client of each store starts background      *)
(* merges, waits for them and closes the store, while the pool's threads   *)
(* run the slices, and the one that ends the last slice finalizes the      *)
(* merge and may chain the next.  A store has the pool to itself           *)
(* (ownsPool) or shares the caller's, which is stopped after the stores    *)
(* were closed.                                                            *)
(*                                                                         *)
(* A store's client is named like the store, and a queued slice is named   *)
(* by its store: what a slice does to files is TieredStore's subject.      *)
(* How many slices a merge has, and whether inserts meanwhile filled the   *)
(* tree, is left open.                                                     *)
(***************************************************************************)
EXTENDS ThreadPool

CONSTANTS
  Main,            \* the thread that owns a shared pool
  MaxSlices,       \* bound on the slices of one merge
  MaxMerges        \* bound on the merges of all stores

ASSUME StorePoolAssumption ==
  /\ Main \notin Job /\ "free" \notin Thread
  /\ Caller = Job \cup {Main}
  /\ MaxSlices \in Nat \ {0}
  /\ MaxMerges \in Nat

VARIABLES
  ownsPool,        \* did TSCreate get no pool?
  lock,            \* who holds the storeLock of each store, or Free
  bgPending,
  left,            \* pendingSlices of the merge in flight
  toQueue,         \* its slices TSI_TriggerBgFlush has still to queue
  merges,          \* merges started
  deleted          \* stores whose bgMutex and bgCV have been deleted

mergeVars == <<lock, bgPending, left, toQueue, merges>>
vars      == <<poolVars, pc, ownsPool, mergeVars, deleted>>

Free  == "free"
Store == Job

\* The store whose merge thread t is starting or running.
StoreOf(t) == IF t \in Worker THEN holds[t] ELSE t

ClientPc == {"absent", "idle", "insert", "wait", "waiting", "close", "draining",
             "free", "closed"}
MergePc  == {"unlock", "final", "clear", "signal"}

-----------------------------------------------------------------------------
(* TSI_TriggerBgFlush, by a client in TSInsert or by a worker that chains. *)

Trigger(t, s) ==
  \E n \in 1..MaxSlices :
    /\ merges < MaxMerges
    /\ lock' = [lock EXCEPT ![s] = t]
    /\ bgPending' = [bgPending EXCEPT ![s] = TRUE]
    /\ left' = [left EXCEPT ![s] = n]
    /\ toQueue' = [toQueue EXCEPT ![s] = n]
    /\ merges' = merges + 1
    /\ Goto(t, "queue")

\* Once the call to QueueJob returns: the next slice, or out of the lock.
AfterSlice(s) == IF toQueue[s] = 0 THEN "unlock" ELSE "queue"

QueueSlice(t) ==
  LET s == StoreOf(t) IN
  /\ QueueJob(t, s, IF toQueue[s] = 1 THEN "unlock" ELSE "queue")
  /\ toQueue' = IF pc'[t] = "full" THEN toQueue ELSE [toQueue EXCEPT ![s] = @ - 1]
  /\ UNCHANGED <<ownsPool, lock, bgPending, left, merges, deleted>>

QueuedSlice(t) ==
  /\ QueuedJob(t, AfterSlice(StoreOf(t)))
  /\ UNCHANGED <<ownsPool, mergeVars, deleted>>

Unlock(t) ==
  /\ pc[t] = "unlock"
  /\ lock' = [lock EXCEPT ![StoreOf(t)] = Free]
  /\ Goto(t, IF t \in Worker THEN "top" ELSE "idle")
  /\ UNCHANGED <<poolVars, ownsPool, bgPending, left, toQueue, merges, deleted>>

-----------------------------------------------------------------------------
(* The client: TSInsert on a full tree, and TSClose.                       *)

Call(s, there) ==
  /\ pc[s] = "idle" /\ isStarted
  /\ Goto(s, there)
  /\ UNCHANGED <<poolVars, ownsPool, mergeVars, deleted>>

TSInsert(s) == merges < MaxMerges /\ Call(s, "insert")
TSClose(s)  == Call(s, "close")

\* bgPending is tested under the lock, before every flush.
InsertFull(s) ==
  /\ pc[s] = "insert"
  /\ lock[s] = Free
  /\ IF bgPending[s] THEN Goto(s, "wait") /\ UNCHANGED mergeVars
     ELSE IF merges < MaxMerges THEN Trigger(s, s)
     ELSE Goto(s, "idle") /\ UNCHANGED mergeVars
  /\ UNCHANGED <<poolVars, ownsPool, deleted>>

\* TSI_WaitForBgMerge: the predicate, under bgMutex.
WaitForBgMerge(s, from, asleep, next) ==
  /\ pc[s] = from
  /\ Goto(s, IF bgPending[s] THEN asleep ELSE next)
  /\ UNCHANGED <<poolVars, ownsPool, mergeVars, deleted>>

InsertWait(s) == WaitForBgMerge(s, "wait", "waiting", "insert")

AfterDrain == IF ownsPool THEN "stop" ELSE "free"

Drain(s) == WaitForBgMerge(s, "close", "draining", AfterDrain)

\* delete ts->bgCV, ts->bgMutex and ts.
FreeStore(s) ==
  /\ pc[s] = "free"
  /\ deleted' = deleted \cup {s}
  /\ Goto(s, "closed")
  /\ UNCHANGED <<poolVars, ownsPool, mergeVars>>

-----------------------------------------------------------------------------
(* The worker: TSI_RunSliceJob and TSI_FinalizeJob.                        *)

RunSlice(w) ==
  LET s == holds[w] IN
  /\ pc[w] = "run"
  /\ left' = [left EXCEPT ![s] = @ - 1]
  /\ Goto(w, IF left[s] = 1 THEN "final" ELSE "top")
  /\ UNCHANGED <<poolVars, ownsPool, lock, bgPending, toQueue, merges, deleted>>

\* The next merge is chained without letting go of the lock or of bgPending.
Chain(w) ==
  /\ pc[w] = "final"
  /\ lock[holds[w]] = Free
  /\ Trigger(w, holds[w])
  /\ UNCHANGED <<poolVars, ownsPool, deleted>>

Finalize(w) ==
  /\ pc[w] = "final"
  /\ lock[holds[w]] = Free
  /\ Goto(w, "clear")
  /\ UNCHANGED <<poolVars, ownsPool, mergeVars, deleted>>

ClearPending(w) ==
  /\ pc[w] = "clear"
  /\ bgPending' = [bgPending EXCEPT ![holds[w]] = FALSE]
  /\ Goto(w, "signal")
  /\ UNCHANGED <<poolVars, ownsPool, lock, left, toQueue, merges, deleted>>

\* bgCV->notify_all(), after bgMutex has been released.
NotifyAll(w) ==
  LET s == holds[w]
      woken == CASE pc[s] = "waiting"  -> "wait"
                 [] pc[s] = "draining" -> "close"
                 [] OTHER              -> pc[s]
  IN  /\ pc[w] = "signal"
      /\ pc' = [pc EXCEPT ![w] = "top", ![s] = woken]
      /\ UNCHANGED <<poolVars, ownsPool, mergeVars, deleted>>

-----------------------------------------------------------------------------
(* The pool's own steps, and who stops it.                                 *)

PoolStep(w) ==
  /\ LoopTop(w) \/ TakeJob(w) \/ TookJob(w)
  /\ UNCHANGED <<ownsPool, mergeVars, deleted>>

PoolStart ==
  /\ Started \/ \E w \in Worker : StartThread(w)
  /\ UNCHANGED <<ownsPool, mergeVars, deleted>>

\* The owner of a shared pool stops it when every store is closed.
MainStops ==
  /\ ~ownsPool
  /\ pc[Main] = "main"
  /\ \A s \in Store : pc[s] = "closed"
  /\ Goto(Main, "stop")
  /\ UNCHANGED <<poolVars, ownsPool, mergeVars, deleted>>

StopPool(t) ==
  /\ Stop(t) \/ StopNotify(t) \/ Join(t, IF t = Main THEN "stopped" ELSE "free")
  /\ UNCHANGED <<ownsPool, mergeVars, deleted>>

-----------------------------------------------------------------------------

Init ==
  /\ queue = <<>>
  /\ isStarted = FALSE /\ shouldTerminate = FALSE
  /\ isBusy = [w \in Worker |-> FALSE]
  /\ holds = [w \in Worker |-> NoJob]
  /\ ownsPool \in BOOLEAN
  /\ \E S \in SUBSET Store :
       /\ IF ownsPool THEN \E s \in Store : S = {s} ELSE S = Store
       /\ pc = [t \in Thread |-> IF t \in Worker THEN "none"
                                 ELSE IF t = Main THEN "main"
                                 ELSE IF t \in S THEN "idle" ELSE "absent"]
  /\ lock = [s \in Store |-> Free]
  /\ bgPending = [s \in Store |-> FALSE]
  /\ left = [s \in Store |-> 0]
  /\ toQueue = [s \in Store |-> 0]
  /\ merges = 0
  /\ deleted = {}

WorkerStep(w) ==
  \/ PoolStep(w)
  \/ RunSlice(w) \/ Chain(w) \/ Finalize(w) \/ ClearPending(w) \/ NotifyAll(w)
  \/ QueueSlice(w) \/ QueuedSlice(w) \/ Unlock(w)

\* What a client does once it has called TSInsert or TSClose.
ClientStep(s) ==
  \/ InsertFull(s) \/ InsertWait(s)
  \/ QueueSlice(s) \/ QueuedSlice(s) \/ Unlock(s)
  \/ Drain(s) \/ StopPool(s) \/ FreeStore(s)

MainStep == MainStops \/ StopPool(Main)

\* Every store is closed and the pool has been stopped.
Done ==
  /\ \A s \in Store : pc[s] \in {"closed", "absent"}
  /\ ownsPool \/ pc[Main] = "stopped"
  /\ UNCHANGED vars

Next ==
  \/ PoolStart
  \/ \E w \in Worker : WorkerStep(w)
  \/ \E s \in Store : TSInsert(s) \/ TSClose(s) \/ ClientStep(s)
  \/ MainStep
  \/ Done

Spec == Init /\ [][Next]_vars

\* Every thread that can go on does; nobody is obliged to insert or to close.
Fairness ==
  /\ WF_vars(PoolStart)
  /\ \A w \in Worker : WF_vars(WorkerStep(w))
  /\ \A s \in Store : WF_vars(ClientStep(s))

FairSpec == Spec /\ Fairness
=============================================================================
