--------------------------- MODULE StorePoolProofs ---------------------------
(***************************************************************************)
(* The pool of merge workers, for any number of stores, threads, slices and *)
(* merges, and any depth of the queue.  First, a store that owns its pool   *)
(* can be closed safely.  Then, no slice of a merge is lost, run twice or   *)
(* left behind on any pool, shared or not: what that gives a caller of      *)
(* IsBusy and of TSClose.  That argument is a count.  A slice is still to   *)
(* be queued, or in the queue, or with a thread, and pendingSlices counts   *)
(* them all; the thread that takes the count to zero is the only one that   *)
(* finalizes.                                                               *)
(***************************************************************************)
EXTENDS StorePoolProps, FiniteSetTheorems, FunctionTheorems, TLAPS


AnyPc == WorkerPc \cup QueuePc \cup StopPc \cup ClientPc \cup MergePc \cup {"main", "stopped"}

\* The pool has been stopped for good: its threads are gone and its queue is empty.
Gone == shouldTerminate /\ \A w \in Worker : pc[w] = "exited"

\* The inductive invariant: Stop sets shouldTerminate before it joins, so that the
\* queue stays empty from then on; and the owner leaves Stop only after every thread.
OwnInv ==
  /\ pc \in [Thread -> AnyPc]
  /\ shouldTerminate => queue = <<>>
  /\ \A c \in Caller : pc[c] \in {"stopping", "join"} => shouldTerminate
  /\ ownsPool /\ (deleted # {} \/ \E s \in Store : pc[s] = "free") => Gone

LEMMA OwnInit == Init => OwnInv
  <1> SUFFICES ASSUME Init PROVE OwnInv
    OBVIOUS
  <1>1. \E S \in SUBSET Store :
          pc = [t \in Thread |-> IF t \in Worker THEN "none"
                                 ELSE IF t = Main THEN "main"
                                 ELSE IF t \in S THEN "idle" ELSE "absent"]
    BY DEF Init
  <1>2. pc \in [Thread -> {"none", "main", "idle", "absent"}]
    BY <1>1
  <1>3. \A t \in Thread : pc[t] \in {"none", "main", "idle", "absent"}
    BY <1>2
  <1>4. Store \subseteq Thread /\ Caller \subseteq Thread
    BY StorePoolAssumption DEF Thread, Store
  <1> QED
    BY <1>2, <1>3, <1>4
    DEF Init, OwnInv, AnyPc, WorkerPc, QueuePc, StopPc, ClientPc, MergePc

\* A step that moves only threads which are neither gone, nor in Stop before or after,
\* and that frees no store, keeps the invariant.
LEMMA OwnQuiet ==
  ASSUME OwnInv,
         ownsPool' = ownsPool, deleted' = deleted, shouldTerminate' = shouldTerminate,
         shouldTerminate => queue' = queue,
         pc' \in [Thread -> AnyPc],
         \A t \in Thread : \/ pc'[t] = pc[t]
                           \/ pc[t] # "exited" /\ pc'[t] \notin {"stopping", "join", "free"}
  PROVE  OwnInv'
  <1>1. Worker \subseteq Thread /\ Caller \subseteq Thread /\ Store \subseteq Caller
    BY StorePoolAssumption DEF Thread, Store
  <1>2. shouldTerminate' => queue' = <<>>
    BY DEF OwnInv
  <1>3. \A c \in Caller : pc'[c] \in {"stopping", "join"} => shouldTerminate'
    BY <1>1 DEF OwnInv
  <1>4. ASSUME ownsPool', deleted' # {} \/ \E s \in Store : pc'[s] = "free"
        PROVE  Gone'
    <2>1. deleted # {} \/ \E s \in Store : pc[s] = "free"
      BY <1>4, <1>1
    <2>2. Gone
      BY <2>1, <1>4 DEF OwnInv
    <2> QED
      BY <2>2, <1>1 DEF Gone
  <1> QED
    BY <1>2, <1>3, <1>4 DEF OwnInv

\* What OwnQuiet asks of pc.
Moved ==
  /\ pc' \in [Thread -> AnyPc]
  /\ \A t \in Thread : \/ pc'[t] = pc[t]
                       \/ pc[t] # "exited" /\ pc'[t] \notin {"stopping", "join", "free"}

Quiet == AnyPc \ {"stopping", "join", "free"}

LEMMA MovedByGoto ==
  ASSUME pc \in [Thread -> AnyPc], NEW t \in Thread, NEW there \in Quiet,
         pc[t] # "exited", Goto(t, there)
  PROVE  Moved
  BY DEF Moved, Quiet, Goto

LEMMA MovedByNotify ==
  ASSUME pc \in [Thread -> AnyPc], NEW t \in Thread, NEW from \in {"full", "asleep"},
         NEW to \in Quiet, NEW next \in Quiet, pc[t] # "exited",
         NotifyOne(t, from, to, next)
  PROVE  Moved
  <1>1. CASE \E u \in Thread : pc[u] = from
    <2>1. PICK u \in Thread :
            pc[u] = from /\ pc' = [pc EXCEPT ![u] = to, ![t] = next]
      BY <1>1 DEF NotifyOne
    <2>2. pc[u] # "exited"
      BY <2>1
    <2> QED
      BY <2>1, <2>2 DEF Moved, Quiet
  <1>2. CASE ~\E u \in Thread : pc[u] = from
    BY <1>2, MovedByGoto DEF NotifyOne
  <1> QED
    BY <1>1, <1>2

\* The places the actions name are quiet ones.
LEMMA QuietPlaces ==
  {"top", "enter", "asleep", "took", "run", "exited", "queue", "full", "pushed", "unlock",
   "idle", "insert", "wait", "waiting", "close", "draining", "closed", "final", "clear",
   "signal", "stop", "main", "stopped"} \subseteq Quiet
  BY DEF Quiet, AnyPc, WorkerPc, QueuePc, StopPc, ClientPc, MergePc

\* Queueing and leaving the lock, by a client or by a worker.
LEMMA OwnQueueing ==
  ASSUME OwnInv, NEW t \in Thread, QueueSlice(t) \/ QueuedSlice(t) \/ Unlock(t)
  PROVE  OwnInv'
  <1>0. pc \in [Thread -> AnyPc]
    BY DEF OwnInv
  <1>1. CASE QueueSlice(t)
    <2>1. PICK next \in {"unlock", "queue"} : QueueJob(t, StoreOf(t), next)
      BY <1>1 DEF QueueSlice
    <2>2. \E there \in {next, "pushed", "full"} : Goto(t, there)
      BY <2>1 DEF QueueJob
    <2>3. Moved
      BY <1>0, <2>1, <2>2, MovedByGoto, QuietPlaces DEF QueueJob
    <2> QED
      BY <1>1, <2>1, <2>3, OwnQuiet DEF Moved, QueueSlice, QueueJob
  <1>2. CASE QueuedSlice(t)
    <2>1. Moved
      BY <1>0, <1>2, MovedByNotify, QuietPlaces DEF QueuedSlice, QueuedJob, AfterSlice
    <2> QED
      BY <1>2, <2>1, OwnQuiet DEF Moved, QueuedSlice, QueuedJob, poolVars
  <1>3. CASE Unlock(t)
    <2>1. Moved
      BY <1>0, <1>3, MovedByGoto, QuietPlaces DEF Unlock
    <2> QED
      BY <1>3, <2>1, OwnQuiet DEF Moved, Unlock, poolVars
  <1> QED
    BY <1>1, <1>2, <1>3

\* The pool's threads.
LEMMA OwnWorker ==
  ASSUME OwnInv, NEW w \in Worker, WorkerStep(w)
  PROVE  OwnInv'
  <1>0. pc \in [Thread -> AnyPc] /\ w \in Thread
    BY DEF OwnInv, Thread
  <1>1. CASE PoolStep(w)
    <2>1. CASE LoopTop(w)
      <3>1. Moved
        BY <1>0, <2>1, MovedByGoto, QuietPlaces DEF LoopTop
      <3> QED
        BY <1>1, <2>1, <3>1, OwnQuiet DEF Moved, PoolStep, LoopTop
    <2>2. CASE TakeJob(w)
      <3>1. \E there \in {"exited", "asleep", "took"} : Goto(w, there)
        BY <2>2 DEF TakeJob
      <3>2. Moved
        BY <1>0, <2>2, <3>1, MovedByGoto, QuietPlaces DEF TakeJob
      <3> QED
        BY <1>1, <2>2, <3>2, OwnQuiet DEF Moved, PoolStep, TakeJob
    <2>3. CASE TookJob(w)
      <3>1. Moved
        BY <1>0, <2>3, MovedByNotify, QuietPlaces DEF TookJob
      <3> QED
        BY <1>1, <2>3, <3>1, OwnQuiet DEF Moved, PoolStep, TookJob, poolVars
    <2> QED
      BY <1>1, <2>1, <2>2, <2>3 DEF PoolStep
  <1>2. CASE RunSlice(w) \/ Chain(w) \/ Finalize(w) \/ ClearPending(w)
    <2>1. pc[w] # "exited" /\ \E there \in {"final", "top", "queue", "clear", "signal"} :
                                 Goto(w, there)
      BY <1>2 DEF RunSlice, Chain, Trigger, Finalize, ClearPending
    <2>2. Moved
      BY <1>0, <2>1, MovedByGoto, QuietPlaces
    <2> QED
      BY <1>2, <2>2, OwnQuiet
      DEF Moved, RunSlice, Chain, Trigger, Finalize, ClearPending, poolVars
  <1>3. CASE NotifyAll(w)
    <2>1. PICK s, woken : /\ pc' = [pc EXCEPT ![w] = "top", ![s] = woken]
                          /\ (woken \in {"wait", "close"} /\ pc[s] # "exited") \/ woken = pc[s]
                          /\ pc[w] = "signal"
      <3> DEFINE s == holds[w]
                 woken == CASE pc[s] = "waiting"  -> "wait"
                            [] pc[s] = "draining" -> "close"
                            [] OTHER              -> pc[s]
      <3>1. pc' = [pc EXCEPT ![w] = "top", ![s] = woken] /\ pc[w] = "signal"
        BY <1>3 DEF NotifyAll
      <3>2. (woken \in {"wait", "close"} /\ pc[s] # "exited") \/ woken = pc[s]
        OBVIOUS
      <3> HIDE DEF woken, s
      <3> QED
        BY <3>1, <3>2
    <2>2. Moved
      BY <1>0, <2>1, QuietPlaces DEF Moved, Quiet
    <2> QED
      BY <1>3, <2>2, OwnQuiet DEF Moved, NotifyAll, poolVars
  <1>4. CASE QueueSlice(w) \/ QueuedSlice(w) \/ Unlock(w)
    BY <1>0, <1>4, OwnQueueing
  <1> QED
    BY <1>1, <1>2, <1>3, <1>4 DEF WorkerStep

\* Stop, by the owner of the pool.
LEMMA OwnStop ==
  ASSUME OwnInv, NEW t \in Caller, StopPool(t)
  PROVE  OwnInv'
  <1>0. /\ pc \in [Thread -> AnyPc] /\ t \in Thread /\ t \notin Worker
        /\ Worker \subseteq Thread /\ Caller \subseteq Thread /\ Store \subseteq Thread
    BY PoolAssumption, StorePoolAssumption DEF OwnInv, Thread, Store
  <1>1. {"stopping", "join", "free", "stopped", "enter", "queue"} \subseteq AnyPc
    BY DEF AnyPc, WorkerPc, QueuePc, StopPc, ClientPc
  <1>2. CASE Stop(t)
    <2>1. /\ pc' = [pc EXCEPT ![t] = "stopping"]
          /\ shouldTerminate' /\ queue' = <<>>
          /\ UNCHANGED <<ownsPool, deleted>>
      BY <1>2 DEF StopPool, Stop, Goto
    <2>2. ownsPool /\ (deleted # {} \/ \E s \in Store : pc'[s] = "free") => Gone
      BY <1>0, <2>1 DEF OwnInv
    <2> QED
      BY <1>0, <1>1, <2>1, <2>2 DEF OwnInv, Gone
  <1>3. CASE StopNotify(t)
    <2>1. /\ pc[t] = "stopping" /\ shouldTerminate
          /\ pc' = [u \in Thread |-> IF u = t THEN "join"
                                     ELSE IF pc[u] = "asleep" THEN "enter"
                                     ELSE IF pc[u] = "full" THEN "queue" ELSE pc[u]]
          /\ UNCHANGED <<ownsPool, deleted, shouldTerminate, queue>>
      BY <1>3 DEF OwnInv, StopPool, StopNotify, poolVars
    <2>2. ownsPool /\ (deleted # {} \/ \E s \in Store : pc'[s] = "free") => Gone
      BY <1>0, <2>1 DEF OwnInv
    <2> QED
      BY <1>0, <1>1, <2>1, <2>2 DEF OwnInv, Gone
  <1>4. CASE Join(t, IF t = Main THEN "stopped" ELSE "free")
    <2>1. PICK there \in {"stopped", "free"} :
            /\ pc' = [pc EXCEPT ![t] = there]
            /\ \A w \in Worker : pc[w] = "exited"
            /\ pc[t] = "join"
            /\ UNCHANGED <<ownsPool, deleted, shouldTerminate, queue>>
      BY <1>4 DEF StopPool, Join, Goto, poolVars
    <2>2. Gone'
      BY <1>0, <2>1 DEF OwnInv, Gone
    <2> QED
      BY <1>0, <1>1, <2>1, <2>2 DEF OwnInv
  <1> QED
    BY <1>2, <1>3, <1>4 DEF StopPool

\* The client of a store.
LEMMA OwnClient ==
  ASSUME OwnInv, NEW s \in Store, TSInsert(s) \/ TSClose(s) \/ ClientStep(s)
  PROVE  OwnInv'
  <1>0. /\ pc \in [Thread -> AnyPc] /\ s \in Thread /\ s \in Caller
        /\ Worker \subseteq Thread /\ Caller \subseteq Thread /\ Store \subseteq Thread
    BY StorePoolAssumption DEF OwnInv, Thread, Store
  <1>1. CASE TSInsert(s) \/ TSClose(s)
    <2>1. Moved
      BY <1>0, <1>1, MovedByGoto, QuietPlaces DEF TSInsert, TSClose, Call
    <2> QED
      BY <1>1, <2>1, OwnQuiet DEF Moved, TSInsert, TSClose, Call, poolVars
  <1>2. CASE InsertFull(s) \/ InsertWait(s)
    <2>1. pc[s] # "exited" /\ \E there \in {"wait", "queue", "idle", "waiting", "insert"} :
                                 Goto(s, there)
      BY <1>2 DEF InsertFull, Trigger, InsertWait, WaitForBgMerge
    <2>2. Moved
      BY <1>0, <2>1, MovedByGoto, QuietPlaces
    <2> QED
      BY <1>2, <2>2, OwnQuiet
      DEF Moved, InsertFull, Trigger, InsertWait, WaitForBgMerge, poolVars
  <1>3. CASE QueueSlice(s) \/ QueuedSlice(s) \/ Unlock(s)
    BY <1>0, <1>3, OwnQueueing
  <1>4. CASE Drain(s)
    <2>1. CASE bgPending[s] \/ ownsPool
      <3>1. pc[s] # "exited" /\ \E there \in {"draining", "stop"} : Goto(s, there)
        BY <1>4, <2>1 DEF Drain, WaitForBgMerge, AfterDrain
      <3>2. Moved
        BY <1>0, <3>1, MovedByGoto, QuietPlaces
      <3> QED
        BY <1>4, <3>2, OwnQuiet DEF Moved, Drain, WaitForBgMerge, poolVars
    <2>2. CASE ~bgPending[s] /\ ~ownsPool
      <3>1. /\ pc' = [pc EXCEPT ![s] = "free"]
            /\ UNCHANGED <<ownsPool, queue, shouldTerminate>>
        BY <1>4, <2>2 DEF Drain, WaitForBgMerge, AfterDrain, Goto, poolVars
      <3> QED
        BY <1>0, <2>2, <3>1 DEF OwnInv, AnyPc, ClientPc
    <2> QED
      BY <2>1, <2>2
  <1>5. CASE StopPool(s)
    BY <1>0, <1>5, OwnStop
  <1>6. CASE FreeStore(s)
    <2>1. /\ pc[s] = "free" /\ pc' = [pc EXCEPT ![s] = "closed"]
          /\ UNCHANGED <<ownsPool, queue, shouldTerminate>>
      BY <1>6 DEF FreeStore, Goto, poolVars
    <2>2. ownsPool => Gone
      BY <2>1 DEF OwnInv
    <2>3. ownsPool => Gone'
      BY <1>0, <2>1, <2>2 DEF Gone
    <2> QED
      BY <1>0, <2>1, <2>3 DEF OwnInv, AnyPc, ClientPc
  <1> QED
    BY <1>1, <1>2, <1>3, <1>4, <1>5, <1>6 DEF ClientStep

LEMMA OwnStep == OwnInv /\ [Next]_vars => OwnInv'
  <1> SUFFICES ASSUME OwnInv, [Next]_vars PROVE OwnInv'
    OBVIOUS
  <1>0. /\ pc \in [Thread -> AnyPc] /\ Main \in Thread /\ Main \in Caller
        /\ Worker \subseteq Thread
    BY StorePoolAssumption DEF OwnInv, Thread
  <1>1. CASE PoolStart
    <2>1. Moved
      BY <1>0, <1>1, MovedByGoto, QuietPlaces DEF PoolStart, StartThread, Started, Moved
    <2> QED
      BY <1>1, <2>1, OwnQuiet DEF Moved, PoolStart, StartThread, Started, poolVars
  <1>2. CASE \E w \in Worker : WorkerStep(w)
    BY <1>2, OwnWorker
  <1>3. CASE \E s \in Store : TSInsert(s) \/ TSClose(s) \/ ClientStep(s)
    BY <1>3, OwnClient
  <1>4. CASE MainStep
    <2>1. CASE MainStops
      <3>1. Moved
        BY <1>0, <2>1, MovedByGoto, QuietPlaces DEF MainStops
      <3> QED
        BY <2>1, <3>1, OwnQuiet DEF Moved, MainStops, poolVars
    <2>2. CASE StopPool(Main)
      BY <1>0, <2>2, OwnStop
    <2> QED
      BY <1>4, <2>1, <2>2 DEF MainStep
  <1>5. CASE Done \/ UNCHANGED vars
    <2>1. UNCHANGED <<pc, queue, shouldTerminate, ownsPool, deleted>>
      BY <1>5 DEF Done, vars, poolVars
    <2> QED
      BY <2>1 DEF OwnInv, Gone
  <1> QED
    BY <1>1, <1>2, <1>3, <1>4, <1>5 DEF Next

\* If the store owns its pool, no thread signals on the condition variable of a store
\* that has been deleted: what a shared pool does not promise.
THEOREM OwnPoolSignals == Spec => [](ownsPool => SignalsLiveStore)
  <1>1. OwnInv => (ownsPool => SignalsLiveStore)
    BY DEF OwnInv, Gone, SignalsLiveStore
  <1> QED
    BY OwnInit, OwnStep, <1>1, PTL DEF Spec

-----------------------------------------------------------------------------
(* Slices are counted.                                                     *)


\* A thread that sleeps on a condition variable is as good as one about to test its
\* predicate again.
Place(p) == CASE p = "full"     -> "queue"
              [] p = "asleep"   -> "enter"
              [] p = "waiting"  -> "wait"
              [] p = "draining" -> "close"
              [] OTHER          -> p

At == [t \in Thread |-> Place(pc[t])]

Running   == {"took", "run"}
Finishing == {"final", "clear"}
Locking   == {"queue", "pushed", "unlock"}
Calling   == {"idle", "insert", "wait", "close"}
Out       == StopPc \cup {"absent", "free", "closed"}
Carrying  == Running \cup Finishing \cup Locking \cup {"signal"}

PoolType ==
  /\ queue \in Seq(Job)
  /\ holds \in [Worker -> Job \cup {NoJob}]
  /\ isBusy \in [Worker -> BOOLEAN]
  /\ lock \in [Store -> Thread \cup {Free}]
  /\ bgPending \in [Store -> BOOLEAN]
  /\ left \in [Store -> Nat]
  /\ toQueue \in [Store -> Nat]
  /\ deleted \subseteq Store

Places ==
  /\ \A w \in Worker : At[w] \in {"none", "top", "enter", "exited"} \cup Carrying
  /\ \A s \in Store : At[s] \in Calling \cup Locking \cup Out
  /\ At[Main] \in {"main", "stopped"} \cup StopPc

\* The slices of s in the queue, and the threads that have one in hand.
Slots(q, s) == {i \in 1..Len(q) : q[i] = s}
Occ(q, s)   == Cardinality(Slots(q, s))
Runners(s)  == {w \in Worker : holds[w] = s /\ At[w] \in Running}

Balance ==
  \A s \in Store : left[s] = toQueue[s] + Occ(queue, s) + Cardinality(Runners(s))

\* A merge whose count is zero has one thread that finalizes it.
Finish ==
  /\ \A w \in Worker : At[w] \in Finishing =>
       /\ bgPending[holds[w]] /\ left[holds[w]] = 0
       /\ At[w] = "clear" => lock[holds[w]] = Free
  /\ \A v, w \in Worker : At[v] \in Finishing /\ At[w] \in Finishing /\ holds[v] = holds[w]
                            => v = w
  /\ \A s \in Store : bgPending[s] /\ left[s] = 0 =>
       \E w \in Worker : At[w] \in Finishing /\ holds[w] = s
  /\ \A s \in Store : ~bgPending[s] => left[s] = 0

\* The lock is held from the start of a merge until its slices are queued.
LockInv ==
  /\ \A t \in Worker \cup Store : At[t] \in Locking =>
       /\ lock[StoreOf(t)] = t /\ bgPending[StoreOf(t)]
       /\ At[t] = "queue" => toQueue[StoreOf(t)] > 0
       /\ At[t] = "unlock" => toQueue[StoreOf(t)] = 0
  /\ \A s \in Store : toQueue[s] > 0 => lock[s] # Free
  /\ \A s \in Store : lock[s] # Free =>
       lock[s] \in Worker \cup Store /\ At[lock[s]] \in Locking /\ StoreOf(lock[s]) = s

Carry ==
  \A w \in Worker :
    /\ At[w] \in Carrying => holds[w] \in Store /\ isBusy[w]
    /\ At[w] \in {"none", "enter", "exited"} => holds[w] = NoJob

\* A client that is out of TSInsert for good has no merge, and the pool is stopped only
\* when all of them are.
Closing ==
  /\ \A s \in Store : At[s] \in Out => ~bgPending[s]
  /\ \A s \in Store : At[s] \in StopPc => ownsPool
  /\ \A s \in deleted : At[s] = "closed"
  /\ ownsPool => \A s, r \in Store : s # r => At[s] = "absent" \/ At[r] = "absent"
  /\ At[Main] # "main" => \A s \in Store : At[s] = "closed"
  /\ shouldTerminate => \A s \in Store : At[s] \in Out

PoolInv == PoolType /\ Places /\ Balance /\ Finish /\ LockInv /\ Carry /\ Closing

-----------------------------------------------------------------------------
(* Counting.                                                               *)

LEMMA SlotsFinite ==
  ASSUME NEW q \in Seq(Job), NEW s
  PROVE  IsFiniteSet(Slots(q, s)) /\ Occ(q, s) \in Nat
  <1>1. IsFiniteSet(1..Len(q))
    BY FS_Interval
  <1>2. Slots(q, s) \subseteq 1..Len(q)
    BY DEF Slots
  <1>3. IsFiniteSet(Slots(q, s))
    BY <1>1, <1>2, FS_Subset
  <1> QED
    BY <1>3, FS_CardinalityType DEF Occ

LEMMA OccEmpty == ASSUME NEW s PROVE Occ(<<>>, s) = 0
  <1>1. Slots(<<>>, s) = {}
    BY DEF Slots
  <1> QED
    BY <1>1, FS_EmptySet DEF Occ

LEMMA OccAppend ==
  ASSUME NEW q \in Seq(Job), NEW j \in Job, NEW s
  PROVE  Occ(Append(q, j), s) = Occ(q, s) + (IF j = s THEN 1 ELSE 0)
  <1>1. /\ Len(Append(q, j)) = Len(q) + 1 /\ Len(q) \in Nat
        /\ \A i \in 1..Len(q) : Append(q, j)[i] = q[i]
        /\ Append(q, j)[Len(q) + 1] = j
    OBVIOUS
  <1>2. Len(q) + 1 \notin Slots(q, s)
    BY <1>1 DEF Slots
  <1>3. CASE j = s
    <2>1. Slots(Append(q, j), s) = Slots(q, s) \cup {Len(q) + 1}
      BY <1>1, <1>3 DEF Slots
    <2> QED
      BY <1>2, <1>3, <2>1, SlotsFinite, FS_AddElement DEF Occ
  <1>4. CASE j # s
    <2>1. Slots(Append(q, j), s) = Slots(q, s)
      BY <1>1, <1>4 DEF Slots
    <2> QED
      BY <1>4, <2>1, SlotsFinite DEF Occ
  <1> QED
    BY <1>3, <1>4

LEMMA OccTail ==
  ASSUME NEW q \in Seq(Job), q # <<>>, NEW s
  PROVE  Occ(q, s) = Occ(Tail(q), s) + (IF Head(q) = s THEN 1 ELSE 0)
  <1> DEFINE T == Slots(Tail(q), s)
             R == Slots(q, s) \ {1}
             f == [i \in T |-> i + 1]
  <1>1. /\ Tail(q) \in Seq(Job) /\ Len(q) \in Nat \ {0} /\ Len(Tail(q)) = Len(q) - 1
        /\ \A i \in 1..Len(q) - 1 : Tail(q)[i] = q[i + 1]
        /\ Head(q) = q[1]
    OBVIOUS
  <1>2. f \in Bijection(T, R)
    <2>1. \A i \in T : i \in Nat /\ i + 1 \in R
      BY <1>1 DEF Slots
    <2>2. \A k \in R : k \in Nat /\ k - 1 \in T /\ f[k - 1] = k
      BY <1>1 DEF Slots
    <2>3. f \in [T -> R] /\ (\A a, b \in T : f[a] = f[b] => a = b)
      BY <2>1
    <2> QED
      BY <2>2, <2>3, Fun_IsBij
  <1>3. Cardinality(T) = Cardinality(R) /\ IsFiniteSet(R) /\ Cardinality(T) \in Nat
    <2>1. IsFiniteSet(T) /\ Cardinality(T) \in Nat
      BY <1>1, SlotsFinite DEF Occ
    <2> HIDE DEF T, R, f
    <2>2. ExistsBijection(T, R)
      BY <1>2 DEF ExistsBijection
    <2> QED
      BY <2>1, <2>2, FS_Bijection
  <1>4. CASE Head(q) = s
    <2>1. Slots(q, s) = R \cup {1} /\ 1 \notin R
      BY <1>1, <1>4 DEF Slots
    <2> HIDE DEF R, T
    <2>2. Cardinality(R \cup {1}) = Cardinality(R) + 1
      BY <1>3, <2>1, FS_AddElement
    <2> QED
      BY <1>3, <1>4, <2>1, <2>2 DEF Occ, T
  <1>5. CASE Head(q) # s
    <2>1. Slots(q, s) = R
      BY <1>1, <1>5 DEF Slots
    <2> HIDE DEF R
    <2> QED
      BY <1>3, <1>5, <2>1 DEF Occ
  <1> QED
    BY <1>4, <1>5

LEMMA RunnersFinite ==
  ASSUME NEW s
  PROVE  /\ IsFiniteSet(Runners(s)) /\ Cardinality(Runners(s)) \in Nat
         /\ Cardinality(Runners(s)) = 0 => Runners(s) = {}
  <1>1. IsFiniteSet(Runners(s))
    BY PoolAssumption, FS_Subset DEF Runners
  <1> QED
    BY <1>1, FS_CardinalityType, FS_EmptySet
-----------------------------------------------------------------------------
(* How a step moves At.                                                    *)

LEMMA Names ==
  /\ Worker \subseteq Thread /\ Store \subseteq Thread /\ Main \in Thread
  /\ Worker \cap Store = {} /\ Main \notin Worker /\ Main \notin Store
  /\ NoJob \notin Store /\ Free \notin Thread
  BY PoolAssumption, StorePoolAssumption DEF Thread, Store, Free

Moves(t, p) == At'[t] = p /\ \A u \in Thread \ {t} : At'[u] = At[u]

LEMMA AtGoto ==
  ASSUME OwnInv, NEW t \in Thread, NEW there, Goto(t, there)
  PROVE  Moves(t, Place(there))
  <1>1. pc' = [pc EXCEPT ![t] = there] /\ pc = [u \in Thread |-> pc[u]]
    BY DEF OwnInv, Goto
  <1>2. \A u \in Thread : pc'[u] = IF u = t THEN there ELSE pc[u]
    BY <1>1
  <1> QED
    BY <1>2 DEF At, Moves

LEMMA AtNotify ==
  ASSUME OwnInv, NEW t \in Thread, NEW from, NEW to, NEW there, Place(from) = Place(to),
         NotifyOne(t, from, to, there)
  PROVE  Moves(t, Place(there))
  <1>1. CASE \E u \in Thread : pc[u] = from
    <2>1. PICK u \in Thread : pc[u] = from /\ pc' = [pc EXCEPT ![u] = to, ![t] = there]
      BY <1>1 DEF NotifyOne
    <2>2. \A v \in Thread : pc'[v] = IF v = t THEN there ELSE IF v = u THEN to ELSE pc[v]
      BY <2>1 DEF OwnInv
    <2>3. ASSUME NEW v \in Thread
          PROVE  Place(pc'[v]) = IF v = t THEN Place(there) ELSE Place(pc[v])
      <3>1. CASE v = t
        BY <2>2, <3>1
      <3>2. CASE v # t /\ v = u
        <4>1. pc'[v] = to /\ pc[v] = from
          BY <2>1, <2>2, <3>2
        <4> QED
          BY <3>2, <4>1
      <3>3. CASE v # t /\ v # u
        BY <2>2, <3>3
      <3> QED
        BY <3>1, <3>2, <3>3
    <2> QED
      BY <2>3 DEF At, Moves
  <1>2. CASE ~\E u \in Thread : pc[u] = from
    BY <1>2, AtGoto DEF NotifyOne
  <1> QED
    BY <1>1, <1>2

\* The places whose name says it all.
LEMMA PlaceOf ==
  /\ \A p : p \notin {"full", "asleep", "waiting", "draining"} => Place(p) = p
  /\ Place("full") = "queue" /\ Place("asleep") = "enter"
  /\ Place("waiting") = "wait" /\ Place("draining") = "close"
  BY DEF Place

LEMMA AtOf ==
  ASSUME NEW t \in Thread
  PROVE  /\ \A p : pc[t] = p /\ p \notin {"full", "asleep", "waiting", "draining"} => At[t] = p
         /\ \A p : At[t] = p /\ p \notin {"queue", "enter", "wait", "close"} => pc[t] = p
  BY DEF At, Place

LEMMA PoolInit == Init => PoolInv
  <1> SUFFICES ASSUME Init PROVE PoolInv
    OBVIOUS
  <1>1. PICK S \in SUBSET Store :
          /\ IF ownsPool THEN \E s \in Store : S = {s} ELSE S = Store
          /\ pc = [t \in Thread |-> IF t \in Worker THEN "none"
                                    ELSE IF t = Main THEN "main"
                                    ELSE IF t \in S THEN "idle" ELSE "absent"]
    BY DEF Init
  <1>2. \A t \in Thread : At[t] = IF t \in Worker THEN "none"
                                  ELSE IF t = Main THEN "main"
                                  ELSE IF t \in S THEN "idle" ELSE "absent"
    BY <1>1 DEF At, Place
  <1>3. /\ \A w \in Worker : At[w] = "none"
        /\ \A s \in Store : At[s] \in {"idle", "absent"}
        /\ At[Main] = "main"
    BY <1>2, Names
  <1>4. PoolType
    BY DEF Init, PoolType
  <1>5. Places
    BY <1>3 DEF Places, Calling, Out
  <1>6. Balance
    <2>1. \A s \in Store : Runners(s) = {}
      BY <1>3 DEF Runners, Running
    <2>2. \A s \in Store : left[s] = 0 /\ toQueue[s] = 0 /\ Occ(queue, s) = 0
      BY OccEmpty DEF Init
    <2> QED
      BY <2>1, <2>2, FS_EmptySet DEF Balance
  <1>7. Finish
    BY <1>3 DEF Init, Finish, Finishing
  <1>8. LockInv
    BY <1>3 DEF Init, LockInv, Locking
  <1>9. Carry
    BY <1>3 DEF Init, Carry, Carrying, Running, Finishing, Locking
  <1>10. Closing
    <2>1. ownsPool => \A s, r \in Store : s # r => At[s] = "absent" \/ At[r] = "absent"
      BY <1>1, <1>2, Names
    <2> QED
      BY <1>3, <2>1 DEF Init, Closing, Out, StopPc
  <1> QED
    BY <1>4, <1>5, <1>6, <1>7, <1>8, <1>9, <1>10 DEF PoolInv

LEMMA BalanceKept ==
  ASSUME Balance, queue' = queue, left' = left, toQueue' = toQueue,
         \A w \in Worker : /\ At'[w] \in Running <=> At[w] \in Running
                           /\ At[w] \in Running => holds'[w] = holds[w]
  PROVE  Balance'
  <1>1. ASSUME NEW s \in Store PROVE Runners(s)' = Runners(s)
    BY DEF Runners
  <1> QED
    BY <1>1 DEF Balance

LEMMA RunnersMove ==
  ASSUME NEW w \in Worker, NEW s,
         \A v \in Worker \ {w} : At'[v] = At[v] /\ holds'[v] = holds[v]
  PROVE  /\ (w \in Runners(s) <=> w \in Runners(s)') => Runners(s)' = Runners(s)
         /\ w \notin Runners(s) /\ w \in Runners(s)' =>
              Cardinality(Runners(s)') = Cardinality(Runners(s)) + 1
         /\ w \in Runners(s) /\ w \notin Runners(s)' =>
              Cardinality(Runners(s)) = Cardinality(Runners(s)') + 1
  <1>1. \A v \in Worker \ {w} : v \in Runners(s)' <=> v \in Runners(s)
    BY DEF Runners
  <1>2. Runners(s) \subseteq Worker /\ Runners(s)' \subseteq Worker
    BY DEF Runners
  <1>3. IsFiniteSet(Runners(s)) /\ IsFiniteSet(Runners(s)')
    BY <1>2, PoolAssumption, FS_Subset
  <1>4. CASE w \in Runners(s) <=> w \in Runners(s)'
    BY <1>1, <1>2, <1>4
  <1>5. CASE w \notin Runners(s) /\ w \in Runners(s)'
    <2>1. Runners(s)' = Runners(s) \cup {w}
      BY <1>1, <1>2, <1>5
    <2> QED
      BY <1>3, <1>5, <2>1, FS_AddElement
  <1>6. CASE w \in Runners(s) /\ w \notin Runners(s)'
    <2>1. Runners(s) = Runners(s)' \cup {w}
      BY <1>1, <1>2, <1>6
    <2> QED
      BY <1>3, <1>6, <2>1, FS_AddElement
  <1> QED
    BY <1>4, <1>5, <1>6

\* What a step that leaves the locks, the finalizers or the clients alone keeps.
LEMMA LockKept ==
  ASSUME LockInv, lock' = lock, bgPending' = bgPending, toQueue' = toQueue,
         \A t \in Worker \cup Store :
           At[t] \in Locking \/ At'[t] \in Locking => At'[t] = At[t] /\ StoreOf(t)' = StoreOf(t)
  PROVE  LockInv'
  <1>1. \A t \in Worker \cup Store : At'[t] \in Locking =>
       /\ lock'[StoreOf(t)'] = t /\ bgPending'[StoreOf(t)']
       /\ At'[t] = "queue" => toQueue'[StoreOf(t)'] > 0
       /\ At'[t] = "unlock" => toQueue'[StoreOf(t)'] = 0
    BY DEF LockInv
  <1>2. ASSUME NEW s \in Store, lock'[s] # Free
        PROVE  lock'[s] \in Worker \cup Store /\ At'[lock'[s]] \in Locking /\ StoreOf(lock[s])' = s
    <2>1. lock[s] \in Worker \cup Store /\ At[lock[s]] \in Locking /\ StoreOf(lock[s]) = s
      BY <1>2 DEF LockInv
    <2>2. PICK t \in Worker \cup Store : t = lock[s]
      BY <2>1
    <2>3. At'[t] = At[t] /\ StoreOf(t)' = StoreOf(t)
      BY <2>1, <2>2
    <2>4. StoreOf(lock[s])' = StoreOf(t)'
      BY <2>2 DEF StoreOf
    <2> QED
      BY <2>1, <2>2, <2>3, <2>4
  <1> QED
    BY <1>1, <1>2 DEF LockInv

LEMMA FinishKept ==
  ASSUME Finish, lock' = lock, bgPending' = bgPending, left' = left,
         \A w \in Worker : At[w] \in Finishing \/ At'[w] \in Finishing
                              => At'[w] = At[w] /\ holds'[w] = holds[w]
  PROVE  Finish'
  BY DEF Finish

LEMMA ClosingKept ==
  ASSUME Closing, deleted \subseteq Store,
         UNCHANGED <<ownsPool, deleted, shouldTerminate, bgPending>>,
         \A s \in Store : At'[s] = At[s], At'[Main] = At[Main]
  PROVE  Closing'
  BY DEF Closing

\* A worker goes from one place to another without lock or merge.
LEMMA WorkerMoves ==
  ASSUME PoolInv, NEW w \in Worker, NEW p, Moves(w, p),
         At[w] \notin Running \cup Finishing \cup Locking,
         p \in {"top", "enter", "exited"},
         UNCHANGED <<queue, shouldTerminate, ownsPool, mergeVars, deleted>>,
         holds' \in [Worker -> Job \cup {NoJob}], isBusy' \in [Worker -> BOOLEAN],
         \A v \in Worker \ {w} : holds'[v] = holds[v] /\ isBusy'[v] = isBusy[v],
         p # "top" => holds'[w] = NoJob
  PROVE  PoolInv'
  <1>1. PoolType'
    BY DEF PoolInv, PoolType, mergeVars
  <1>2. Places'
    BY Names DEF PoolInv, Places, Moves
  <1>3. Balance'
    BY Names, BalanceKept DEF PoolInv, Moves, Running, mergeVars
  <1>4. Finish'
    BY Names, FinishKept DEF PoolInv, Moves, Finishing, mergeVars
  <1>5. LockInv'
    <2>1. \A t \in Worker \cup Store : At[t] \in Locking \/ At'[t] \in Locking => t # w
      BY DEF Moves, Locking
    <2>2. \A t \in Worker \cup Store :
            t # w => At'[t] = At[t] /\ StoreOf(t)' = StoreOf(t)
      BY Names DEF StoreOf, Moves
    <2> QED
      BY <2>1, <2>2, LockKept DEF PoolInv, mergeVars
  <1>6. Carry'
    BY Names DEF PoolInv, Carry, Moves, Carrying, Running, Finishing, Locking
  <1>7. Closing'
    <2>1. \A s \in Store : At'[s] = At[s]
      BY Names DEF Moves
    <2>2. At'[Main] = At[Main]
      BY Names DEF Moves
    <2> QED
      BY <2>1, <2>2, ClosingKept DEF PoolInv, PoolType, mergeVars
  <1> QED
    BY <1>1, <1>2, <1>3, <1>4, <1>5, <1>6, <1>7 DEF PoolInv

-----------------------------------------------------------------------------
(* The pool's threads.                                                     *)

LEMMA PoolStarts ==
  ASSUME OwnInv, PoolInv, PoolStart
  PROVE  PoolInv'
  <1>1. CASE Started
    <2>1. UNCHANGED <<pc, queue, shouldTerminate, isBusy, holds, ownsPool, lock, bgPending, left,
                      toQueue, deleted>>
      BY <1>1 DEF PoolStart, Started, mergeVars
    <2>2. UNCHANGED At
      BY <2>1 DEF At
    <2> QED
      BY <2>1, <2>2
      DEF PoolInv, PoolType, Places, Balance, Runners, Finish, LockInv, StoreOf, Carry, Closing
  <1>2. ASSUME NEW w \in Worker, StartThread(w) PROVE PoolInv'
    <2>1. At[w] = "none" /\ Moves(w, "top")
      BY <1>2, Names, AtOf, AtGoto, PlaceOf DEF StartThread
    <2> QED
      BY <1>2, <2>1, WorkerMoves
      DEF PoolStart, StartThread, poolVars, PoolInv, PoolType, Running, Finishing, Locking
  <1> QED
    BY <1>1, <1>2 DEF PoolStart

LEMMA PoolLoops ==
  ASSUME OwnInv, PoolInv, NEW w \in Worker, LoopTop(w),
         UNCHANGED <<ownsPool, mergeVars, deleted>>
  PROVE  PoolInv'
  <1>1. At[w] = "top" /\ Moves(w, "enter")
    BY Names, AtOf, AtGoto, PlaceOf DEF LoopTop
  <1>2. /\ holds' = [holds EXCEPT ![w] = NoJob] /\ isBusy' = [isBusy EXCEPT ![w] = FALSE]
        /\ UNCHANGED <<queue, shouldTerminate>>
    BY DEF LoopTop
  <1>3. holds \in [Worker -> Job \cup {NoJob}] /\ isBusy \in [Worker -> BOOLEAN]
    BY DEF PoolInv, PoolType
  <1> QED
    BY <1>1, <1>2, <1>3, WorkerMoves DEF Running, Finishing, Locking

\* A thread takes the head of the queue: the count of its store stays, and the thread
\* is busy before the queue's mutex is released.
LEMMA PoolTakes ==
  ASSUME OwnInv, PoolInv, NEW w \in Worker, TakeJob(w),
         UNCHANGED <<ownsPool, mergeVars, deleted>>
  PROVE  PoolInv'
  <1>0. At[w] = "enter" /\ w \in Thread
    BY Names DEF TakeJob, At, Place
  <1>1. CASE shouldTerminate
    <2>1. Moves(w, "exited") /\ UNCHANGED <<queue, isBusy, holds, shouldTerminate>>
      BY <1>0, <1>1, AtGoto, PlaceOf DEF TakeJob
    <2> QED
      BY <1>0, <2>1, WorkerMoves DEF PoolInv, PoolType, Carry, Running, Finishing, Locking
  <1>2. CASE ~shouldTerminate /\ queue = <<>>
    <2>1. Moves(w, "enter") /\ UNCHANGED <<queue, isBusy, holds, shouldTerminate>>
      BY <1>0, <1>2, AtGoto, PlaceOf DEF TakeJob
    <2> QED
      BY <1>0, <2>1, WorkerMoves DEF PoolInv, PoolType, Carry, Running, Finishing, Locking
  <1>3. CASE ~shouldTerminate /\ queue # <<>>
    <2> DEFINE j == Head(queue)
    <2>1. /\ Moves(w, "took") /\ queue' = Tail(queue)
          /\ holds' = [holds EXCEPT ![w] = j] /\ isBusy' = [isBusy EXCEPT ![w] = TRUE]
          /\ UNCHANGED shouldTerminate
      BY <1>0, <1>3, AtGoto, PlaceOf DEF TakeJob
    <2>2. /\ queue \in Seq(Job) /\ holds \in [Worker -> Job \cup {NoJob}]
          /\ isBusy \in [Worker -> BOOLEAN]
      BY DEF PoolInv, PoolType
    <2>3. j \in Store /\ queue' \in Seq(Job)
      BY <1>3, <2>1, <2>2 DEF Store
    <2> HIDE DEF j
    <2>4. /\ holds'[w] = j /\ isBusy'[w]
          /\ \A v \in Worker \ {w} : holds'[v] = holds[v] /\ isBusy'[v] = isBusy[v]
      BY <2>1, <2>2
    <2>5. PoolType'
      BY <2>1, <2>2, <2>3 DEF PoolInv, PoolType, mergeVars, Store
    <2>6. Places'
      BY <2>1, Names DEF PoolInv, Places, Moves, Carrying, Running
    <2>7. Balance'
      <3> SUFFICES ASSUME NEW s \in Store
                   PROVE  left'[s] = toQueue'[s] + Occ(queue', s) + Cardinality(Runners(s)')
        BY DEF Balance
      <3>1. left[s] = toQueue[s] + Occ(queue, s) + Cardinality(Runners(s))
        BY DEF PoolInv, Balance
      <3>2. Occ(queue, s) = Occ(queue', s) + (IF j = s THEN 1 ELSE 0)
        BY <1>3, <2>1, <2>2, OccTail DEF j
      <3>3. w \notin Runners(s)
        BY <1>0 DEF Runners, Running
      <3>4. \A v \in Worker \ {w} : At'[v] = At[v] /\ holds'[v] = holds[v]
        BY <2>1, <2>4, Names DEF Moves
      <3>5. Cardinality(Runners(s)') = Cardinality(Runners(s)) + (IF j = s THEN 1 ELSE 0)
        <4>1. w \in Runners(s)' <=> j = s
          BY <2>1, <2>4 DEF Runners, Moves, Running
        <4>2. CASE j = s
          BY <3>3, <3>4, <4>1, <4>2, RunnersMove
        <4>3. CASE j # s
          BY <3>3, <3>4, <4>1, <4>3, RunnersMove, RunnersFinite
        <4> QED
          BY <4>2, <4>3
      <3>6. UNCHANGED <<left, toQueue>>
        BY DEF mergeVars
      <3>7. Occ(queue', s) \in Nat /\ Cardinality(Runners(s)) \in Nat /\ toQueue[s] \in Nat
        BY <2>3, SlotsFinite, RunnersFinite DEF PoolInv, PoolType
      <3> QED
        BY <3>1, <3>2, <3>5, <3>6, <3>7
    <2>8. Finish'
      BY <1>0, <2>1, <2>4, Names, FinishKept DEF PoolInv, Moves, Finishing, mergeVars
    <2>9. LockInv'
      <3>1. \A t \in Worker \cup Store : At[t] \in Locking \/ At'[t] \in Locking => t # w
        BY <1>0, <2>1 DEF Moves, Locking
      <3>2. \A t \in Worker \cup Store :
              t # w => At'[t] = At[t] /\ StoreOf(t)' = StoreOf(t)
        BY <2>1, <2>4, Names DEF StoreOf, Moves
      <3> QED
        BY <3>1, <3>2, LockKept DEF PoolInv, mergeVars
    <2>10. Carry'
      BY <2>1, <2>3, <2>4, Names DEF PoolInv, Carry, Moves, Carrying, Running, Finishing, Locking
    <2>11. Closing'
      <3>1. At'[Main] = At[Main] /\ \A s \in Store : At'[s] = At[s]
        BY <2>1, Names DEF Moves
      <3> QED
        BY <2>1, <3>1, ClosingKept DEF PoolInv, PoolType, mergeVars
    <2> QED
      BY <2>5, <2>6, <2>7, <2>8, <2>9, <2>10, <2>11 DEF PoolInv
  <1> QED
    BY <1>1, <1>2, <1>3

\* Facts the steps of a worker that carries a slice or a merge share.
LEMMA Carried ==
  ASSUME PoolInv, NEW w \in Worker, At[w] \in Carrying
  PROVE  /\ holds[w] \in Store /\ isBusy[w] /\ StoreOf(w) = holds[w]
         /\ w \in Thread /\ w \notin Store /\ w # Main /\ w # Free
  BY Names DEF PoolInv, Carry, StoreOf

LEMMA OthersStay ==
  ASSUME NEW w \in Worker, NEW p, Moves(w, p)
  PROVE  /\ At'[Main] = At[Main] /\ \A s \in Store : At'[s] = At[s]
         /\ \A v \in Worker \ {w} : At'[v] = At[v]
  BY Names DEF Moves

LEMMA PoolTook ==
  ASSUME OwnInv, PoolInv, NEW w \in Worker, TookJob(w),
         UNCHANGED <<ownsPool, mergeVars, deleted>>
  PROVE  PoolInv'
  <1>1. At[w] = "took" /\ Moves(w, "run")
    BY Names, AtOf, AtNotify, PlaceOf DEF TookJob
  <1>2. UNCHANGED <<queue, shouldTerminate, isBusy, holds, lock, bgPending, left, toQueue>>
    BY DEF TookJob, poolVars, mergeVars
  <1>3. PoolType'
    BY <1>2 DEF PoolInv, PoolType
  <1>4. Places'
    BY <1>1, OthersStay, Names DEF PoolInv, Places, Moves, Carrying, Running
  <1>5. Balance'
    BY <1>1, <1>2, OthersStay, BalanceKept DEF PoolInv, Moves, Running
  <1>6. Finish'
    BY <1>1, <1>2, OthersStay, FinishKept DEF PoolInv, Moves, Finishing
  <1>7. LockInv'
    <2>1. \A t \in Worker \cup Store : At[t] \in Locking \/ At'[t] \in Locking => t # w
      BY <1>1 DEF Moves, Locking
    <2>2. \A t \in Worker \cup Store :
            t # w => At'[t] = At[t] /\ StoreOf(t)' = StoreOf(t)
      BY <1>1, <1>2, Names DEF StoreOf, Moves
    <2> QED
      BY <1>2, <2>1, <2>2, LockKept DEF PoolInv
  <1>8. Carry'
    BY <1>1, <1>2, OthersStay DEF PoolInv, Carry, Moves, Carrying, Running, Finishing, Locking
  <1>9. Closing'
    BY <1>1, <1>2, OthersStay, ClosingKept DEF PoolInv, PoolType
  <1> QED
    BY <1>3, <1>4, <1>5, <1>6, <1>7, <1>8, <1>9 DEF PoolInv

\* The end of a slice: the one that takes the count to zero finalizes.
LEMMA PoolRuns ==
  ASSUME OwnInv, PoolInv, NEW w \in Worker, RunSlice(w)
  PROVE  PoolInv'
  <1>0. At[w] = "run"
    BY Names, AtOf DEF RunSlice
  <1> PICK s \in Store : s = holds[w] /\ isBusy[w]
    BY <1>0, Carried DEF Carrying, Running
  <1>1. PICK p \in {"final", "top"} : Moves(w, p) /\ At[w] = "run" /\ (p = "final" <=> left[s] = 1)
    <2>1. CASE left[s] = 1
      BY <1>0, <2>1, Names, AtGoto, PlaceOf DEF RunSlice
    <2>2. CASE left[s] # 1
      BY <1>0, <2>2, Names, AtGoto, PlaceOf DEF RunSlice
    <2> QED
      BY <2>1, <2>2
  <1>2. /\ left' = [left EXCEPT ![s] = @ - 1]
        /\ UNCHANGED <<queue, shouldTerminate, isBusy, holds, ownsPool, lock, bgPending, toQueue,
                      deleted>>
    BY DEF RunSlice, poolVars
  <1>3. s \in Store /\ isBusy[w] /\ s = holds[w]
    OBVIOUS
  <1>4. /\ left \in [Store -> Nat] /\ toQueue \in [Store -> Nat] /\ queue \in Seq(Job)
        /\ left[s] = toQueue[s] + Occ(queue, s) + Cardinality(Runners(s))
    BY <1>3 DEF PoolInv, PoolType, Balance
  <1>5. w \in Runners(s) /\ w \notin Runners(s)'
    BY <1>1 DEF Runners, Running, Moves
  <1>6. left[s] \in Nat \ {0}
    <2>1. Cardinality(Runners(s)) \in Nat \ {0}
      BY <1>5, RunnersFinite
    <2> QED
      BY <1>3, <1>4, <2>1, SlotsFinite
  <1>7. p = "final" <=> left[s] = 1
    BY <1>1
  <1>8. PoolType'
    BY <1>2, <1>3, <1>4, <1>6 DEF PoolInv, PoolType
  <1>9. Places'
    BY <1>1, OthersStay, Names DEF PoolInv, Places, Moves, Carrying, Finishing
  <1>10. Balance'
    <2> SUFFICES ASSUME NEW r \in Store
                 PROVE  left'[r] = toQueue'[r] + Occ(queue', r) + Cardinality(Runners(r)')
      BY DEF Balance
    <2>1. left[r] = toQueue[r] + Occ(queue, r) + Cardinality(Runners(r))
      BY DEF PoolInv, Balance
    <2>2. \A v \in Worker \ {w} : At'[v] = At[v] /\ holds'[v] = holds[v]
      BY <1>1, <1>2, OthersStay
    <2>3. CASE r = s
      <3>1. Cardinality(Runners(s)) = Cardinality(Runners(s)') + 1
        BY <1>5, <2>2, RunnersMove
      <3>2. Cardinality(Runners(s)') \in Nat
        <4>1. IsFiniteSet(Runners(s)')
          BY PoolAssumption, FS_Subset DEF Runners
        <4> QED
          BY <4>1, FS_CardinalityType
      <3>3. left'[s] = left[s] - 1
        BY <1>2, <1>3, <1>4
      <3>4. toQueue'[s] = toQueue[s] /\ Occ(queue', s) = Occ(queue, s) /\ toQueue[s] \in Nat
            /\ Occ(queue, s) \in Nat
        BY <1>2, <1>3, <1>4, SlotsFinite
      <3> QED
        BY <1>3, <2>1, <2>3, <3>1, <3>2, <3>3, <3>4
    <2>4. CASE r # s
      <3>1. w \notin Runners(r) /\ w \notin Runners(r)'
        BY <1>2, <2>4 DEF Runners
      <3>2. Runners(r)' = Runners(r)
        BY <2>2, <3>1, RunnersMove
      <3> QED
        BY <1>2, <1>3, <1>4, <2>1, <2>4, <3>2
    <2> QED
      BY <2>3, <2>4
  <1>11. Finish'
    <2>1. bgPending[s]
      BY <1>3, <1>6 DEF PoolInv, Finish
    <2>2. \A v \in Worker : At[v] \in Finishing => holds[v] # s /\ holds[v] \in Store
      BY <1>6, Carried DEF PoolInv, Finish, Carrying
    <2>3. /\ left'[s] = left[s] - 1
          /\ \A r \in Store \ {s} : left'[r] = left[r]
      BY <1>2, <1>3, <1>4
    <2>4. \A v \in Worker \ {w} : At'[v] = At[v] /\ holds'[v] = holds[v]
      BY <1>1, <1>2, OthersStay
    <2>5. At'[w] = p /\ holds'[w] = s /\ (left'[s] = 0 <=> p = "final")
      BY <1>1, <1>2, <1>6, <1>7, <2>3 DEF Moves
    <2>6. At[w] \notin Finishing /\ (At'[w] \in Finishing <=> p = "final") /\ At'[w] # "clear"
      BY <1>1, <2>5 DEF Finishing
    <2>7. \A v \in Worker : At'[v] \in Finishing =>
            /\ bgPending'[holds'[v]] /\ left'[holds'[v]] = 0
            /\ At'[v] = "clear" => lock'[holds'[v]] = Free
      BY <1>2, <2>1, <2>2, <2>3, <2>4, <2>5, <2>6 DEF PoolInv, Finish
    <2>8. \A v, u \in Worker :
            At'[v] \in Finishing /\ At'[u] \in Finishing /\ holds'[v] = holds'[u] => v = u
      BY <2>2, <2>4, <2>5 DEF PoolInv, Finish
    <2>9. \A r \in Store : bgPending'[r] /\ left'[r] = 0 =>
            \E v \in Worker : At'[v] \in Finishing /\ holds'[v] = r
      <3> SUFFICES ASSUME NEW r \in Store, bgPending'[r], left'[r] = 0
                   PROVE  \E v \in Worker : At'[v] \in Finishing /\ holds'[v] = r
        OBVIOUS
      <3>1. CASE r = s
        BY <2>5, <2>6, <3>1
      <3>2. CASE r # s
        <4>1. PICK v \in Worker : At[v] \in Finishing /\ holds[v] = r
          BY <1>2, <2>3, <3>2 DEF PoolInv, Finish
        <4>2. v # w
          BY <2>6, <4>1
        <4> QED
          BY <2>4, <4>1, <4>2
      <3> QED
        BY <3>1, <3>2
    <2>10. \A r \in Store : ~bgPending'[r] => left'[r] = 0
      BY <1>2, <2>1, <2>3 DEF PoolInv, Finish
    <2> QED
      BY <2>7, <2>8, <2>9, <2>10 DEF Finish
  <1>12. LockInv'
    <2>1. \A t \in Worker \cup Store : At[t] \in Locking \/ At'[t] \in Locking => t # w
      BY <1>1 DEF Moves, Locking
    <2>2. \A t \in Worker \cup Store :
            t # w => At'[t] = At[t] /\ StoreOf(t)' = StoreOf(t)
      BY <1>1, <1>2, Names DEF StoreOf, Moves
    <2> QED
      BY <1>2, <2>1, <2>2, LockKept DEF PoolInv
  <1>13. Carry'
    BY <1>1, <1>2, <1>3, OthersStay
    DEF PoolInv, Carry, Moves, Carrying, Running, Finishing, Locking
  <1>14. Closing'
    BY <1>1, <1>2, OthersStay, ClosingKept DEF PoolInv, PoolType
  <1> QED
    BY <1>8, <1>9, <1>10, <1>11, <1>12, <1>13, <1>14 DEF PoolInv

LEMMA PoolFinalizes ==
  ASSUME OwnInv, PoolInv, NEW w \in Worker, Finalize(w)
  PROVE  PoolInv'
  <1>1. At[w] = "final" /\ Moves(w, "clear") /\ lock[holds[w]] = Free
    BY Names, AtOf, AtGoto, PlaceOf DEF Finalize
  <1>2. UNCHANGED <<queue, shouldTerminate, isBusy, holds, ownsPool, lock, bgPending, left, toQueue,
                    deleted>>
    BY DEF Finalize, poolVars, mergeVars
  <1>3. PoolType'
    BY <1>2 DEF PoolInv, PoolType
  <1>4. Places'
    BY <1>1, OthersStay, Names DEF PoolInv, Places, Moves, Carrying, Finishing
  <1>5. Balance'
    BY <1>1, <1>2, OthersStay, BalanceKept DEF PoolInv, Moves, Running
  <1>6. Finish'
    <2>1. \A v \in Worker : At'[v] \in Finishing <=> At[v] \in Finishing
      BY <1>1, OthersStay DEF Moves, Finishing
    <2> QED
      BY <1>1, <1>2, <2>1, OthersStay DEF PoolInv, Finish
  <1>7. LockInv'
    <2>1. \A t \in Worker \cup Store : At[t] \in Locking \/ At'[t] \in Locking => t # w
      BY <1>1 DEF Moves, Locking
    <2>2. \A t \in Worker \cup Store :
            t # w => At'[t] = At[t] /\ StoreOf(t)' = StoreOf(t)
      BY <1>1, <1>2, Names DEF StoreOf, Moves
    <2> QED
      BY <1>2, <2>1, <2>2, LockKept DEF PoolInv
  <1>8. Carry'
    BY <1>1, <1>2, OthersStay DEF PoolInv, Carry, Moves, Carrying, Running, Finishing, Locking
  <1>9. Closing'
    BY <1>1, <1>2, OthersStay, ClosingKept DEF PoolInv, PoolType
  <1> QED
    BY <1>3, <1>4, <1>5, <1>6, <1>7, <1>8, <1>9 DEF PoolInv

\* bgPending is cleared only when the count is zero and nobody holds the lock.
LEMMA PoolClears ==
  ASSUME OwnInv, PoolInv, NEW w \in Worker, ClearPending(w)
  PROVE  PoolInv'
  <1>1. At[w] = "clear" /\ Moves(w, "signal")
    BY Names, AtOf, AtGoto, PlaceOf DEF ClearPending
  <1> PICK s \in Store : s = holds[w] /\ isBusy[w]
    BY <1>1, Carried DEF Carrying, Finishing
  <1>2. /\ bgPending' = [bgPending EXCEPT ![s] = FALSE]
        /\ UNCHANGED <<queue, shouldTerminate, isBusy, holds, ownsPool, lock, left, toQueue, deleted>>
    BY DEF ClearPending, poolVars
  <1>3. /\ bgPending \in [Store -> BOOLEAN]
        /\ ~bgPending'[s] /\ \A r \in Store \ {s} : bgPending'[r] = bgPending[r]
    BY <1>2 DEF PoolInv, PoolType
  <1>4. bgPending[s] /\ left[s] = 0 /\ lock[s] = Free
    BY <1>1 DEF PoolInv, Finish, Finishing
  <1>5. \A v \in Worker \ {w} : At'[v] = At[v] /\ (At[v] \in Finishing => holds[v] \in Store \ {s})
    BY <1>1, OthersStay, Carried DEF PoolInv, Finish, Finishing, Carrying
  <1>6. PoolType'
    BY <1>2 DEF PoolInv, PoolType
  <1>7. Places'
    BY <1>1, OthersStay, Names DEF PoolInv, Places, Moves, Carrying
  <1>8. Balance'
    BY <1>1, <1>2, OthersStay, BalanceKept DEF PoolInv, Moves, Running
  <1>9. Finish'
    <2>1. At'[w] \notin Finishing
      BY <1>1 DEF Moves, Finishing
    <2>2. \A r \in Store : bgPending'[r] /\ left'[r] = 0 =>
            \E v \in Worker : At'[v] \in Finishing /\ holds'[v] = r
      <3> SUFFICES ASSUME NEW r \in Store, bgPending'[r], left'[r] = 0
                   PROVE  \E v \in Worker : At'[v] \in Finishing /\ holds'[v] = r
        OBVIOUS
      <3>1. r # s /\ bgPending[r] /\ left[r] = 0
        BY <1>2, <1>3
      <3>2. PICK v \in Worker : At[v] \in Finishing /\ holds[v] = r
        BY <3>1 DEF PoolInv, Finish
      <3> QED
        BY <1>2, <1>5, <3>1, <3>2
    <2>3. \A v \in Worker : At'[v] \in Finishing =>
            /\ bgPending'[holds'[v]] /\ left'[holds'[v]] = 0
            /\ At'[v] = "clear" => lock'[holds'[v]] = Free
      BY <1>2, <1>3, <1>5, <2>1 DEF PoolInv, Finish
    <2>4. \A v, u \in Worker :
            At'[v] \in Finishing /\ At'[u] \in Finishing /\ holds'[v] = holds'[u] => v = u
      BY <1>2, <1>5, <2>1 DEF PoolInv, Finish
    <2>5. \A r \in Store : ~bgPending'[r] => left'[r] = 0
      BY <1>2, <1>3, <1>4 DEF PoolInv, Finish
    <2> QED
      BY <2>2, <2>3, <2>4, <2>5 DEF Finish
  <1>10. LockInv'
    <2>1. \A t \in Worker \cup Store : At[t] \in Locking \/ At'[t] \in Locking =>
            t # w /\ At'[t] = At[t] /\ StoreOf(t)' = StoreOf(t)
      BY <1>1, <1>2, Names DEF Moves, Locking, StoreOf
    <2>2. \A t \in Worker \cup Store : At[t] \in Locking => StoreOf(t) \in Store \ {s}
      BY <1>4, Carried, Names DEF PoolInv, LockInv, Carrying, StoreOf
    <2>3. \A t \in Worker \cup Store : At'[t] \in Locking =>
       /\ lock'[StoreOf(t)'] = t /\ bgPending'[StoreOf(t)']
       /\ At'[t] = "queue" => toQueue'[StoreOf(t)'] > 0
       /\ At'[t] = "unlock" => toQueue'[StoreOf(t)'] = 0
      BY <1>2, <1>3, <2>1, <2>2 DEF PoolInv, LockInv
    <2>4. ASSUME NEW r \in Store, lock'[r] # Free
          PROVE  lock'[r] \in Worker \cup Store /\ At'[lock'[r]] \in Locking /\ StoreOf(lock[r])' = r
      <3>1. PICK t \in Worker \cup Store : t = lock[r] /\ At[t] \in Locking /\ StoreOf(t) = r
        BY <1>2, <2>4 DEF PoolInv, LockInv
      <3>2. StoreOf(lock[r])' = StoreOf(t)'
        BY <1>2, <3>1 DEF StoreOf
      <3> QED
        BY <1>2, <2>1, <3>1, <3>2
    <2> QED
      BY <1>2, <2>3, <2>4 DEF PoolInv, LockInv
  <1>11. Carry'
    <2>1. At'[w] = "signal" /\ holds'[w] = s /\ isBusy'[w]
      BY <1>1, <1>2 DEF Moves
    <2> QED
      BY <1>2, <1>5, <2>1 DEF PoolInv, Carry
  <1>12. Closing'
    <2>1. At'[Main] = At[Main] /\ \A r \in Store : At'[r] = At[r]
      BY <1>1, OthersStay
    <2>2. \A r \in Store : At'[r] \in Out => ~bgPending'[r]
      BY <1>3, <2>1 DEF PoolInv, Closing
    <2>3. \A r \in deleted' : At'[r] = "closed"
      BY <1>2, <2>1 DEF PoolInv, PoolType, Closing
    <2> QED
      BY <1>2, <2>1, <2>2, <2>3 DEF PoolInv, Closing
  <1> QED
    BY <1>6, <1>7, <1>8, <1>9, <1>10, <1>11, <1>12 DEF PoolInv

\* Who is told that the merge is over tests its predicate again.
LEMMA PoolSignals ==
  ASSUME OwnInv, PoolInv, NEW w \in Worker, NotifyAll(w)
  PROVE  PoolInv'
  <1>1. At[w] = "signal"
    BY Names, AtOf DEF NotifyAll
  <1> PICK s \in Store : s = holds[w] /\ isBusy[w]
    BY <1>1, Carried DEF Carrying
  <1>2. Moves(w, "top")
    <2> DEFINE woken == CASE pc[s] = "waiting"  -> "wait"
                          [] pc[s] = "draining" -> "close"
                          [] OTHER              -> pc[s]
    <2>1. pc' = [pc EXCEPT ![w] = "top", ![s] = woken]
      BY DEF NotifyAll
    <2>2. Place(woken) = Place(pc[s])
      BY DEF Place
    <2> HIDE DEF woken
    <2>3. \A u \in Thread : pc'[u] = IF u = s THEN woken ELSE IF u = w THEN "top" ELSE pc[u]
      BY <2>1, Names DEF OwnInv
    <2>4. At'[w] = "top"
      BY <2>3, Names, PlaceOf DEF At
    <2>5. ASSUME NEW u \in Thread \ {w} PROVE At'[u] = At[u]
      <3>1. At'[u] = Place(pc'[u]) /\ At[u] = Place(pc[u])
        BY DEF At
      <3>2. CASE u = s
        BY <2>2, <2>3, <3>1, <3>2
      <3>3. CASE u # s
        BY <2>3, <3>1, <3>3
      <3> QED
        BY <3>2, <3>3
    <2> QED
      BY <2>4, <2>5 DEF Moves
  <1>3. holds \in [Worker -> Job \cup {NoJob}] /\ isBusy \in [Worker -> BOOLEAN]
    BY DEF PoolInv, PoolType
  <1> QED
    BY <1>1, <1>2, <1>3, WorkerMoves DEF NotifyAll, poolVars, Running, Finishing, Locking

-----------------------------------------------------------------------------
(* Queueing the slices, by a client or by a worker that chains a merge.    *)

Holder == Worker \cup Store

\* Whoever holds a lock holds it alone, for a merge in flight, and the pool runs.
LEMMA Locked ==
  ASSUME PoolInv, NEW t \in Holder, At[t] \in Locking
  PROVE  /\ StoreOf(t) \in Store /\ lock[StoreOf(t)] = t /\ bgPending[StoreOf(t)]
         /\ \A u \in Holder \ {t} : At[u] \in Locking => StoreOf(u) # StoreOf(t)
         /\ t \in Worker => holds[t] = StoreOf(t) /\ isBusy[t]
         /\ At[StoreOf(t)] \notin Out /\ ~shouldTerminate
         /\ t \in Thread /\ t # Main
  <1>1. StoreOf(t) \in Store /\ (t \in Worker => holds[t] = StoreOf(t) /\ isBusy[t])
    BY Carried DEF Holder, StoreOf, Carrying
  <1>2. lock[StoreOf(t)] = t /\ bgPending[StoreOf(t)]
    BY DEF PoolInv, LockInv, Holder
  <1>3. \A u \in Holder \ {t} : At[u] \in Locking => StoreOf(u) # StoreOf(t)
    BY <1>2 DEF PoolInv, LockInv, Holder
  <1>4. At[StoreOf(t)] \notin Out /\ ~shouldTerminate
    BY <1>1, <1>2 DEF PoolInv, Closing
  <1> QED
    BY <1>1, <1>2, <1>3, <1>4, Names DEF Holder

LEMMA HolderMoves ==
  ASSUME NEW t \in Holder, NEW p, Moves(t, p)
  PROVE  At'[t] = p /\ At'[Main] = At[Main] /\ \A u \in Holder \ {t} : At'[u] = At[u]
  BY Names DEF Moves, Holder

\* Who is not out and stays in disturbs nobody's closing.
LEMMA ClosingMoves ==
  ASSUME PoolType, Closing, UNCHANGED <<ownsPool, deleted, shouldTerminate, bgPending>>,
         At'[Main] = At[Main], ~shouldTerminate,
         \A r \in Store : At'[r] \in Out => At'[r] = At[r],
         \A r \in Store : At[r] \in Out => At'[r] = At[r]
  PROVE  Closing'
  <1>1. /\ \A r \in Store : At'[r] \in Out => ~bgPending'[r]
        /\ \A r \in Store : At'[r] \in StopPc => ownsPool'
    BY DEF Closing, Out
  <1>2. \A r \in deleted' : At'[r] = "closed"
    BY DEF Closing, PoolType, Out
  <1>3. ownsPool' => \A s, r \in Store : s # r => At'[s] = "absent" \/ At'[r] = "absent"
    BY DEF Closing, Out
  <1>4. At'[Main] # "main" => \A s \in Store : At'[s] = "closed"
    BY DEF Closing, Out
  <1> QED
    BY <1>1, <1>2, <1>3, <1>4 DEF Closing

LEMMA SliceMoves ==
  ASSUME PoolInv, NEW t \in Holder, At[t] \in Locking, NEW s \in Store, s = StoreOf(t),
         NEW p \in Locking, Moves(t, p),
         UNCHANGED <<shouldTerminate, isBusy, holds, ownsPool, lock, bgPending, left, deleted>>,
         queue' \in Seq(Job), toQueue' \in [Store -> Nat],
         \A r \in Store \ {s} : toQueue'[r] = toQueue[r] /\ Occ(queue', r) = Occ(queue, r),
         toQueue'[s] + Occ(queue', s) = toQueue[s] + Occ(queue, s),
         p = "queue" => toQueue'[s] > 0, p = "unlock" => toQueue'[s] = 0
  PROVE  PoolInv'
  <1>1. At'[t] = p /\ At'[Main] = At[Main] /\ \A u \in Holder \ {t} : At'[u] = At[u]
    BY HolderMoves
  <1>2. /\ lock[s] = t /\ bgPending[s] /\ At[s] \notin Out /\ ~shouldTerminate
        /\ \A u \in Holder \ {t} : At[u] \in Locking => StoreOf(u) # s
        /\ t \in Worker => holds[t] = s /\ isBusy[t]
        /\ t \in Thread /\ t # Main
    BY Locked
  <1>3. PoolType'
    BY DEF PoolInv, PoolType
  <1>4. Places'
    BY <1>1 DEF PoolInv, Places, Carrying, Holder
  <1>5. Balance'
    <2> SUFFICES ASSUME NEW r \in Store
                 PROVE  left'[r] = toQueue'[r] + Occ(queue', r) + Cardinality(Runners(r)')
      BY DEF Balance
    <2>1. left[r] = toQueue[r] + Occ(queue, r) + Cardinality(Runners(r))
      BY DEF PoolInv, Balance
    <2>2. \A v \in Worker : At'[v] \in Running <=> At[v] \in Running
      BY <1>1 DEF Running, Locking, Holder
    <2>3. Runners(r)' = Runners(r)
      BY <2>2 DEF Runners
    <2>4. toQueue'[r] + Occ(queue', r) = toQueue[r] + Occ(queue, r)
      OBVIOUS
    <2> QED
      BY <2>1, <2>3, <2>4
  <1>6. Finish'
    BY <1>1, FinishKept DEF PoolInv, Finishing, Locking, Holder
  <1>7. LockInv'
    <2>1. \A u \in Holder : StoreOf(u)' = StoreOf(u)
      BY DEF StoreOf
    <2>2. ASSUME NEW u \in Worker \cup Store, At'[u] \in Locking
          PROVE  /\ lock'[StoreOf(u)'] = u /\ bgPending'[StoreOf(u)']
                 /\ At'[u] = "queue" => toQueue'[StoreOf(u)'] > 0
                 /\ At'[u] = "unlock" => toQueue'[StoreOf(u)'] = 0
      <3>1. CASE u = t
        BY <1>1, <1>2, <2>1, <3>1
      <3>2. CASE u # t
        <4>1. At[u] \in Locking /\ At'[u] = At[u] /\ StoreOf(u) \in Store \ {s}
          BY <1>1, <1>2, <2>2, <3>2, Locked DEF Holder
        <4> QED
          BY <2>1, <2>2, <4>1 DEF PoolInv, LockInv, Holder
      <3> QED
        BY <3>1, <3>2
    <2>3. \A r \in Store : toQueue'[r] > 0 => lock'[r] # Free
      BY <1>2, Names DEF PoolInv, LockInv
    <2>4. ASSUME NEW r \in Store, lock'[r] # Free
          PROVE  lock'[r] \in Worker \cup Store /\ At'[lock'[r]] \in Locking /\ StoreOf(lock[r])' = r
      <3>1. lock[r] \in Worker \cup Store /\ At[lock[r]] \in Locking /\ StoreOf(lock[r]) = r
        BY <2>4 DEF PoolInv, LockInv
      <3>2. StoreOf(lock[r])' = StoreOf(lock[r])
        BY DEF StoreOf
      <3>3. At'[lock[r]] \in Locking
        BY <1>1, <3>1 DEF Holder
      <3> QED
        BY <3>1, <3>2, <3>3
    <2> QED
      BY <2>2, <2>3, <2>4 DEF LockInv
  <1>8. Carry'
    BY <1>1, <1>2 DEF PoolInv, Carry, Carrying, Locking, Holder
  <1>9. Closing'
    <2>1. /\ t \in Store => At[t] \notin Out /\ At'[t] \notin Out
          /\ \A r \in Store : At'[r] \in Out => At'[r] = At[r]
          /\ \A r \in Store : At[r] \in Out => At'[r] = At[r]
      BY <1>1 DEF Locking, Out, StopPc, Holder
    <2> QED
      BY <1>1, <1>2, <2>1, ClosingMoves DEF PoolInv
  <1> QED
    BY <1>3, <1>4, <1>5, <1>6, <1>7, <1>8, <1>9 DEF PoolInv

LEMMA PoolQueues ==
  ASSUME OwnInv, PoolInv, NEW t \in Holder, QueueSlice(t)
  PROVE  PoolInv'
  <1>1. t \in Thread /\ pc[t] = "queue"
    BY Names DEF Holder, QueueSlice, QueueJob
  <1>2. At[t] = "queue" /\ At[t] \in Locking
    BY <1>1 DEF At, Place, Locking
  <1>3. PICK s \in Store : s = StoreOf(t)
    BY <1>2, Locked
  <1>4. ~shouldTerminate /\ toQueue[s] > 0
    BY <1>2, <1>3, Locked DEF PoolInv, LockInv, Holder
  <1>5. /\ queue \in Seq(Job) /\ toQueue \in [Store -> Nat]
        /\ UNCHANGED <<shouldTerminate, isBusy, holds, ownsPool, lock, bgPending, left, deleted>>
    BY DEF PoolInv, PoolType, QueueSlice, QueueJob
  <1>6. CASE Len(queue) < MaxQueueDepth
    <2>1. Goto(t, "pushed") /\ queue' = Append(queue, s)
      BY <1>3, <1>4, <1>6 DEF QueueSlice, QueueJob
    <2>2. pc'[t] = "pushed"
      BY <1>1, <2>1 DEF Goto, OwnInv
    <2>3. toQueue' = [toQueue EXCEPT ![s] = @ - 1]
      BY <1>3, <2>2 DEF QueueSlice
    <2>4. Moves(t, "pushed")
      BY <1>1, <2>1, AtGoto, PlaceOf
    <2>5. queue' \in Seq(Job) /\ toQueue' \in [Store -> Nat]
      BY <1>4, <1>5, <2>1, <2>3 DEF Store
    <2>6. \A r \in Store : Occ(queue', r) = Occ(queue, r) + (IF s = r THEN 1 ELSE 0)
      BY <1>5, <2>1, OccAppend DEF Store
    <2>7. \A r \in Store : Occ(queue, r) \in Nat
      BY <1>5, SlotsFinite
    <2>8. \A r \in Store \ {s} : toQueue'[r] = toQueue[r] /\ Occ(queue', r) = Occ(queue, r)
      BY <1>5, <2>3, <2>6, <2>7
    <2>9. toQueue'[s] + Occ(queue', s) = toQueue[s] + Occ(queue, s)
      BY <1>4, <1>5, <2>3, <2>6, <2>7
    <2> QED
      BY <1>2, <1>3, <1>5, <2>4, <2>5, <2>8, <2>9, SliceMoves DEF Locking
  <1>7. CASE ~(Len(queue) < MaxQueueDepth)
    <2>1. Goto(t, "full") /\ queue' = queue
      BY <1>4, <1>7 DEF QueueSlice, QueueJob
    <2>2. pc'[t] = "full"
      BY <1>1, <2>1 DEF Goto, OwnInv
    <2>3. toQueue' = toQueue
      BY <2>2 DEF QueueSlice
    <2>4. Moves(t, "queue")
      BY <1>1, <2>1, AtGoto, PlaceOf
    <2> QED
      BY <1>2, <1>3, <1>4, <1>5, <2>1, <2>3, <2>4, SliceMoves DEF Locking
  <1> QED
    BY <1>6, <1>7

LEMMA PoolQueued ==
  ASSUME OwnInv, PoolInv, NEW t \in Holder, QueuedSlice(t)
  PROVE  PoolInv'
  <1>1. t \in Thread /\ At[t] = "pushed" /\ At[t] \in Locking
    BY Names, AtOf DEF Holder, QueuedSlice, QueuedJob, Locking
  <1>2. PICK s \in Store : s = StoreOf(t)
    BY <1>1, Locked
  <1>3. /\ queue \in Seq(Job) /\ toQueue \in [Store -> Nat]
        /\ UNCHANGED <<queue, shouldTerminate, isBusy, holds, ownsPool, lock, bgPending, left,
                      toQueue, deleted>>
    BY DEF PoolInv, PoolType, QueuedSlice, QueuedJob, poolVars, mergeVars
  <1>4. NotifyOne(t, "asleep", "enter", AfterSlice(s))
    BY <1>2 DEF QueuedSlice, QueuedJob
  <1>5. PICK p \in {"queue", "unlock"} : p = AfterSlice(s) /\ (p = "unlock" <=> toQueue[s] = 0)
    BY DEF AfterSlice
  <1>6. Moves(t, p)
    BY <1>1, <1>4, <1>5, AtNotify, PlaceOf
  <1> QED
    BY <1>1, <1>2, <1>3, <1>5, <1>6, SliceMoves DEF Locking

LEMMA PoolUnlocks ==
  ASSUME OwnInv, PoolInv, NEW t \in Holder, Unlock(t)
  PROVE  PoolInv'
  <1>1. t \in Thread /\ At[t] = "unlock" /\ At[t] \in Locking
    BY Names, AtOf DEF Holder, Unlock, Locking
  <1>2. PICK s \in Store : s = StoreOf(t)
    BY <1>1, Locked
  <1>3. PICK p \in {"top", "idle"} : Goto(t, p) /\ p = (IF t \in Worker THEN "top" ELSE "idle")
    BY DEF Unlock
  <1>4. Moves(t, p)
    BY <1>1, <1>3, AtGoto, PlaceOf
  <1>5. /\ lock' = [lock EXCEPT ![s] = Free]
        /\ UNCHANGED <<queue, shouldTerminate, isBusy, holds, ownsPool, bgPending, left, toQueue,
                      deleted>>
    BY <1>2 DEF Unlock, poolVars
  <1>6. /\ lock[s] = t /\ bgPending[s] /\ At[s] \notin Out /\ ~shouldTerminate /\ toQueue[s] = 0
        /\ \A u \in Holder \ {t} : At[u] \in Locking => StoreOf(u) \in Store \ {s}
        /\ t \in Worker => holds[t] = s /\ isBusy[t]
        /\ t \in Thread /\ t # Main
    BY <1>1, <1>2, Locked DEF PoolInv, LockInv, Holder
  <1>7. At'[t] = p /\ At'[Main] = At[Main] /\ \A u \in Holder \ {t} : At'[u] = At[u]
    BY <1>4, HolderMoves
  <1>8. /\ lock \in [Store -> Thread \cup {Free}]
        /\ lock'[s] = Free /\ \A r \in Store \ {s} : lock'[r] = lock[r]
    BY <1>5 DEF PoolInv, PoolType
  <1>9. PoolType'
    BY <1>5, <1>8 DEF PoolInv, PoolType
  <1>10. Places'
    BY <1>3, <1>7, Names DEF PoolInv, Places, Calling, Holder
  <1>11. Balance'
    BY <1>1, <1>3, <1>5, <1>7, BalanceKept DEF PoolInv, Running, Holder
  <1>12. Finish'
    <2>1. \A v \in Worker : At[v] \in Finishing \/ At'[v] \in Finishing => v # t /\ At'[v] = At[v]
      BY <1>1, <1>3, <1>7 DEF Finishing, Holder
    <2>2. \A v \in Worker : At[v] \in Finishing => holds[v] \in Store
      BY Carried DEF Carrying
    <2>3. \A v \in Worker : At'[v] = "clear" => lock'[holds'[v]] = Free
      BY <1>5, <1>8, <2>1, <2>2 DEF PoolInv, Finish, Finishing
    <2> QED
      BY <1>5, <2>1, <2>3 DEF PoolInv, Finish
  <1>13. LockInv'
    <2>1. \A u \in Holder : StoreOf(u)' = StoreOf(u)
      BY <1>5 DEF StoreOf
    <2>2. \A u \in Holder : At'[u] \in Locking => u # t /\ At'[u] = At[u]
      BY <1>3, <1>7 DEF Locking
    <2>3. \A u \in Worker \cup Store : At'[u] \in Locking =>
       /\ lock'[StoreOf(u)'] = u /\ bgPending'[StoreOf(u)']
       /\ At'[u] = "queue" => toQueue'[StoreOf(u)'] > 0
       /\ At'[u] = "unlock" => toQueue'[StoreOf(u)'] = 0
      BY <1>5, <1>6, <1>8, <2>1, <2>2 DEF PoolInv, LockInv, Holder
    <2>4. \A r \in Store : toQueue'[r] > 0 => lock'[r] # Free
      BY <1>5, <1>6, <1>8 DEF PoolInv, LockInv
    <2>5. ASSUME NEW r \in Store, lock'[r] # Free
          PROVE  lock'[r] \in Worker \cup Store /\ At'[lock'[r]] \in Locking /\ StoreOf(lock[r])' = r
      <3>1. r # s /\ lock'[r] = lock[r]
        BY <1>8, <2>5
      <3>2. PICK u \in Holder : u = lock[r] /\ At[u] \in Locking /\ StoreOf(u) = r
        BY <2>5, <3>1 DEF PoolInv, LockInv, Holder
      <3>3. u # t
        BY <1>2, <3>1, <3>2
      <3>4. StoreOf(lock[r])' = StoreOf(u)'
        BY <3>1, <3>2 DEF StoreOf
      <3> QED
        BY <1>7, <2>1, <3>1, <3>2, <3>3, <3>4 DEF Holder
    <2> QED
      BY <2>3, <2>4, <2>5 DEF LockInv
  <1>14. Carry'
    BY <1>3, <1>5, <1>7 DEF PoolInv, Carry, Carrying, Running, Finishing, Locking, Holder
  <1>15. Closing'
    <2>1. /\ \A r \in Store : At'[r] \in Out => At'[r] = At[r]
          /\ \A r \in Store : At[r] \in Out => At'[r] = At[r]
      BY <1>1, <1>3, <1>7 DEF Locking, Out, StopPc, Holder
    <2> QED
      BY <1>5, <1>6, <1>7, <2>1, ClosingMoves DEF PoolInv
  <1> QED
    BY <1>9, <1>10, <1>11, <1>12, <1>13, <1>14, <1>15 DEF PoolInv

\* The start of a merge: by a client whose store has none, or by the thread that
\* finalizes the one before.
LEMMA PoolTriggers ==
  ASSUME OwnInv, PoolInv, NEW t \in Holder, NEW s \in Store, s = StoreOf(t),
         At[t] = (IF t \in Worker THEN "final" ELSE "insert"), t \in Store => ~bgPending[s],
         lock[s] = Free, Trigger(t, s), UNCHANGED <<poolVars, ownsPool, deleted>>
  PROVE  PoolInv'
  <1>1. PICK n \in 1..MaxSlices :
          /\ lock' = [lock EXCEPT ![s] = t]
          /\ bgPending' = [bgPending EXCEPT ![s] = TRUE]
          /\ left' = [left EXCEPT ![s] = n]
          /\ toQueue' = [toQueue EXCEPT ![s] = n]
          /\ Goto(t, "queue")
    BY DEF Trigger
  <1>2. n \in Nat /\ n > 0
    BY StorePoolAssumption
  <1>3. t \in Thread /\ t # Main /\ t # Free /\ Moves(t, "queue")
    BY <1>1, Names, AtGoto, PlaceOf DEF Holder
  <1>4. At'[t] = "queue" /\ At'[Main] = At[Main] /\ \A u \in Holder \ {t} : At'[u] = At[u]
    BY <1>3, HolderMoves
  <1>5. UNCHANGED <<queue, shouldTerminate, isBusy, holds, ownsPool, deleted>>
    BY DEF poolVars
  <1>6. /\ lock'[s] = t /\ bgPending'[s] /\ left'[s] = n /\ toQueue'[s] = n
        /\ \A r \in Store \ {s} : /\ lock'[r] = lock[r] /\ bgPending'[r] = bgPending[r]
                                 /\ left'[r] = left[r] /\ toQueue'[r] = toQueue[r]
    BY <1>1 DEF PoolInv, PoolType
  <1>7. t \in Worker => holds[t] = s /\ isBusy[t] /\ bgPending[s] /\ left[s] = 0
    BY Carried DEF PoolInv, Finish, Finishing, Carrying, Holder
  <1>8. left[s] = 0 /\ At[s] \notin Out /\ ~shouldTerminate
    <2>1. CASE t \in Worker
      BY <1>7, <2>1 DEF PoolInv, Closing
    <2>2. CASE t \notin Worker
      <3>1. t = s /\ t \in Store /\ At[t] = "insert"
        BY <2>2 DEF StoreOf, Holder
      <3>2. At[s] \notin Out
        BY <3>1 DEF Out, StopPc
      <3> QED
        BY <3>1, <3>2 DEF PoolInv, Closing, Finish
    <2> QED
      BY <2>1, <2>2
  <1>9. /\ \A v \in Worker \ {t} : At[v] \in Finishing => holds[v] \in Store \ {s}
        /\ \A u \in Holder : At[u] \in Locking => u # t /\ StoreOf(u) \in Store \ {s}
        /\ toQueue[s] = 0
    <2>1. ASSUME NEW v \in Worker \ {t}, At[v] \in Finishing
          PROVE  holds[v] \in Store \ {s}
      <3>1. holds[v] \in Store /\ bgPending[holds[v]]
        BY <2>1, Carried DEF PoolInv, Finish, Carrying
      <3>2. t \in Worker => At[t] \in Finishing
        BY DEF Finishing
      <3> QED
        BY <1>7, <2>1, <3>1, <3>2 DEF PoolInv, Finish, Holder
    <2>2. ASSUME NEW u \in Holder, At[u] \in Locking
          PROVE  u # t /\ StoreOf(u) \in Store \ {s}
      <3>1. lock[StoreOf(u)] = u /\ StoreOf(u) \in Store /\ u # Free
        BY <2>2, Locked, Names
      <3> QED
        BY <2>2, <3>1 DEF Locking
    <2>3. toQueue[s] = 0
      BY DEF PoolInv, LockInv, PoolType
    <2> QED
      BY <2>1, <2>2, <2>3
  <1>10. PoolType'
    BY <1>1, <1>2, <1>3, <1>5 DEF PoolInv, PoolType
  <1>11. Places'
    BY <1>4 DEF PoolInv, Places, Carrying, Locking, Holder
  <1>12. Balance'
    <2> SUFFICES ASSUME NEW r \in Store
                 PROVE  left'[r] = toQueue'[r] + Occ(queue', r) + Cardinality(Runners(r)')
      BY DEF Balance
    <2>1. left[r] = toQueue[r] + Occ(queue, r) + Cardinality(Runners(r))
      BY DEF PoolInv, Balance
    <2>2. \A v \in Worker : At'[v] \in Running <=> At[v] \in Running
      BY <1>4 DEF Running, Holder
    <2>3. Runners(r)' = Runners(r)
      BY <1>5, <2>2 DEF Runners
    <2>4. Occ(queue', r) = Occ(queue, r) /\ Occ(queue, r) \in Nat /\ Cardinality(Runners(r)) \in Nat
      BY <1>5, SlotsFinite, RunnersFinite DEF PoolInv, PoolType
    <2>5. CASE r = s
      <3> DEFINE o == Occ(queue, r)
                 k == Cardinality(Runners(r))
      <3>1. left'[r] = n /\ toQueue'[r] = n /\ 0 = 0 + o + k
        BY <1>6, <1>8, <1>9, <2>1, <2>5
      <3>2. Occ(queue', r) = o /\ Cardinality(Runners(r)') = k /\ o \in Nat /\ k \in Nat
        BY <2>3, <2>4
      <3> HIDE DEF o, k
      <3> QED
        BY <1>2, <3>1, <3>2
    <2>6. CASE r # s
      BY <1>6, <2>1, <2>3, <2>4, <2>6
    <2> QED
      BY <2>5, <2>6
  <1>13. Finish'
    <2>1. \A v \in Worker : At'[v] \in Finishing => v # t /\ At'[v] = At[v]
      BY <1>4 DEF Finishing, Holder
    <2>2. ASSUME NEW v \in Worker, At'[v] \in Finishing
          PROVE  /\ bgPending'[holds'[v]] /\ left'[holds'[v]] = 0
                 /\ At'[v] = "clear" => lock'[holds'[v]] = Free
      BY <1>5, <1>6, <1>9, <2>1, <2>2 DEF PoolInv, Finish
    <2>3. \A v, u \in Worker :
            At'[v] \in Finishing /\ At'[u] \in Finishing /\ holds'[v] = holds'[u] => v = u
      BY <1>5, <2>1 DEF PoolInv, Finish
    <2>4. ASSUME NEW r \in Store, bgPending'[r], left'[r] = 0
          PROVE  \E v \in Worker : At'[v] \in Finishing /\ holds'[v] = r
      <3>1. r # s /\ bgPending[r] /\ left[r] = 0
        BY <1>2, <1>6, <2>4
      <3>2. PICK v \in Worker : At[v] \in Finishing /\ holds[v] = r
        BY <3>1 DEF PoolInv, Finish
      <3>3. v # t
        BY <1>7, <3>1, <3>2
      <3> QED
        BY <1>4, <1>5, <3>2, <3>3 DEF Holder
    <2>5. \A r \in Store : ~bgPending'[r] => left'[r] = 0
      BY <1>6 DEF PoolInv, Finish
    <2> QED
      BY <2>2, <2>3, <2>4, <2>5 DEF Finish
  <1>14. LockInv'
    <2>1. \A u \in Holder : StoreOf(u)' = StoreOf(u)
      BY <1>5 DEF StoreOf
    <2>2. ASSUME NEW u \in Worker \cup Store, At'[u] \in Locking
          PROVE  /\ lock'[StoreOf(u)'] = u /\ bgPending'[StoreOf(u)']
                 /\ At'[u] = "queue" => toQueue'[StoreOf(u)'] > 0
                 /\ At'[u] = "unlock" => toQueue'[StoreOf(u)'] = 0
      <3>1. CASE u = t
        BY <1>2, <1>4, <1>6, <2>1, <3>1
      <3>2. CASE u # t
        <4>1. At'[u] = At[u] /\ StoreOf(u) \in Store \ {s} /\ At[u] \in Locking
          BY <1>4, <1>9, <2>2, <3>2 DEF Holder
        <4> QED
          BY <1>6, <2>1, <4>1 DEF PoolInv, LockInv, Holder
      <3> QED
        BY <3>1, <3>2
    <2>3. \A r \in Store : toQueue'[r] > 0 => lock'[r] # Free
      BY <1>3, <1>6 DEF PoolInv, LockInv
    <2>4. ASSUME NEW r \in Store, lock'[r] # Free
          PROVE  lock'[r] \in Worker \cup Store /\ At'[lock'[r]] \in Locking /\ StoreOf(lock[r])' = r
      <3>1. CASE r = s
        <4>1. StoreOf(lock[r])' = StoreOf(t)'
          BY <1>6, <3>1 DEF StoreOf
        <4> QED
          BY <1>4, <1>6, <2>1, <3>1, <4>1 DEF Holder, Locking
      <3>2. CASE r # s
        <4>1. lock'[r] = lock[r]
          BY <1>6, <3>2
        <4>2. PICK u \in Holder : u = lock[r] /\ At[u] \in Locking /\ StoreOf(u) = r
          BY <2>4, <4>1 DEF PoolInv, LockInv, Holder
        <4>3. StoreOf(lock[r])' = StoreOf(u)'
          BY <4>1, <4>2 DEF StoreOf
        <4> QED
          BY <1>4, <1>9, <2>1, <4>1, <4>2, <4>3 DEF Holder
      <3> QED
        BY <3>1, <3>2
    <2> QED
      BY <2>2, <2>3, <2>4 DEF LockInv
  <1>15. Carry'
    BY <1>4, <1>5, <1>7 DEF PoolInv, Carry, Holder
  <1>16. Closing'
    <2>1. /\ \A r \in Store : At'[r] \in Out => At'[r] = At[r]
          /\ \A r \in Store : At[r] \in Out => At'[r] = At[r]
          /\ \A r \in Store : At[r] \in Out => r # s
      BY <1>4, <1>8, Names DEF Out, StopPc, Holder
    <2>2. /\ \A r \in Store : At'[r] \in Out => ~bgPending'[r]
          /\ \A r \in Store : At'[r] \in StopPc => ownsPool'
      BY <1>5, <1>6, <2>1 DEF PoolInv, Closing, Out
    <2>3. \A r \in deleted' : At'[r] = "closed"
      BY <1>5, <2>1 DEF PoolInv, Closing, PoolType, Out
    <2>4. ownsPool' => \A q, r \in Store : q # r => At'[q] = "absent" \/ At'[r] = "absent"
      BY <1>5, <2>1 DEF PoolInv, Closing, Out
    <2>5. At'[Main] # "main" => \A r \in Store : At'[r] = "closed"
      BY <1>4, <2>1 DEF PoolInv, Closing, Out
    <2> QED
      BY <1>5, <1>8, <2>2, <2>3, <2>4, <2>5 DEF Closing
  <1> QED
    BY <1>10, <1>11, <1>12, <1>13, <1>14, <1>15, <1>16 DEF PoolInv

-----------------------------------------------------------------------------
(* The clients, and who stops the pool.                                    *)

\* A caller that neither has nor takes a lock leaves locks, count and threads alone.
LEMMA CallerMoves ==
  ASSUME PoolInv, NEW t \in Caller, At[t] \notin Locking, NEW p, p \notin Locking, Moves(t, p),
         UNCHANGED <<isBusy, holds, lock, bgPending, left, toQueue>>,
         queue' \in Seq(Job), \A r \in Store : Occ(queue', r) = Occ(queue, r),
         deleted' \subseteq Store, t = Main => p \in {"main", "stopped"} \cup StopPc,
         t # Main => p \in Calling \cup Out, Closing'
  PROVE  PoolInv'
  <1>1. t \notin Worker /\ t \in Thread /\ (t = Main \/ t \in Store)
    BY PoolAssumption, StorePoolAssumption DEF Thread, Store
  <1>2. /\ \A w \in Worker : At'[w] = At[w]
        /\ \A u \in Store \cup {Main} : u # t => At'[u] = At[u]
        /\ At'[t] = p
    BY <1>1, Names DEF Moves
  <1>3. PoolType'
    BY DEF PoolInv, PoolType
  <1>4. Places'
    <2>1. At'[Main] \in {"main", "stopped"} \cup StopPc
      BY <1>1, <1>2 DEF PoolInv, Places
    <2>2. ASSUME NEW s \in Store PROVE At'[s] \in Calling \cup Locking \cup Out
      <3>1. CASE s = t
        BY <1>2, <3>1, Names
      <3>2. CASE s # t
        BY <1>2, <3>2 DEF PoolInv, Places
      <3> QED
        BY <3>1, <3>2
    <2>3. \A w \in Worker : At'[w] \in {"none", "top", "enter", "exited"} \cup Carrying
      BY <1>2 DEF PoolInv, Places
    <2> QED
      BY <2>1, <2>2, <2>3 DEF Places
  <1>5. Balance'
    <2>1. \A r \in Store : Runners(r)' = Runners(r)
      BY <1>2 DEF Runners
    <2>2. ASSUME NEW r \in Store
          PROVE  left'[r] = toQueue'[r] + Occ(queue', r) + Cardinality(Runners(r)')
      <3>1. left[r] = toQueue[r] + Occ(queue, r) + Cardinality(Runners(r))
        BY DEF PoolInv, Balance
      <3> QED
        BY <2>1, <3>1
    <2> QED
      BY <2>2 DEF Balance
  <1>6. Finish'
    BY <1>2, FinishKept DEF PoolInv
  <1>7. LockInv'
    <2>1. \A u \in Worker \cup Store : At[u] \in Locking \/ At'[u] \in Locking => At'[u] = At[u]
      BY <1>2
    <2>2. \A u \in Worker \cup Store : StoreOf(u)' = StoreOf(u)
      BY DEF StoreOf
    <2> QED
      BY <2>1, <2>2, LockKept DEF PoolInv
  <1>8. Carry'
    BY <1>2 DEF PoolInv, Carry
  <1> QED
    BY <1>3, <1>4, <1>5, <1>6, <1>7, <1>8 DEF PoolInv

\* Within TSInsert and TSClose.
LEMMA CallMoves ==
  ASSUME PoolInv, NEW s \in Store, At[s] \in Calling, NEW p \in Calling, Moves(s, p),
         UNCHANGED <<poolVars, ownsPool, mergeVars, deleted>>
  PROVE  PoolInv'
  <1>1. /\ s \in Caller /\ s # Main /\ p \notin Locking /\ At[s] \notin Locking
        /\ p \notin Out /\ At[s] \notin Out
    BY StorePoolAssumption, Names DEF Store, Calling, Locking, Out, StopPc
  <1>2. /\ At'[s] = p /\ At'[Main] = At[Main]
        /\ \A r \in Store \ {s} : At'[r] = At[r]
    BY Names DEF Moves
  <1>3. ~shouldTerminate
    BY <1>1 DEF PoolInv, Closing
  <1>4. Closing'
    BY <1>1, <1>2, <1>3, ClosingMoves DEF PoolInv, poolVars, mergeVars
  <1>5. queue' \in Seq(Job) /\ deleted' \subseteq Store /\ \A r \in Store : Occ(queue', r) = Occ(queue, r)
    BY DEF PoolInv, PoolType, poolVars
  <1> QED
    BY <1>1, <1>4, <1>5, CallerMoves DEF poolVars, mergeVars

LEMMA PoolClient ==
  ASSUME OwnInv, PoolInv, NEW s \in Store,
         TSInsert(s) \/ TSClose(s) \/ InsertFull(s) \/ InsertWait(s)
  PROVE  PoolInv'
  <1>0. s \in Thread /\ s \in Holder /\ s \notin Worker /\ StoreOf(s) = s
    BY Names DEF Holder, StoreOf
  <1>1. CASE TSInsert(s) \/ TSClose(s)
    <2>1. PICK p \in {"insert", "close"} : Call(s, p)
      BY <1>1 DEF TSInsert, TSClose
    <2>2. At[s] = "idle" /\ Moves(s, p)
      BY <1>0, <2>1, AtOf, AtGoto, PlaceOf DEF Call
    <2> QED
      BY <2>1, <2>2, CallMoves DEF Call, Calling
  <1>2. CASE InsertFull(s)
    <2>1. At[s] = "insert" /\ lock[s] = Free
      BY <1>0, <1>2, AtOf DEF InsertFull
    <2>2. CASE bgPending[s]
      <3>1. Moves(s, "wait")
        BY <1>0, <1>2, <2>2, AtGoto, PlaceOf DEF InsertFull
      <3> QED
        BY <1>2, <2>1, <2>2, <3>1, CallMoves DEF InsertFull, Calling
    <2>3. CASE ~bgPending[s] /\ merges < MaxMerges
      BY <1>0, <1>2, <2>1, <2>3, PoolTriggers DEF InsertFull
    <2>4. CASE ~bgPending[s] /\ ~(merges < MaxMerges)
      <3>1. Moves(s, "idle")
        BY <1>0, <1>2, <2>4, AtGoto, PlaceOf DEF InsertFull
      <3> QED
        BY <1>2, <2>1, <2>4, <3>1, CallMoves DEF InsertFull, Calling
    <2> QED
      BY <2>2, <2>3, <2>4
  <1>3. CASE InsertWait(s)
    <2>1. At[s] = "wait"
      BY <1>0, <1>3 DEF InsertWait, WaitForBgMerge, At, Place
    <2>2. PICK p \in {"waiting", "insert"} : Goto(s, p)
      BY <1>3 DEF InsertWait, WaitForBgMerge
    <2>3. Moves(s, "wait") \/ Moves(s, "insert")
      BY <1>0, <2>2, AtGoto, PlaceOf
    <2> QED
      BY <1>3, <2>1, <2>3, CallMoves DEF InsertWait, WaitForBgMerge, Calling
  <1> QED
    BY <1>1, <1>2, <1>3

LEMMA PoolDrains ==
  ASSUME OwnInv, PoolInv, NEW s \in Store, Drain(s)
  PROVE  PoolInv'
  <1>0. s \in Thread /\ s \in Caller /\ s # Main /\ At[s] = "close"
    BY Names, StorePoolAssumption DEF Store, Drain, WaitForBgMerge, At, Place
  <1>1. CASE bgPending[s]
    <2>1. Moves(s, "close")
      BY <1>0, <1>1, AtGoto, PlaceOf DEF Drain, WaitForBgMerge
    <2> QED
      BY <1>0, <2>1, CallMoves DEF Drain, WaitForBgMerge, Calling
  <1>2. CASE ~bgPending[s]
    <2>1. PICK p \in {"stop", "free"} : Goto(s, p) /\ (p = "stop" => ownsPool)
      BY <1>2 DEF Drain, WaitForBgMerge, AfterDrain
    <2>2. Moves(s, p)
      BY <1>0, <2>1, AtGoto, PlaceOf
    <2>3. /\ At'[s] = p /\ At'[Main] = At[Main]
          /\ \A r \in Store \ {s} : At'[r] = At[r]
      BY <1>0, <2>2, Names DEF Moves
    <2>4. UNCHANGED <<queue, shouldTerminate, isBusy, holds, ownsPool, lock, bgPending, left, toQueue,
                      deleted>>
      BY DEF Drain, WaitForBgMerge, poolVars, mergeVars
    <2>5. Closing'
      <3>1. "close" \notin Out /\ p \in Out /\ (p \in StopPc => ownsPool)
        BY <2>1 DEF Out, StopPc
      <3>2. ~shouldTerminate /\ At[Main] = "main" /\ s \notin deleted
        BY <1>0, <3>1 DEF PoolInv, Closing
      <3>3. ownsPool => \A r \in Store \ {s} : At[r] = "absent"
        BY <1>0 DEF PoolInv, Closing
      <3>4. ownsPool' => \A q, r \in Store : q # r => At'[q] = "absent" \/ At'[r] = "absent"
        BY <2>3, <2>4, <3>3
      <3>5. ASSUME NEW r \in Store
            PROVE  (At'[r] \in Out => ~bgPending'[r]) /\ (At'[r] \in StopPc => ownsPool')
        <4>1. CASE r = s
          BY <1>2, <2>3, <2>4, <3>1, <4>1
        <4>2. CASE r # s
          BY <2>3, <2>4, <4>2 DEF PoolInv, Closing
        <4> QED
          BY <4>1, <4>2
      <3>6. \A r \in deleted' : At'[r] = "closed"
        BY <2>3, <2>4, <3>2 DEF PoolInv, PoolType, Closing
      <3> QED
        BY <2>3, <2>4, <3>2, <3>4, <3>5, <3>6 DEF Closing
    <2>6. /\ queue' \in Seq(Job) /\ deleted' \subseteq Store
          /\ \A r \in Store : Occ(queue', r) = Occ(queue, r)
      BY <2>4 DEF PoolInv, PoolType
    <2>7. p \notin Locking /\ At[s] \notin Locking /\ p \in Out
      BY <1>0, <2>1 DEF Locking, Out, StopPc
    <2> QED
      BY <1>0, <2>2, <2>4, <2>5, <2>6, <2>7, CallerMoves
  <1> QED
    BY <1>1, <1>2

LEMMA PoolFrees ==
  ASSUME OwnInv, PoolInv, NEW s \in Store, FreeStore(s)
  PROVE  PoolInv'
  <1>1. /\ s \in Caller /\ s # Main /\ At[s] = "free" /\ Moves(s, "closed")
        /\ deleted' = deleted \cup {s}
    BY Names, StorePoolAssumption, AtOf, AtGoto, PlaceOf DEF Store, FreeStore
  <1>2. /\ At'[s] = "closed" /\ At'[Main] = At[Main]
        /\ \A r \in Store \ {s} : At'[r] = At[r]
    BY <1>1, Names DEF Moves
  <1>3. /\ UNCHANGED <<queue, shouldTerminate, isBusy, holds, ownsPool, lock, bgPending, left, toQueue>>
        /\ deleted' \subseteq Store /\ queue' \in Seq(Job)
        /\ \A r \in Store : Occ(queue', r) = Occ(queue, r)
    BY <1>1 DEF FreeStore, poolVars, mergeVars, PoolInv, PoolType
  <1>4. "closed" \in Out /\ "free" \in Out /\ "closed" \notin Locking /\ "free" \notin Locking
        /\ "closed" \notin StopPc
    BY DEF Out, Locking, StopPc
  <1>5. Closing'
    <2>1. ASSUME NEW r \in Store
          PROVE  (At'[r] \in Out => ~bgPending'[r]) /\ (At'[r] \in StopPc => ownsPool')
      <3>1. CASE r = s
        BY <1>1, <1>2, <1>3, <1>4, <3>1 DEF PoolInv, Closing
      <3>2. CASE r # s
        BY <1>2, <1>3, <3>2 DEF PoolInv, Closing
      <3> QED
        BY <3>1, <3>2
    <2>2. \A r \in deleted' : At'[r] = "closed"
      BY <1>1, <1>2 DEF PoolInv, PoolType, Closing
    <2>3. ownsPool' => \A q, r \in Store : q # r => At'[q] = "absent" \/ At'[r] = "absent"
      BY <1>1, <1>2, <1>3 DEF PoolInv, Closing
    <2>4. At'[Main] # "main" => \A r \in Store : At'[r] = "closed"
      BY <1>2 DEF PoolInv, Closing
    <2>5. shouldTerminate' => \A r \in Store : At'[r] \in Out
      BY <1>2, <1>3, <1>4 DEF PoolInv, Closing
    <2> QED
      BY <2>1, <2>2, <2>3, <2>4, <2>5 DEF Closing
  <1> QED
    BY <1>1, <1>3, <1>4, <1>5, CallerMoves

\* The pool is stopped by the client of the store it belongs to, when that store has no
\* merge in flight, or by its owner, when every store is closed.
LEMMA PoolStops ==
  ASSUME OwnInv, PoolInv, NEW t \in Caller, StopPool(t)
  PROVE  PoolInv'
  <1>0. t \in Thread /\ (t = Main \/ t \in Store) /\ t \notin Worker
    BY PoolAssumption, StorePoolAssumption DEF Thread, Store
  <1>1. /\ UNCHANGED <<isBusy, holds, ownsPool, lock, bgPending, left, toQueue, deleted>>
        /\ deleted \subseteq Store /\ queue \in Seq(Job)
    BY DEF StopPool, Stop, StopNotify, Join, poolVars, mergeVars, PoolInv, PoolType
  <1>2. PICK p \in {"stopping", "join", "free", "stopped"} :
          /\ Moves(t, p) /\ At[t] \in StopPc
          /\ p = "free" => t # Main
          /\ p = "stopped" => t = Main
          /\ p = "stopping" => queue' = <<>> /\ shouldTerminate'
          /\ p # "stopping" => UNCHANGED <<queue, shouldTerminate>>
    <2>1. CASE Stop(t)
      <3>1. At[t] = "stop" /\ Moves(t, "stopping")
        BY <1>0, <2>1, AtOf, AtGoto, PlaceOf DEF Stop
      <3> QED
        BY <2>1, <3>1 DEF Stop, StopPc
    <2>2. CASE StopNotify(t)
      <3>1. At[t] = "stopping"
        BY <1>0, <2>2, AtOf DEF StopNotify
      <3>2. \A u \in Thread : pc'[u] = IF u = t THEN "join"
                             ELSE IF pc[u] = "asleep" THEN "enter"
                             ELSE IF pc[u] = "full" THEN "queue" ELSE pc[u]
        BY <2>2 DEF StopNotify
      <3>3. \A u \in Thread : At'[u] = Place(pc'[u]) /\ At[u] = Place(pc[u])
        BY DEF At
      <3>4. At'[t] = "join"
        BY <1>0, <3>2, <3>3, PlaceOf
      <3>5. ASSUME NEW u \in Thread \ {t} PROVE At'[u] = At[u]
        <4>1. CASE pc[u] = "asleep"
          BY <3>2, <3>3, <4>1, PlaceOf
        <4>2. CASE pc[u] = "full"
          BY <3>2, <3>3, <4>2, PlaceOf
        <4>3. CASE pc[u] \notin {"asleep", "full"}
          BY <3>2, <3>3, <4>3
        <4> QED
          BY <4>1, <4>2, <4>3
      <3>6. Moves(t, "join")
        BY <3>4, <3>5 DEF Moves
      <3> QED
        BY <2>2, <3>1, <3>6 DEF StopNotify, StopPc, poolVars
    <2>3. CASE Join(t, IF t = Main THEN "stopped" ELSE "free")
      <3>1. At[t] = "join"
        BY <1>0, <2>3, AtOf DEF Join
      <3>2. CASE t = Main
        BY <1>0, <2>3, <3>1, <3>2, AtGoto, PlaceOf DEF Join, StopPc, poolVars
      <3>3. CASE t # Main
        BY <1>0, <2>3, <3>1, <3>3, AtGoto, PlaceOf DEF Join, StopPc, poolVars
      <3> QED
        BY <3>2, <3>3
    <2> QED
      BY <2>1, <2>2, <2>3 DEF StopPool
  <1>3. At'[t] = p /\ \A u \in Store \cup {Main} : u # t => At'[u] = At[u]
    BY <1>2, Names DEF Moves
  <1>4. /\ StopPc \cup {"absent", "free", "closed"} = Out /\ p \notin Locking /\ At[t] \notin Locking
        /\ "main" \notin StopPc /\ "closed" \notin StopPc /\ "absent" \notin StopPc
        /\ p \in StopPc \cup {"free", "stopped"} /\ "stopped" \notin Out
    BY <1>2 DEF Out, StopPc, Locking
  <1>5. \A s \in Store : At[s] \in Out
    <2>1. CASE t = Main
      BY <1>2, <1>4, <2>1 DEF PoolInv, Closing
    <2>2. CASE t \in Store
      <3>1. ownsPool /\ At[t] # "absent"
        BY <1>2, <1>4, <2>2 DEF PoolInv, Closing
      <3>2. \A s \in Store \ {t} : At[s] = "absent"
        BY <2>2, <3>1 DEF PoolInv, Closing
      <3> QED
        BY <1>2, <1>4, <3>2
    <2> QED
      BY <1>0, <2>1, <2>2
  <1>6. /\ queue' \in Seq(Job)
        /\ \A s \in Store : Occ(queue', s) = Occ(queue, s)
    <2>1. CASE p = "stopping"
      <3>1. ASSUME NEW s \in Store PROVE Occ(queue, s) = 0
        <4>1. left[s] = 0
          BY <1>5 DEF PoolInv, Closing, Finish
        <4>2. /\ left[s] = toQueue[s] + Occ(queue, s) + Cardinality(Runners(s))
              /\ toQueue[s] \in Nat /\ Occ(queue, s) \in Nat /\ Cardinality(Runners(s)) \in Nat
          BY <1>1, SlotsFinite, RunnersFinite DEF PoolInv, PoolType, Balance
        <4> QED
          BY <4>1, <4>2
      <3>2. \A s \in Store : Occ(queue', s) = 0
        BY <1>2, <2>1, OccEmpty
      <3> QED
        BY <1>2, <2>1, <3>1, <3>2
    <2>2. CASE p # "stopping"
      BY <1>1, <1>2, <2>2
    <2> QED
      BY <2>1, <2>2
  <1>7. Closing'
    <2>1. \A s \in Store : At'[s] \in Out
      BY <1>0, <1>2, <1>3, <1>4, <1>5, Names
    <2>2. \A s \in Store : ~bgPending'[s]
      BY <1>1, <1>5 DEF PoolInv, Closing
    <2>3. \A s \in Store : At'[s] \in StopPc => ownsPool'
      <3>1. t \in Store => ownsPool
        BY <1>2 DEF PoolInv, Closing
      <3> QED
        BY <1>1, <1>3, <3>1 DEF PoolInv, Closing
    <2>4. \A s \in deleted' : At'[s] = "closed"
      <3>1. \A s \in deleted : s \in Store /\ s # t /\ At[s] = "closed"
        BY <1>1, <1>2, <1>4 DEF PoolInv, Closing
      <3> QED
        BY <1>1, <1>3, <3>1
    <2>5. ownsPool' => \A q, r \in Store : q # r => At'[q] = "absent" \/ At'[r] = "absent"
      <3>1. \A s \in Store : At[s] = "absent" => At'[s] = "absent"
        BY <1>2, <1>3, <1>4
      <3> QED
        BY <1>1, <3>1 DEF PoolInv, Closing
    <2>6. At'[Main] # "main" => \A s \in Store : At'[s] = "closed"
      <3>1. At[Main] # "main" => \A s \in Store : s # t /\ At[s] = "closed"
        BY <1>2, <1>4 DEF PoolInv, Closing
      <3>2. At'[Main] # "main" => At[Main] # "main"
        BY <1>2, <1>3, <1>4
      <3> QED
        BY <1>3, <3>1, <3>2
    <2> QED
      BY <2>1, <2>2, <2>3, <2>4, <2>5, <2>6 DEF Closing
  <1>8. /\ t = Main => p \in {"main", "stopped"} \cup StopPc
        /\ t # Main => p \in Calling \cup Out
    BY <1>2, <1>4
  <1> QED
    BY <1>1, <1>2, <1>4, <1>6, <1>7, <1>8, CallerMoves

LEMMA PoolMain ==
  ASSUME OwnInv, PoolInv, MainStops
  PROVE  PoolInv'
  <1>1. /\ Main \in Caller /\ At[Main] = "main" /\ Moves(Main, "stop") /\ ~ownsPool
        /\ \A s \in Store : At[s] = "closed"
        /\ UNCHANGED <<queue, shouldTerminate, isBusy, holds, ownsPool, lock, bgPending, left, toQueue,
                      deleted>>
    BY Names, StorePoolAssumption, AtOf, AtGoto, PlaceOf DEF MainStops, poolVars, mergeVars
  <1>2. \A s \in Store : At'[s] = At[s]
    BY <1>1, Names DEF Moves
  <1>3. "main" \notin Locking /\ "stop" \notin Locking /\ "stop" \in StopPc
        /\ "closed" \notin StopPc /\ "closed" \in Out
    BY DEF Locking, StopPc, Out
  <1>4. Closing'
    BY <1>1, <1>2, <1>3 DEF PoolInv, PoolType, Closing
  <1> QED
    BY <1>1, <1>3, <1>4, CallerMoves DEF PoolInv, PoolType

-----------------------------------------------------------------------------

LEMMA PoolStepKept ==
  OwnInv /\ PoolInv /\ [Next]_vars => PoolInv'
  <1> SUFFICES ASSUME OwnInv, PoolInv, [Next]_vars PROVE PoolInv'
    OBVIOUS
  <1>1. ASSUME NEW w \in Worker, WorkerStep(w) PROVE PoolInv'
    <2>1. CASE PoolStep(w)
      BY <2>1, PoolLoops, PoolTakes, PoolTook DEF PoolStep
    <2>2. CASE Chain(w)
      <3>1. At[w] = "final" /\ w \in Holder
        BY <2>2, Names, AtOf DEF Chain, Holder
      <3>2. holds[w] \in Store /\ StoreOf(w) = holds[w]
        BY <3>1, Carried DEF Carrying, Finishing
      <3> QED
        BY <2>2, <3>1, <3>2, Names, PoolTriggers DEF Chain
    <2>3. CASE QueueSlice(w) \/ QueuedSlice(w) \/ Unlock(w)
      BY <2>3, PoolQueues, PoolQueued, PoolUnlocks DEF Holder
    <2> QED
      BY <1>1, <2>1, <2>2, <2>3, PoolRuns, PoolFinalizes, PoolClears, PoolSignals DEF WorkerStep
  <1>2. ASSUME NEW s \in Store, TSInsert(s) \/ TSClose(s) \/ ClientStep(s) PROVE PoolInv'
    <2>1. s \in Holder /\ s \in Caller
      BY StorePoolAssumption DEF Holder, Store
    <2> QED
      BY <1>2, <2>1, PoolClient, PoolQueues, PoolQueued, PoolUnlocks, PoolDrains, PoolStops, PoolFrees
      DEF ClientStep
  <1>3. CASE MainStep
    BY <1>3, PoolMain, PoolStops, StorePoolAssumption DEF MainStep
  <1>4. CASE Done \/ UNCHANGED vars
    <2>1. /\ UNCHANGED <<pc, queue, shouldTerminate, isBusy, holds, ownsPool, lock, bgPending, left,
                        toQueue, deleted>>
      BY <1>4 DEF Done, vars, poolVars, mergeVars
    <2>2. UNCHANGED At
      BY <2>1 DEF At
    <2> QED
      BY <2>1, <2>2
      DEF PoolInv, PoolType, Places, Balance, Runners, Finish, LockInv, StoreOf, Carry, Closing
  <1> QED
    BY <1>1, <1>2, <1>3, <1>4, PoolStarts DEF Next

\* pendingSlices of a store is the number of its slices that are still to be queued, in
\* the queue or with a thread; one thread finalizes a merge, when the number is zero.
THEOREM SlicesCounted == Spec => [](Balance /\ Finish)
  <1>1. PoolInv => Balance /\ Finish
    BY DEF PoolInv
  <1> QED
    BY OwnInit, OwnStep, PoolInit, PoolStepKept, <1>1, PTL DEF Spec

\* While the pool runs, IsBusy answers no only when no merge is in flight, or when its
\* client still holds the lock and has queued none of its slices: isBusy is set before
\* the mutex is released, and is cleared only after bgPending.
THEOREM IdlePoolDone == Spec => []IdleMeansDone
  <1>1. OwnInv /\ PoolInv => IdleMeansDone
    <2> SUFFICES ASSUME OwnInv, PoolInv, queue = <<>>, \A w \in Worker : ~isBusy[w],
                        NEW s \in Store, bgPending[s]
                 PROVE  lock[s] = s /\ toQueue[s] = left[s]
      BY DEF IdleMeansDone, IsBusy
    <2>1. \A w \in Worker : At[w] \notin Carrying
      BY DEF PoolInv, Carry
    <2>2. Runners(s) = {}
      BY <2>1 DEF Runners, Carrying
    <2>3. Occ(queue, s) = 0 /\ Cardinality(Runners(s)) = 0
      BY <2>2, OccEmpty, FS_EmptySet
    <2>4. left[s] = toQueue[s] /\ toQueue[s] \in Nat
      BY <2>3 DEF PoolInv, PoolType, Balance
    <2>5. left[s] # 0
      BY <2>1 DEF PoolInv, Finish, Carrying
    <2>6. lock[s] \in Worker \cup Store /\ At[lock[s]] \in Locking /\ StoreOf(lock[s]) = s
      BY <2>4, <2>5 DEF PoolInv, LockInv
    <2>7. lock[s] \notin Worker
      BY <2>1, <2>6 DEF Carrying
    <2> QED
      BY <2>4, <2>6, <2>7 DEF StoreOf
  <1> QED
    BY OwnInit, OwnStep, PoolInit, PoolStepKept, <1>1, PTL DEF Spec

\* Once TSClose has deleted a store, nothing of it is queued and no thread works for
\* it, save the one that is about to call notify_all when the pool is shared: TSClose
\* waits for bgPending, which is set for as long as a slice is anywhere.
THEOREM ClosedStoreDrained == Spec => []ClosedIsDrained
  <1>1. OwnInv /\ PoolInv => ClosedIsDrained
    <2> SUFFICES ASSUME OwnInv, PoolInv, NEW s \in deleted
                 PROVE  /\ \A i \in 1..Len(queue) : queue[i] # s
                        /\ \A w \in Worker : WorksFor(w, s) => ~ownsPool /\ pc[w] = "signal"
      BY DEF ClosedIsDrained
    <2>1. s \in Store /\ ~bgPending[s] /\ left[s] = 0
      BY DEF PoolInv, PoolType, Closing, Finish, Out
    <2>2. /\ left[s] = toQueue[s] + Occ(queue, s) + Cardinality(Runners(s))
          /\ toQueue[s] \in Nat /\ queue \in Seq(Job)
      BY <2>1 DEF PoolInv, PoolType, Balance
    <2>3. Occ(queue, s) = 0 /\ Runners(s) = {} /\ IsFiniteSet(Slots(queue, s))
      BY <2>1, <2>2, SlotsFinite, RunnersFinite
    <2>4. Slots(queue, s) = {}
      BY <2>3, FS_EmptySet DEF Occ
    <2>5. ASSUME NEW w \in Worker, WorksFor(w, s)
          PROVE  ~ownsPool /\ pc[w] = "signal"
      <3>1. holds[w] = s /\ pc[w] \notin {"top", "exited"} /\ w \in Thread /\ holds[w] # NoJob
        BY <2>1, <2>5, Names DEF WorksFor
      <3>2. At[w] \in Carrying
        BY <3>1, AtOf DEF PoolInv, Places, Carry
      <3>3. At[w] \notin Running
        BY <2>3, <3>1 DEF Runners
      <3>4. At[w] \notin Finishing
        BY <2>1, <3>1 DEF PoolInv, Finish
      <3>5. At[w] \notin Locking
        BY <2>1, <3>1 DEF PoolInv, LockInv, StoreOf
      <3>6. pc[w] = "signal"
        BY <3>1, <3>2, <3>3, <3>4, <3>5, AtOf DEF Carrying
      <3> QED
        BY <3>6 DEF OwnInv, Gone
    <2> QED
      BY <2>4, <2>5 DEF Slots
  <1> QED
    BY OwnInit, OwnStep, PoolInit, PoolStepKept, <1>1, PTL DEF Spec
=============================================================================
