--------------------------- MODULE StorePoolProps ---------------------------
(***************************************************************************)
(* What pool and stores promise each other.                                *)
(***************************************************************************)
EXTENDS StorePool

\* While the pool runs and IsBusy answers no, nothing it was given is undone: no merge
\* of any store is in flight, unless its client is still queueing slices.
IdleMeansDone ==
  isStarted /\ ~IsBusy =>
    \A s \in Store : bgPending[s] => lock[s] = s /\ toQueue[s] = left[s]

\* The thread of the pool that is inside TSI_FinalizeJob, or has slices to do, of store s.
WorksFor(w, s) == holds[w] = s /\ pc[w] \notin {"top", "exited"}

\* A closed store is out of the pool: nothing of it is queued and no thread works for
\* it, except that with a shared pool the thread that just cleared bgPending may not
\* have called notify_all yet.
ClosedIsDrained ==
  \A s \in deleted :
    /\ \A i \in 1..Len(queue) : queue[i] # s
    /\ \A w \in Worker : WorksFor(w, s) => ~ownsPool /\ pc[w] = "signal"

\* Nobody signals on a condition variable that TSI_FreeStore has deleted.
SignalsLiveStore == \A w \in Worker : pc[w] = "signal" => holds[w] \notin deleted

\* A TSClose that was called returns, and so does an insert that waits for a merge.
CallsReturn ==
  \A s \in Store : /\ pc[s] = "close" ~> pc[s] = "closed"
                   /\ pc[s] = "wait" ~> pc[s] \in {"idle", "queue"}
=============================================================================
