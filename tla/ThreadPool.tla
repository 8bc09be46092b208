----------------------------- MODULE ThreadPool -----------------------------
(***************************************************************************)
(* ThreadPool of Utility: a bounded queue of jobs, the threads that run    *)
(* them, and the two condition variables between them.  One action is one  *)
(* critical section of queue_mutex or one step outside it; a notify is a   *)
(* step of its own, made after the mutex was released.                     *)
(*                                                                         *)
(* What a job does is left to the module that composes the pool: a thread  *)
(* that runs one is at "run", and a thread, of the pool or of a caller, at *)
(* "queue" is about to call QueueJob.                                      *)
(***************************************************************************)
EXTENDS Naturals, Sequences, FiniteSets

CONSTANTS
  Worker,          \* threads of the pool
  Caller,          \* threads that queue jobs or stop the pool
  Job,
  NoJob,
  MaxQueueDepth    \* MAX_QUEUE_DEPTH

ASSUME PoolAssumption ==
  /\ Worker \cap Caller = {} /\ IsFiniteSet(Worker)
  /\ NoJob \notin Job
  /\ MaxQueueDepth \in Nat \ {0}

Thread == Worker \cup Caller

VARIABLES
  queue,            \* jobs
  isStarted,
  shouldTerminate,
  isBusy,           \* isBusyArray
  holds,            \* the job a worker has taken
  pc                \* where each thread is

poolVars == <<queue, isStarted, shouldTerminate, isBusy, holds>>

WorkerPc == {"none", "top", "enter", "asleep", "took", "run", "exited"}
QueuePc  == {"queue", "full", "pushed"}
StopPc   == {"stop", "stopping", "join"}

Goto(t, there) == pc' = [pc EXCEPT ![t] = there]

\* notify_one and notify_all by t, which goes on at next: threads that sleep at
\* from are woken and test their predicate again at to.
NotifyOne(t, from, to, next) ==
  IF \E u \in Thread : pc[u] = from
  THEN \E u \in Thread : pc[u] = from /\ pc' = [pc EXCEPT ![u] = to, ![t] = next]
  ELSE Goto(t, next)

-----------------------------------------------------------------------------
(* Start                                                                   *)

StartThread(w) ==
  /\ pc[w] = "none"
  /\ Goto(w, "top")
  /\ UNCHANGED poolVars

Started ==
  /\ ~isStarted /\ ~shouldTerminate
  /\ \A w \in Worker : pc[w] # "none"
  /\ isStarted' = TRUE
  /\ UNCHANGED <<queue, shouldTerminate, isBusy, holds, pc>>

-----------------------------------------------------------------------------
(* ThreadLoop                                                              *)

\* The flag is cleared outside the mutex.
LoopTop(w) ==
  /\ pc[w] = "top"
  /\ isBusy' = [isBusy EXCEPT ![w] = FALSE]
  /\ holds' = [holds EXCEPT ![w] = NoJob]
  /\ Goto(w, "enter")
  /\ UNCHANGED <<queue, isStarted, shouldTerminate>>

\* Bug: the flag is set after the mutex has been released.
TakeJob_LateFlag(w) ==
  /\ pc[w] = "enter"
  /\ IF shouldTerminate THEN Goto(w, "exited") /\ UNCHANGED <<queue, isBusy, holds>>
     ELSE IF queue = <<>> THEN Goto(w, "asleep") /\ UNCHANGED <<queue, isBusy, holds>>
     ELSE /\ queue' = Tail(queue)
          /\ holds' = [holds EXCEPT ![w] = Head(queue)]
          /\ Goto(w, "took")
          /\ UNCHANGED isBusy
  /\ UNCHANGED <<isStarted, shouldTerminate>>

TakeJob(w) ==
  /\ pc[w] = "enter"
  /\ IF shouldTerminate THEN Goto(w, "exited") /\ UNCHANGED <<queue, isBusy, holds>>
     ELSE IF queue = <<>> THEN Goto(w, "asleep") /\ UNCHANGED <<queue, isBusy, holds>>
     ELSE /\ queue' = Tail(queue)
          /\ holds' = [holds EXCEPT ![w] = Head(queue)]
          /\ isBusy' = [isBusy EXCEPT ![w] = TRUE]
          /\ Goto(w, "took")
  /\ UNCHANGED <<isStarted, shouldTerminate>>

\* queue_not_full.notify_one()
TookJob(w) ==
  /\ pc[w] = "took"
  /\ NotifyOne(w, "full", "queue", "run")
  /\ UNCHANGED poolVars

-----------------------------------------------------------------------------
(* QueueJob(j) by thread t: a job that comes after Stop is dropped without *)
(* a word, and the call returns at next.                                   *)

QueueJob(t, j, next) ==
  /\ pc[t] = "queue"
  /\ IF shouldTerminate THEN Goto(t, next) /\ UNCHANGED queue
     ELSE IF Len(queue) < MaxQueueDepth
     THEN Goto(t, "pushed") /\ queue' = Append(queue, j)
     ELSE Goto(t, "full") /\ UNCHANGED queue
  /\ UNCHANGED <<isStarted, shouldTerminate, isBusy, holds>>

\* Bug: nobody is told of the new job.
QueuedJob_Silent(t, next) ==
  /\ pc[t] = "pushed"
  /\ Goto(t, next)
  /\ UNCHANGED poolVars

\* mutex_condition.notify_one()
QueuedJob(t, next) ==
  /\ pc[t] = "pushed"
  /\ NotifyOne(t, "asleep", "enter", next)
  /\ UNCHANGED poolVars

-----------------------------------------------------------------------------
(* Stop by thread t; IsBusy                                                *)

\* isStarted is cleared just before the critical section; only IsBusy reads it.
Stop(t) ==
  /\ pc[t] = "stop"
  /\ isStarted' = FALSE
  /\ shouldTerminate' = TRUE
  /\ queue' = <<>>
  /\ Goto(t, "stopping")
  /\ UNCHANGED <<isBusy, holds>>

StopNotify(t) ==
  /\ pc[t] = "stopping"
  /\ pc' = [u \in Thread |-> IF u = t THEN "join"
                             ELSE IF pc[u] = "asleep" THEN "enter"
                             ELSE IF pc[u] = "full" THEN "queue" ELSE pc[u]]
  /\ UNCHANGED poolVars

\* Bug: Stop returns without joining the threads.
Join_Early(t, next) ==
  /\ pc[t] = "join"
  /\ Goto(t, next)
  /\ UNCHANGED poolVars

Join(t, next) ==
  /\ pc[t] = "join"
  /\ \A w \in Worker : pc[w] = "exited"
  /\ Goto(t, next)
  /\ UNCHANGED poolVars

IsBusy == isStarted /\ (queue # <<>> \/ \E w \in Worker : isBusy[w])
=============================================================================
