------------------------ MODULE MultithreadedSolver ------------------------
(***************************************************************************)
(* The multithreaded solver: worker threads take boards from the queue in   *)
(* batches, play each, put its children in the tree of unique boards and    *)
(* the new ones on the queue.  A worker ends when it finds the queue empty  *)
(* while nobody plays.  The controller then counts the wins from the first  *)
(* board down.  The user may stop a run, restart it from where the queue    *)
(* was, or close the program at any time, which loses the trees.            *)
(*                                                                         *)
(* A board is a number and the game is given by its edges, one for each     *)
(* move; the shards of the trees only spread the load and are one tree.     *)
(***************************************************************************)
EXTENDS BoardsToProcess, FiniteSets, FiniteSetsExt

CONSTANTS Boards, Root, NoBoard,
          Edges,         \* [from, idx, to, flip]: the moves of the game
          Outcome,       \* the wins of a board on which nobody can move
          Workers, WORKER_BATCH_SIZE,
          MaxRuns,       \* bound: starts and restarts
          MaxFaults,     \* bound: reads of the queue that fail
          MaxCloses      \* bound: how often the program is closed

(* Boards are those of the game: each is reached in play from the first.     *)
ASSUME GameAssumption ==
  /\ Root \in Boards /\ NoBoard \notin Boards
  /\ \A e \in Edges : e.from \in Boards /\ e.to \in Boards /\ e.idx \in Nat
ASSUME PlayAssumption ==
  \A played \in SUBSET Boards :
    Root \in played /\ (\A e \in Edges : e.from \in played => e.to \in played) => played = Boards
ASSUME SolverAssumption ==
  Workers # {} /\ IsFiniteSet(Workers) /\ WORKER_BATCH_SIZE \in Nat \ {0}

VARIABLES status,        \* of the controller and the dialog
          stop,          \* g_stop
          canStop,       \* the Stop button is enabled
          uniqueBoards,  \* the boards in the tree, each with its state
          moves,         \* the moves in their tree
          haveTrees,     \* the trees exist in this process
          pc, batch, board, todo, staged,   \* of each worker
          activeCount,
          checkpointDat, \* checkpoint.dat exists
          result,        \* the wins of the first board
          runs, faults, closes,
          dropped        \* history: boards a stop has lost

workers == <<pc, batch, board, todo, staged, activeCount>>
trees == <<uniqueBoards, moves, haveTrees>>
bounds == <<runs, faults, closes>>
vars == <<btp, status, stop, canStop, trees, workers, checkpointDat, result, bounds, dropped>>

Out(b) == {e \in Edges : e.from = b}
Terminal(b) == Out(b) = {}
FirstOf(es) == CHOOSE e \in es : \A d \in es : e.idx <= d.idx
NoTree == [b \in {} |-> "NOT_PLAYED"]
NoResult == << >>
NotPlayed == {b \in DOMAIN uniqueBoards : uniqueBoards[b] = "NOT_PLAYED"}

Fatal(why) == status' = why
Running == status = "running"

FreshWorkers(label) ==
  /\ pc' = [w \in Workers |-> label] /\ batch' = [w \in Workers |-> << >>]
  /\ board' = [w \in Workers |-> NoBoard] /\ todo' = [w \in Workers |-> {}]
  /\ staged' = [w \in Workers |-> << >>] /\ activeCount' = 0

Init ==
  /\ file = NoFiles /\ readCursor = At(0) /\ writeCursor = At(0)
  /\ checkPoint = NoCheckPoint /\ saveExists = FALSE
  /\ status = "idle" /\ stop = FALSE /\ canStop = FALSE
  /\ uniqueBoards = NoTree /\ moves = {} /\ haveTrees = FALSE
  /\ pc = [w \in Workers |-> "exited"] /\ batch = [w \in Workers |-> << >>]
  /\ board = [w \in Workers |-> NoBoard] /\ todo = [w \in Workers |-> {}]
  /\ staged = [w \in Workers |-> << >>] /\ activeCount = 0
  /\ checkpointDat = FALSE /\ result = NoResult
  /\ runs = 0 /\ faults = 0 /\ closes = 0 /\ dropped = {}
-----------------------------------------------------------------------------
(* The dialog.  The Stop button is live from the click on Start; a click on *)
(* it before the controller has begun is undone by the controller, and the  *)
(* button stays disabled then until the run has ended.                      *)
Resting == status \in {"idle", "stopped", "done"}
LaunchSolver ==
  /\ Resting /\ runs < MaxRuns
  /\ \/ status' = "launched"
     \/ checkpointDat /\ status' = "relaunched"
  /\ runs' = runs + 1 /\ canStop' = TRUE
  /\ UNCHANGED <<btp, stop, trees, workers, checkpointDat, result, faults, closes, dropped>>

ClickStop ==
  /\ status \in {"launched", "relaunched", "running"} /\ canStop
  /\ stop' = TRUE /\ canStop' = FALSE
  /\ UNCHANGED <<btp, status, trees, workers, checkpointDat, result, bounds, dropped>>

(* The program ends, closed by the user at any time, also while a run lasts, *)
(* or by a Fatal, and is opened again: the threads and the trees are gone,  *)
(* the files stay.                                                          *)
Close ==
  /\ runs > 0 /\ closes < MaxCloses
  /\ status' = "idle" /\ stop' = FALSE /\ canStop' = FALSE /\ closes' = closes + 1
  /\ uniqueBoards' = NoTree /\ moves' = {} /\ haveTrees' = FALSE
  /\ FreshWorkers("exited")
  /\ UNCHANGED <<btp, checkpointDat, result, runs, faults, dropped>>
-----------------------------------------------------------------------------
(* ControllerThread, up to the launch of the workers. *)
FreshStart ==
  /\ status = "launched"
  /\ CreateWith(Root)
  /\ uniqueBoards' = [b \in {Root} |-> "NOT_PLAYED"] /\ moves' = {} /\ haveTrees' = TRUE
  /\ status' = "running" /\ stop' = FALSE /\ dropped' = {} /\ result' = NoResult
  /\ FreshWorkers("top")
  /\ UNCHANGED <<canStop, checkpointDat, bounds>>

Restart ==
  /\ status = "relaunched"
  /\ stop' = FALSE
  /\ FreshWorkers("top")
  /\ IF RestartRefused
     THEN Fatal("restart refused") /\ UNCHANGED btp
     ELSE status' = "running" /\ RestartFromLastChkPt
  /\ UNCHANGED <<canStop, trees, checkpointDat, result, bounds, dropped>>
-----------------------------------------------------------------------------
Goto(w, label) == pc' = [pc EXCEPT ![w] = label]
WorkerKeeps == UNCHANGED <<stop, canStop, haveTrees, checkpointDat, result, runs, closes, dropped>>

(* The head of the loop: stop was asked for, and what is left of the batch  *)
(* is forgotten (it stays in batch[w] until the controller looks).          *)
SeesStop(w) ==
  /\ Running /\ pc[w] = "top" /\ stop
  /\ Goto(w, "exited")
  /\ UNCHANGED <<btp, status, uniqueBoards, moves, batch, board, todo, staged, activeCount, faults>>
  /\ WorkerKeeps

Refill(w) ==
  /\ Running /\ pc[w] = "top" /\ ~stop /\ batch[w] = << >>
  /\ GetNextRecordBatch(WORKER_BATCH_SIZE)
  /\ batch' = [batch EXCEPT ![w] = NextBatch(WORKER_BATCH_SIZE)]
  /\ Goto(w, IF TakesCheckPoint THEN "checkpt" ELSE "lookup")
  /\ UNCHANGED <<status, uniqueBoards, moves, board, todo, staged, activeCount, faults>>
  /\ WorkerKeeps

(* No record was returned: there is none, or it could not be read, which    *)
(* the worker takes for the same.                                           *)
FindsNone(w) ==
  /\ Running /\ pc[w] = "top" /\ ~stop /\ batch[w] = << >>
  /\ \/ NoMoreData /\ UNCHANGED <<btp, faults>> /\ Goto(w, "empty")
     \/ /\ faults < MaxFaults /\ faults' = faults + 1
        /\ \/ OpenFails /\ Goto(w, "empty")
           \/ ReadFails /\ Goto(w, IF TakesCheckPoint THEN "checkpt" ELSE "empty")
  /\ UNCHANGED <<status, uniqueBoards, moves, batch, board, todo, staged, activeCount>>
  /\ WorkerKeeps

(* A file was opened: the position is saved, whether the read went well or   *)
(* not.                                                                     *)
CheckPoint(w) ==
  /\ Running /\ pc[w] = "checkpt"
  /\ TakeChkPt
  /\ Goto(w, IF batch[w] = << >> THEN "empty" ELSE "lookup")
  /\ UNCHANGED <<status, uniqueBoards, moves, batch, board, todo, staged, activeCount, faults>>
  /\ WorkerKeeps

(* The count does not know of boards in a batch, so a worker may leave while *)
(* another one still holds some: what that one finds it plays itself.       *)
NobodyPlays == activeCount = 0
LeavesOrSleeps(w) ==
  /\ Running /\ pc[w] = "empty"
  /\ Goto(w, IF NobodyPlays THEN "exited" ELSE "top")
  /\ UNCHANGED <<btp, status, uniqueBoards, moves, batch, board, todo, staged, activeCount, faults>>
  /\ WorkerKeeps

HasNext(w) == \/ pc[w] = "top" /\ ~stop /\ batch[w] # << >>
              \/ pc[w] = "lookup"
(* The next board of the batch: skipped when it was played already. *)
TakesBoard(w) ==
  /\ Running /\ HasNext(w)
  /\ LET b == Head(batch[w])
     IN  /\ batch' = [batch EXCEPT ![w] = Tail(@)]
         /\ IF b \notin DOMAIN uniqueBoards
            THEN /\ IF stop THEN Goto(w, "exited") /\ UNCHANGED status
                    ELSE Fatal(IF haveTrees THEN "board not found" ELSE "no tree") /\ UNCHANGED pc
                 /\ UNCHANGED <<board, todo, activeCount>>
            ELSE /\ IF uniqueBoards[b] # "NOT_PLAYED"
                    THEN Goto(w, "top") /\ UNCHANGED <<board, todo, activeCount>>
                    ELSE /\ board' = [board EXCEPT ![w] = b]
                         /\ todo' = [todo EXCEPT ![w] = Out(b)]
                         /\ activeCount' = activeCount + 1
                         /\ Goto(w, "play")
                 /\ UNCHANGED status
  /\ UNCHANGED <<btp, uniqueBoards, moves, staged, faults>>
  /\ WorkerKeeps

(* A slip: every child is put on the queue, known or not. *)
Stages_All(b) == TRUE
Stages(b) == b \notin DOMAIN uniqueBoards

(* AddBoardAndMove: one child, in both trees. *)
AddBoardAndMove(w) ==
  /\ Running /\ pc[w] = "play" /\ todo[w] # {}
  /\ LET e == FirstOf(todo[w])
     IN  /\ todo' = [todo EXCEPT ![w] = @ \ {e}]
         /\ staged' = IF Stages(e.to) THEN [staged EXCEPT ![w] = Append(@, e.to)] ELSE staged
         /\ uniqueBoards' = [b \in DOMAIN uniqueBoards \cup {e.to} |->
                               IF b \in DOMAIN uniqueBoards THEN uniqueBoards[b] ELSE "NOT_PLAYED"]
         /\ moves' = moves \cup {e}
         /\ IF e \in moves THEN Fatal("move known") ELSE UNCHANGED status
  /\ UNCHANGED <<btp, pc, batch, board, activeCount, faults>>
  /\ WorkerKeeps

Played(b) == IF Terminal(b) THEN "PLAYED_TERMINAL" ELSE "PLAYED"
Update(w) ==
  /\ Running /\ pc[w] = "play" /\ todo[w] = {}
  /\ uniqueBoards' = [uniqueBoards EXCEPT ![board[w]] = Played(board[w])]
  /\ Goto(w, "flush")
  /\ UNCHANGED <<btp, status, moves, batch, board, todo, staged, activeCount, faults>>
  /\ WorkerKeeps

(* The children that were new go to the queue under one hold of its lock. *)
Flush(w) ==
  /\ Running /\ pc[w] = "flush"
  /\ AddRecordBatch(staged[w])
  /\ staged' = [staged EXCEPT ![w] = << >>]
  /\ Goto(w, "leave")
  /\ UNCHANGED <<status, uniqueBoards, moves, batch, board, todo, activeCount, faults>>
  /\ WorkerKeeps

(* A slip: the worker stays among those who play. *)
Leave_Uncounted(w) ==
  /\ Running /\ pc[w] = "leave"
  /\ board' = [board EXCEPT ![w] = NoBoard]
  /\ Goto(w, "top")
  /\ UNCHANGED <<btp, status, uniqueBoards, moves, batch, todo, staged, activeCount, faults>>
  /\ WorkerKeeps
Leave(w) ==
  /\ Running /\ pc[w] = "leave"
  /\ activeCount' = activeCount - 1
  /\ board' = [board EXCEPT ![w] = NoBoard]
  /\ Goto(w, "top")
  /\ UNCHANGED <<btp, status, uniqueBoards, moves, batch, todo, staged, faults>>
  /\ WorkerKeeps

Step(w) == \/ SeesStop(w) \/ Refill(w) \/ FindsNone(w) \/ CheckPoint(w) \/ LeavesOrSleeps(w)
           \/ TakesBoard(w) \/ AddBoardAndMove(w) \/ Update(w) \/ Flush(w) \/ Leave(w)
-----------------------------------------------------------------------------
(* The controller, when the workers have been joined. *)
Joined == Running /\ \A w \in Workers : pc[w] = "exited"
ControllerKeeps == UNCHANGED <<stop, canStop, trees, workers, bounds>>

(* CalculateWins from the first board: every board below it must have been  *)
(* played, and that is every board, for only what a played board leads to   *)
(* is ever put in the tree.  A move whose result is seen with the colours   *)
(* exchanged has its wins exchanged; the boards of a game are played in the *)
(* order of pieces, so there is no way round from a board to itself.  The   *)
(* code keeps the wins of a board in its record when it has counted them    *)
(* and does not descend again; one thread counts, when the workers have     *)
(* ended, so what it finds there is what counting again would give.         *)
Exchanged(v, flip) == IF flip THEN <<v[2], v[1], v[3]>> ELSE v
Plus(v, u) == [i \in 1..3 |-> v[i] + u[i]]
Zero == <<0, 0, 0>>
Known(b) == {e \in moves : e.from = b}
CanCount_Anyway == TRUE   \* a slip: a board that was not played counts nothing
CanCount == NotPlayed = {}
Sum(wins, es) == FoldSet(LAMBDA e, v : Plus(Exchanged(wins[e.to], e.flip), v), Zero, es)
Wins[n \in Nat] ==
  [b \in Boards |-> IF n = 0 \/ uniqueBoards[b] = "PLAYED_TERMINAL" THEN Outcome[b]
                    ELSE Sum(Wins[n - 1], Known(b))]
CalculateWins == Wins[Cardinality(Boards)][Root]

Complete ==
  /\ Joined /\ ~stop
  /\ IF haveTrees /\ Root \in DOMAIN uniqueBoards /\ CanCount
     THEN status' = "done" /\ result' = CalculateWins /\ checkpointDat' = FALSE
     ELSE Fatal(IF haveTrees THEN "board not played" ELSE "no tree") /\ UNCHANGED <<result, checkpointDat>>
  /\ UNCHANGED <<btp, dropped>>
  /\ ControllerKeeps

InBatches == UNION {ToSet(batch[w]) : w \in Workers}
SaveAndStop ==
  /\ Joined /\ stop
  /\ TakeChkPt
  /\ checkpointDat' = TRUE
  /\ dropped' = dropped \cup ((InBatches \cap NotPlayed) \ Replayable)
  /\ status' = "stopped"
  /\ UNCHANGED result
  /\ ControllerKeeps

Controller == FreshStart \/ Restart \/ Complete \/ SaveAndStop
Next ==
  \/ LaunchSolver \/ ClickStop \/ Close
  \/ Controller
  \/ \E w \in Workers : Step(w)

Spec == Init /\ [][Next]_vars
(* Every thread goes on; nobody need touch the dialog. *)
FairSpec == Spec /\ WF_vars(Controller) /\ \A w \in Workers : WF_vars(Step(w))
=============================================================================
