--------------------- MODULE MultithreadedSolverProps ---------------------
(***************************************************************************)
(* What the multithreaded solver and its queue promise.                     *)
(***************************************************************************)
EXTENDS MultithreadedSolver

Playing == {w \in Workers : board[w] # NoBoard}
Staged == UNION {ToSet(staged[w]) : w \in Workers}

(* No board is played by two workers or twice, though the test of its state *)
(* and the update are apart with nothing held between them: PlayTheBoard    *)
(* and the insert of a move never meet a board or a move of before, and a   *)
(* board on the queue is always in the tree.                                *)
PlayedOnce ==
  /\ \A v, w \in Playing : v # w => board[v] # board[w]
  /\ \A w \in Playing : pc[w] = "play" => uniqueBoards[board[w]] = "NOT_PLAYED"
  /\ status \notin {"move known", "board not found"}

(* While a run lasts, every board that was reached and not played can still *)
(* be reached by a worker: on the queue, in a batch, being played, or in    *)
(* the hands of the worker that found it; between runs, in the files a      *)
(* restart reads again.  Only a stop loses boards, those of a batch whose   *)
(* file had been read to its end, and a read that fails; without them the   *)
(* counting of wins meets no board that was not played, so the empty queue  *)
(* and the count of those who play tell a worker that all was played.       *)
NoBoardForgotten ==
  (faults = 0 /\ haveTrees) =>
    CASE Running -> NotPlayed \subseteq
                      dropped \cup Pending \cup InBatches \cup Staged \cup {board[w] : w \in Playing}
      [] status = "stopped" -> NotPlayed \subseteq dropped \cup Replayable
      [] status = "board not played" -> dropped # {}
      [] OTHER -> TRUE

(* The wins of a board, straight from the game; no play is longer than there *)
(* are boards.                                                              *)
Wins0[n \in Nat] ==
  [b \in Boards |-> IF n = 0 \/ Terminal(b) THEN Outcome[b] ELSE Sum(Wins0[n - 1], Out(b))]

(* A run that ends reports the wins of the whole game, and its trees hold   *)
(* every board and every move of it, all played, whatever was stopped,      *)
(* restarted, closed or could not be read on the way; workers that end      *)
(* early never end the run early.                                           *)
DoneMeansExact ==
  status = "done" =>
    /\ result = Wins0[Cardinality(Boards)][Root] /\ moves = Edges
    /\ DOMAIN uniqueBoards = Boards /\ NotPlayed = {}

(* A run comes to an end: no worker waits for another one that waits.       *)
RunsEnd == Running ~> ~Running
=============================================================================
