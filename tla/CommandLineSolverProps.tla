----------------------- MODULE CommandLineSolverProps -----------------------
(***************************************************************************)
(* What the command-line solver must deliver.                              *)
(***************************************************************************)
EXTENDS CommandLineSolver

(* The number of games that end each way from a board, seen by its colours. *)
Sum(wins, es) == FoldSet(LAMBDA e, sum : Add(sum, Swapped(e, wins[e.to])), Zero, es)
Wins[b \in Boards] == IF Terminal(b) THEN Outcome[b] ELSE Sum(Wins, Out(b))

OfLevel(l) == {b \in Boards : LevelOf[b] = l}
Deepest == Max({LevelOf[b] : b \in Boards})

(* When the sweep ends, every board of every level is stored and every move *)
(* of it too, passes included, whatever the threads' order and however      *)
(* often the run was resumed: no batch, pass or checkpoint is skipped.      *)
LevelsComplete ==
  pc = "open" /\ ~lost =>
    /\ deepestLevel = Deepest
    /\ \A l \in 0..Deepest : /\ DOMAIN board[l].saved = OfLevel(l)
                             /\ moves[l].saved = UNION {Out(b) : b \in OfLevel(l)}

(* The result reported is the number of games that end each way, unless the *)
(* second pass found a pass child's record in parts; a resumed run counts   *)
(* some games again but misses none.                                        *)
ResultExact ==
  result # None /\ ~split /\ ~lost =>
    /\ ~redone => result = Wins[Root]
    /\ \A i \in 1..3 : result[i] >= Wins[Root][i]

(* The arenas suffice for the window of stores: a run fails only with moves *)
(* still to carry back, over a board one of them leads to.                  *)
ArenasSuffice == pc = "failed" => left # {}

(* And it fails there only after a store was reopened of which a merge had  *)
(* replaced the files its manifest names.                                   *)
FailsOnlyIfLost == pc = "failed" => lost /\ ArenasSuffice

(* No thread inserts into a store that is closed or of another level: the   *)
(* main thread goes on only when all jobs of the level are done.            *)
JobsHaveStores ==
  \A w \in Workers : \A op \in worker[w].ops :
    LET b == IF op.kind = "terminal" THEN op.board ELSE op.edge.from
    IN  /\ LevelOf[b] = level /\ board[level].open /\ moves[level].open
        /\ op.kind # "terminal" /\ ~op.edge.pass => board[level + 1].open

(* Every run comes to an end, however the threads are scheduled: the main   *)
(* thread waits for no context, no merge and no pass that does not come.    *)
RunEnds == <>(pc \in {"done", "failed"})

(* What the restart option promises: a resumed run reports the same result. *)
RestartExact == result # None /\ ~split /\ ~lost => result = Wins[Root]
=============================================================================
