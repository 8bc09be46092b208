----------------------- MODULE MCMultithreadedSolver -----------------------
(***************************************************************************)
(* A small game: two moves of the first board lead to one board, once with  *)
(* the colours exchanged; board 3 must pass; board 7 ends the game at    *)
(* once; boards 5 and 6 are each reached from two boards, which two         *)
(* workers may be playing.                                                  *)
(***************************************************************************)
EXTENDS MultithreadedSolverProps

Move(from, idx, to, flip) == [from |-> from, idx |-> idx, to |-> to, flip |-> flip]
MCBoards == 1..7
MCEdges ==
  { Move(1, 1, 2, FALSE), Move(1, 2, 2, TRUE), Move(1, 3, 3, FALSE), Move(1, 4, 7, FALSE),
    Move(3, 100, 4, TRUE),
    Move(2, 1, 5, FALSE), Move(2, 2, 6, FALSE), Move(4, 1, 5, TRUE), Move(4, 2, 6, FALSE) }
MCOutcome == [b \in {5, 6, 7} |-> CASE b = 5 -> <<0, 1, 0>> [] b = 6 -> <<0, 0, 1>> [] b = 7 -> <<1, 0, 0>>]
=============================================================================
