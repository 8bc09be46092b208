------------------------ MODULE MCCommandLineSolver ------------------------
(***************************************************************************)
(* A small game: two moves of the first board lead to one board, once with  *)
(* the colours exchanged; boards 3 and 8 must pass, both to board 4; board  *)
(* 5 ends the game early; boards 6 and 7 are each reached from two boards.  *)
(***************************************************************************)
EXTENDS CommandLineSolverProps

Move(from, idx, to, flip) == [from |-> from, idx |-> idx, to |-> to, pass |-> FALSE, flip |-> flip]
MCBoards == 1..8
MCLevelOf == <<0, 1, 1, 1, 1, 2, 2, 1>>
MCEdges ==
  { Move(1, 1, 2, FALSE), Move(1, 2, 2, TRUE), Move(1, 3, 3, FALSE), Move(1, 4, 5, FALSE), Move(1, 5, 8, FALSE),
    [from |-> 3, idx |-> 100, to |-> 4, pass |-> TRUE, flip |-> TRUE],
    [from |-> 8, idx |-> 100, to |-> 4, pass |-> TRUE, flip |-> FALSE],
    Move(2, 1, 6, FALSE), Move(2, 2, 7, FALSE), Move(4, 1, 6, TRUE), Move(4, 2, 7, FALSE) }
MCOutcome == [b \in {5, 6, 7} |-> CASE b = 5 -> <<1, 0, 0>> [] b = 6 -> <<0, 1, 0>> [] b = 7 -> <<0, 0, 1>>]
=============================================================================
