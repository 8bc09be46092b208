----------------------------- MODULE OthelloGame -----------------------------
(***************************************************************************)
(* Boards the enumerators reach, one at a time: the state is a board in its *)
(* canonical form, a step is one child of it as the expand kernels write    *)
(* it.  On the size `Whole` every child of a board of fewer than `Opening`  *)
(* pieces is followed; from there on, and on the larger sizes from the      *)
(* first move, a game picks one child by its rule, so that full boards,     *)
(* passes, edges and corners are reached without the whole tree.  The size  *)
(* `Whole` is walked with the largest number of rotations.                  *)
(***************************************************************************)
EXTENDS MergePhase

CONSTANTS Whole,          \* the size whose openings are all visited
          Opening,        \* the number of pieces at which an opening ends
          Sizes,          \* the sizes that are played
          Rotations,      \* the numbers of rotations a run may be started with
          Games           \* the rules by which one child is picked

VARIABLES board,          \* the board at hand, canonical
          numRotations,   \* the option of the run
          game            \* the rule of the game

vars == <<board, numRotations, game>>

Consts == OBCuda_GetBoardConsts(board.size)
Children == OthelloExpandKernel(board, numRotations, Consts)
Pieces == Cardinality(board.inUse)

Init ==
  /\ \E size \in Sizes : board = BoardSetUpNewBoard(size)
  /\ numRotations \in {r \in Rotations : board.size = Whole => \A q \in Rotations : q <= r}
  /\ game \in Games

(* The rule of a game varies with the number of pieces on the board, so     *)
(* that it is not always the same corner that is played.                    *)
Picked(kids) == ((game * Pieces) % Len(kids)) + 1

Expand ==
  /\ LET kids == Children
     IN  \E n \in DOMAIN kids :
           /\ board.size # Whole \/ Pieces >= Opening => n = Picked(kids)
           /\ board' = kids[n].child
  /\ UNCHANGED <<numRotations, game>>

Next == Expand
Spec == Init /\ [][Next]_vars
-----------------------------------------------------------------------------
(* The slots of the results that hold a child, put into the buffer by as    *)
(* many threads as there are slots; the pipeline has made room for all.     *)
ScatterToAccumKernel(results) == Evaluated([n \in DOMAIN results |-> results[n].child])

Size == board.size
Symmetric == boardArray(board, numRotations)
Generators == (IF numRotations >= 4 THEN {BoardRotate90DegreesRight(board)} ELSE {})
              \cup (IF numRotations >= 8 THEN {BoardMirrorVerticalAxis(board)} ELSE {})
              \cup (IF numRotations = 16 THEN {BoardFlip(board)} ELSE {})
Bag(kids) == [b \in {kids[n].child : n \in DOMAIN kids} |->
                Cardinality({n \in DOMAIN kids : kids[n].child = b})]

(* The bit-parallel move generator and flips, on the host and on the        *)
(* device, find what walking cell by cell finds: no step runs over an edge  *)
(* into the next row, none stops short of the edge, and no board has more   *)
(* moves than the result slots a kernel reserves for it.                    *)
MovesExact ==
  LET passed == [board EXCEPT !.black = ~@]
  IN  \A b \in {board, passed} :
        LET moves == MovesCellByCell(b)
        IN  /\ BoardKeyGetMoves(b) = moves
            /\ dev_boardKeyGetMoves(b, Consts) = moves
            /\ Cardinality(moves) <= maxMovesPerBoard(Size)
            /\ \A m \in moves : /\ MovePlayAndSetResultBoard(b, m) = PlayCellByCell(b, m)
                                /\ dev_playMove(b, m) = PlayCellByCell(b, m)

(* The rotation, the mirror and the exchange of colours by bit tricks move  *)
(* each piece where the loops over cells put it, and the device agrees with *)
(* the host.                                                                *)
SymmetriesAgree ==
  /\ BoardRotate90DegreesRight(board) = RotateCellByCell(board)
  /\ dev_rotate90Right(board) = RotateCellByCell(board)
  /\ BoardMirrorVerticalAxis(board) = MirrorCellByCell(board)
  /\ dev_mirrorVerticalAxis(board) = MirrorCellByCell(board)
  /\ dev_boardFlip(board) = BoardFlip(board)

(* Boards that are symmetric to each other have one canonical form, the     *)
(* host and the device compute the same one, and the host says that the     *)
(* players were exchanged exactly when an odd form was taken.               *)
OneCanonicalForm ==
  LET unique == dev_canonicalize(board, numRotations)
  IN  /\ SymmetriesAgree
      /\ \A b \in Symmetric : dev_canonicalize(b, numRotations) = unique
      /\ \A b \in {board} \cup (IF numRotations = 16 THEN {BoardFlip(board)} ELSE {}) :
           LET host == BoardCreateUniqueBoard(b, numRotations)
           IN  /\ host.board = unique
               /\ host.flipped = (b.black # unique.black)
               /\ host.moves = dev_boardMoveCalculator(unique, Consts)

(* Replacing a board by a symmetric one loses no game: the children of      *)
(* both have the same canonical forms, each from equally many moves, and    *)
(* the pass of the solver leads to the board whose children the enumerator  *)
(* writes.                                                                  *)
ChildrenCommute ==
  LET here == OthelloExpandKernel(board, numRotations, Consts)
      solver == SolverExpandKernel(board, numRotations, Consts)
  IN  /\ \A b \in Generators : Bag(OthelloExpandKernel(b, numRotations, Consts)) = Bag(here)
      /\ IF solver # << >> /\ solver[1].move = 100
           THEN Bag(SolverExpandKernel(solver[1].child, numRotations, Consts)) = Bag(here)
           ELSE solver = here

(* Symmetric boards are one board: playing with the representative of each  *)
(* class, whichever of the programs chose it, loses no game and adds none.  *)
SymmetrySound == OneCanonicalForm /\ ChildrenCommute

(* What the radix passes and the flags leave of a buffer is every board of  *)
(* it once, ascending by the fields, whatever order the threads scattered   *)
(* the children in.  Merged, the files of several buffers are one such file *)
(* whatever the limit of handles, and the partitions of a level are that    *)
(* file cut into pieces, none of them empty, however poor the samples are.  *)
Sorted(s) == \A i \in 1..(Len(s) - 1) : BoardKeyLess(s[i], s[i + 1])
DedupExact ==
  LET kids == ScatterToAccumKernel(Children)
      passes == Reverse([n \in DOMAIN kids |-> [kids[n] EXCEPT !.black = ~@]])
      accum == <<board>> \o kids \o passes \o <<board>>
      runs == Evaluated([f \in 1..4 |-> ExtractUniqueBoards(
                SelectSeq(accum, LAMBDA b : (Cardinality(b.colors) + Pieces) % 4 < f))])
      unique == Last(runs)
  IN  /\ ToSet(unique) = ToSet(accum)
      /\ Sorted(unique)
      /\ \A limit \in {2, 4} : MergeFilesToOne(runs, limit) = unique
      /\ \A numParts \in {1, 3} :
           LET parts == MergeRunFilesToNAS(runs, numParts)
           IN  FlattenSeq(parts) = unique /\ << >> \notin ToSet(parts)
=============================================================================
