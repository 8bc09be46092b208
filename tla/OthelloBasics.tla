--------------------------- MODULE OthelloBasics ---------------------------
(***************************************************************************)
(* Boards, moves and symmetries of Othello on the host (OthelloBasics).    *)
(* A 64-bit word is the set of the cell indices whose bit is set: index 0   *)
(* is FIRSTBIT, the upper left cell, and index row * 8 + col is FIRSTBIT    *)
(* shifted right by it.  Shifting a word right by k adds k to every index   *)
(* and drops what leaves the word; it does not know rows, so a step along   *)
(* a row or a diagonal runs over the edge into the next row unless a mask   *)
(* stops it.                                                               *)
(***************************************************************************)
EXTENDS Integers, FiniteSets

Bits == 0..63
Row(i) == i \div 8
Col(i) == i % 8
Index(row, col) == row * 8 + col

Shift(word, k) == {i + k : i \in word} \cap Bits
Xor(v, w) == (v \ w) \cup (w \ v)
(* v < w as unsigned integers: the highest bit that differs is w's. *)
Below(v, w) == \E i \in w \ v : \A j \in v \ w : i < j

(* SetBoardSizeForRun: a board of the given size sits in the middle of the  *)
(* 8 x 8 grid, and the masks are those of its own edges.                    *)
Si(size) == (8 - size) \div 2
Ei(size) == 8 - Si(size)
Inside(size, row, col) == row \in Si(size)..(Ei(size) - 1) /\ col \in Si(size)..(Ei(size) - 1)
BoardMask == [size \in {4, 6, 8} |-> {i \in Bits : Inside(size, Row(i), Col(i))}]
LeftEdge == [size \in {4, 6, 8} |-> {i \in BoardMask[size] : Col(i) = Si(size)}]
RightEdge == [size \in {4, 6, 8} |-> {i \in BoardMask[size] : Col(i) = Ei(size) - 1}]

(* The part of a BOARD that names the position: cells in use, black cells   *)
(* (meaningful where a cell is in use), the size and the player to move.    *)
Board(size, inUse, colors, black) ==
  [size |-> size, inUse |-> inUse, colors |-> colors, black |-> black]
BoardSetUpNewBoard(size) ==
  Board(size, {Index(3, 3), Index(4, 4), Index(3, 4), Index(4, 3)},
        {Index(3, 4), Index(4, 3)}, TRUE)

Mine(b) == IF b.black THEN b.inUse \cap b.colors ELSE b.inUse \ b.colors
Theirs(b) == b.inUse \ Mine(b)
-----------------------------------------------------------------------------
(* A slip: a diagonal stopped at the wrong edge. *)
DirectionsSwapped(left, right) ==
  { [by |-> 1, stop |-> right],  [by |-> -1, stop |-> left],
    [by |-> 8, stop |-> {}],     [by |-> -8, stop |-> {}],
    [by |-> 9, stop |-> right],  [by |-> 7, stop |-> left],
    [by |-> -7, stop |-> left],  [by |-> -9, stop |-> left] }
(* A direction is the shift of one step and the cells it may not leave from. *)
Directions(left, right) ==
  { [by |-> 1, stop |-> right],  [by |-> -1, stop |-> left],
    [by |-> 8, stop |-> {}],     [by |-> -8, stop |-> {}],
    [by |-> 9, stop |-> right],  [by |-> 7, stop |-> left],
    [by |-> -7, stop |-> right], [by |-> -9, stop |-> left] }

Step(word, d) == Shift(word \ d.stop, d.by)

(* The cells of `through` reached from `start` in at most `steps` steps     *)
(* over cells of `through`: the lines of |= in both bitboard functions.     *)
Run(start, through, d, steps) ==
  LET run[n \in 1..steps] ==
        IF n = 1 THEN Step(start, d) \cap through
                 ELSE LET r == run[n - 1] IN r \cup (Step(r, d) \cap through)
  IN  run[steps]
BoardKeyGetMoves(b) ==
  LET empty == BoardMask[b.size] \ b.inUse
      Gen(d) == Run(Mine(b), Theirs(b) \ d.stop, d, 6)
  IN  UNION {Step(Gen(d), d) \cap empty : d \in Directions(LeftEdge[b.size], RightEdge[b.size])}

BoardMoveCalculator(b) == BoardKeyGetMoves(b)

(* computeFlips uses the columns 0 and 7 of the whole grid as its edges,    *)
(* whatever the size of the board.                                          *)
GridLeft == {i \in Bits : Col(i) = 0}
GridRight == {i \in Bits : Col(i) = 7}
computeFlips(move, player, opponent) ==
  LET X(d) == Run({move}, opponent, d, 6)
      Closed(d) == Step(X(d), d) \cap player # {}
  IN  UNION {X(d) : d \in {e \in Directions(GridLeft, GridRight) : Closed(e)}}

applyMove(b, move, black) ==
  LET player == IF black THEN b.inUse \cap b.colors ELSE b.inUse \ b.colors
      turned == {move} \cup computeFlips(move, player, b.inUse \ player)
  IN  [b EXCEPT !.inUse = @ \cup {move},
                !.colors = IF black THEN @ \cup turned ELSE @ \ turned]

MovePlayAndSetResultBoard(b, move) == applyMove([b EXCEPT !.black = ~@], move, b.black)
-----------------------------------------------------------------------------
(* The cell-by-cell version of the same functions, the other branch of the  *)
(* #ifdef: from a cell, walk in one direction until the edge, an empty cell *)
(* or a piece of the mover.                                                 *)
Dirs == ((-1..1) \X (-1..1)) \ {<<0, 0>>}
Nth(cell, dir, n) == <<Row(cell) + n * dir[1], Col(cell) + n * dir[2]>>
On(b, p) == Inside(b.size, p[1], p[2]) /\ Index(p[1], p[2]) \in b.inUse
Of(b, p, black) == (Index(p[1], p[2]) \in b.colors) = black

(* How many opposing pieces lie between the cell and the mover's nearest    *)
(* piece in this direction; 0 when there is no such piece.                  *)
moveCheckDir(b, cell, dir, black) ==
  LET Sandwich(n) == /\ \A k \in 1..n : On(b, Nth(cell, dir, k)) /\ ~Of(b, Nth(cell, dir, k), black)
                     /\ On(b, Nth(cell, dir, n + 1)) /\ Of(b, Nth(cell, dir, n + 1), black)
  IN  IF \E n \in 1..6 : Sandwich(n) THEN CHOOSE n \in 1..6 : Sandwich(n) ELSE 0

moveCalcHasPossibleMove(b, cell) == \E dir \in Dirs : moveCheckDir(b, cell, dir, b.black) > 0

MovesCellByCell(b) ==
  {i \in BoardMask[b.size] \ b.inUse : moveCalcHasPossibleMove(b, i)}

moveDir(b, cell, dir, black) ==
  {Index(Nth(cell, dir, n)[1], Nth(cell, dir, n)[2]) : n \in 1..moveCheckDir(b, cell, dir, black)}

PlayCellByCell(b, move) ==
  LET turned == {move} \cup UNION {moveDir(b, move, dir, b.black) : dir \in Dirs}
  IN  Board(b.size, b.inUse \cup {move},
            IF b.black THEN b.colors \cup turned ELSE b.colors \ turned, ~b.black)
-----------------------------------------------------------------------------
(* Symmetries.  A masked swap exchanges the bits under `mask` with those    *)
(* `by` places further right.                                               *)
Swap(word, mask, by) ==
  LET t == mask \cap Xor(word, Shift(word, -by))
  IN  Xor(word, Xor(t, Shift(t, by)))

k4 == {i \in Bits : Row(i) < 4 /\ Col(i) >= 4}
k2 == {i \in Bits : Row(i) % 4 < 2 /\ Col(i) % 4 >= 2}
k1 == {i \in Bits : Row(i) % 2 = 0 /\ Col(i) % 2 = 1}
flipDiagA1H8(word) == Swap(Swap(Swap(word, k4, 28), k2, 14), k1, 7)
byteswap(word) == {Index(7 - Row(i), Col(i)) : i \in word}
BoardRotate90DegreesRight(b) ==
  [b EXCEPT !.inUse = flipDiagA1H8(byteswap(@)), !.colors = flipDiagA1H8(byteswap(@))]

HighOf == [n \in {1, 2, 4} |-> {i \in Bits : (i % (2 * n)) < n}]
Exchange(word, n) == Shift(word \cap HighOf[n], n) \cup Shift(word \ HighOf[n], -n)
mirrorBytewise(word) == Exchange(Exchange(Exchange(word, 4), 2), 1)
BoardMirrorVerticalAxis(b) ==
  [b EXCEPT !.inUse = mirrorBytewise(@), !.colors = mirrorBytewise(@)]

(* The other branch of the #ifdefs: a loop over the cells of the board. *)
RotateCellByCell(b) ==
  LET To(i) == Index(Col(i), 7 - Row(i))
      used == b.inUse \cap BoardMask[b.size]
  IN  [b EXCEPT !.inUse = {To(i) : i \in used}, !.colors = {To(i) : i \in used \cap b.colors}]
MirrorCellByCell(b) ==
  LET To(i) == Index(Row(i), Si(b.size) + Ei(b.size) - 1 - Col(i))
      used == b.inUse \cap BoardMask[b.size]
  IN  [b EXCEPT !.inUse = {To(i) : i \in used}, !.colors = {To(i) : i \in used \cap b.colors}]

(* BoardFlip: every piece and the player to move change colour. *)
BoardFlip(b) ==
  LET used == b.inUse \cap BoardMask[b.size]
  IN  Board(b.size, used, used \ b.colors, ~b.black)

(* BoardCompare(a, b) < 0; 'B' sorts before 'W'. *)
BoardLess(a, b) ==
  \/ Below(a.inUse, b.inUse)
  \/ a.inUse = b.inUse /\ Below(a.colors, b.colors)
  \/ a.inUse = b.inUse /\ a.colors = b.colors /\ a.black /\ ~b.black

Turns(b) ==
  LET r1 == BoardRotate90DegreesRight(b)
      r2 == BoardRotate90DegreesRight(r1)
  IN  {b, r1, r2, BoardRotate90DegreesRight(r2)}

boardArray(b, numRotations) ==
  (IF numRotations >= 4 THEN Turns(b) ELSE {b})
  \cup (IF numRotations >= 8 THEN Turns(BoardMirrorVerticalAxis(b)) ELSE {})
  \cup (IF numRotations = 16 THEN Turns(BoardFlip(b)) \cup Turns(BoardMirrorVerticalAxis(BoardFlip(b)))
                             ELSE {})

Least(boards) == CHOOSE a \in boards : \A c \in boards : ~BoardLess(c, a)

(* The board the sort puts first, its moves, and whether the players were   *)
(* exchanged to get it.                                                     *)
BoardCreateUniqueBoard(b, numRotations) ==
  LET unique == Least(boardArray(b, numRotations))
  IN  [board |-> unique, moves |-> BoardMoveCalculator(unique), flipped |-> unique.black # b.black]
=============================================================================
