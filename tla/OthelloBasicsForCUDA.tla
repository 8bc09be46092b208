------------------------ MODULE OthelloBasicsForCUDA ------------------------
(***************************************************************************)
(* The device versions of the board functions and the kernels that use     *)
(* them.  The masks of the board come in `c` (DevBoardConsts), captured on  *)
(* the host; the reversal of the bytes, the masks of the symmetries, the    *)
(* exchange of colours and the choice of the least symmetry are the         *)
(* device's own.                                                            *)
(***************************************************************************)
EXTENDS OthelloBasics, Sequences, SequencesExt

(* The same sequence; TLC would evaluate an element at every use of it. *)
Evaluated(s) == s \o << >>

OBCuda_GetBoardConsts(size) ==
  [boardMask |-> BoardMask[size], boardLeftEdge |-> LeftEdge[size], boardRightEdge |-> RightEdge[size]]

(* The word that holds a byte pattern, its bytes from the most significant. *)
Word(bytes) == {i \in Bits : (bytes[Row(i) + 1] \div (2 ^ (7 - Col(i)))) % 2 = 1}
Repeat(byte) == Word([n \in 1..8 |-> byte])
ByteMask == [n \in 0..7 |-> Word([p \in 1..8 |-> IF p = 8 - n THEN \hFF ELSE 0])]

(* The n-th byte from the least significant goes 56 - 16 n places left. *)
dev_bswap64(x) == UNION {Shift(x \cap ByteMask[n], 16 * n - 56) : n \in 0..7}

dev_k4 == Word(<<\h0F, \h0F, \h0F, \h0F, 0, 0, 0, 0>>)
dev_k2 == Word(<<\h33, \h33, 0, 0, \h33, \h33, 0, 0>>)
dev_k1 == Word(<<\h55, 0, \h55, 0, \h55, 0, \h55, 0>>)
dev_swap4[x \in SUBSET Bits] == Swap(x, dev_k4, 28)
dev_swap2[x \in SUBSET Bits] == Swap(x, dev_k2, 14)
dev_swap1[x \in SUBSET Bits] == Swap(x, dev_k1, 7)
dev_flipDiagA1H8(x) == dev_swap1[dev_swap2[dev_swap4[x]]]

highHalf == [n \in {1, 2, 4} |-> Repeat(CASE n = 4 -> \hF0 [] n = 2 -> \hCC [] n = 1 -> \hAA)]
lowHalf == [n \in {1, 2, 4} |-> Repeat(CASE n = 4 -> \h0F [] n = 2 -> \h33 [] n = 1 -> \h55)]
Halves(x, n) == Shift(x \cap highHalf[n], n) \cup Shift(x \cap lowHalf[n], -n)
(* A slip: the masks of the last step exchanged. *)
MirrorMasksSwapped(x) ==
  LET y == Halves(Halves(x, 4), 2) IN Shift(y \cap lowHalf[1], 1) \cup Shift(y \cap highHalf[1], -1)
dev_mirrorBytewise(x) == Halves(Halves(Halves(x, 4), 2), 1)

dev_rotate90Right(b) ==
  [b EXCEPT !.inUse = dev_flipDiagA1H8(dev_bswap64(@)), !.colors = dev_flipDiagA1H8(dev_bswap64(@))]
dev_mirrorVerticalAxis(b) ==
  [b EXCEPT !.inUse = dev_mirrorBytewise(@), !.colors = dev_mirrorBytewise(@)]
dev_boardFlip(b) == [b EXCEPT !.colors = b.inUse \ @, !.black = ~@]

dev_boardLT(a, b) ==
  IF a.inUse # b.inUse THEN Below(a.inUse, b.inUse)
  ELSE IF a.colors # b.colors THEN Below(a.colors, b.colors)
  ELSE a.black /\ ~b.black

dev_boardKeyGetMoves(b, c) ==
  LET empty == c.boardMask \ b.inUse
      Gen(d) == Run(Mine(b), Theirs(b) \ d.stop, d, 6)
  IN  UNION {Step(Gen(d), d) \cap empty : d \in Directions(c.boardLeftEdge, c.boardRightEdge)}
dev_boardMoveCalculator(b, c) == dev_boardKeyGetMoves(b, c)

dev_computeFlips(move, player, opponent) ==
  LET X(d) == Run({move}, opponent, d, 6)
  IN  UNION {IF Step(X(d), d) \cap player # {} THEN X(d) ELSE {} : d \in Directions(GridLeft, GridRight)}
dev_applyMove(b, move, black) ==
  LET player == IF black THEN b.inUse \cap b.colors ELSE b.inUse \ b.colors
      turned == {move} \cup dev_computeFlips(move, player, b.inUse \ player)
  IN  [b EXCEPT !.inUse = @ \cup {move},
                !.colors = IF black THEN @ \cup turned ELSE @ \ turned]
dev_playMove(b, move) == dev_applyMove([b EXCEPT !.black = ~@], move, b.black)

(* arr[0], arr[1], ...: up to four starts, each followed by its turns.      *)
Turned(b) ==
  LET r[n \in 0..3] == IF n = 0 THEN b ELSE dev_rotate90Right(r[n - 1])
  IN  Evaluated([n \in 1..4 |-> r[n - 1]])
arr(b, numRotations) ==
  LET flipped == dev_boardFlip(b)
      starts == <<b, dev_mirrorVerticalAxis(b), flipped, dev_mirrorVerticalAxis(flipped)>>
  IN  IF numRotations < 4 THEN <<b>>
      ELSE FlattenSeq([n \in 1..(numRotations \div 4) |-> Turned(starts[n])])

(* The loop keeps the least board so far; equal boards are one. *)
dev_canonicalize(b, numRotations) ==
  LET forms == Range(arr(b, numRotations))
  IN  CHOOSE least \in forms : \A form \in forms : ~dev_boardLT(form, least)
-----------------------------------------------------------------------------
(* A kernel walks the moves from the lowest bit up, that is from the last   *)
(* cell of the board to the first.                                          *)
Descending(cells) ==
  Evaluated([n \in 1..Cardinality(cells) |->
               CHOOSE i \in cells : Cardinality({j \in cells : j > i}) = n - 1])

(* OthelloExpandKernel of the level enumerator: a board without a move      *)
(* yields the children of the board with the other player to move, so that  *)
(* no board is ever stored whose player must pass.                          *)
OthelloExpandKernel(src, numRotations, c) ==
  LET moves == dev_boardKeyGetMoves(src, c)
      passed == [src EXCEPT !.black = ~@]
      from == IF moves # {} THEN src ELSE passed
      Child(m) == dev_canonicalize(dev_playMove(from, m), numRotations)
      cells == Descending(IF moves # {} THEN moves ELSE dev_boardKeyGetMoves(passed, c))
  IN  Evaluated([n \in 1..Len(cells) |-> [child |-> Child(cells[n]),
                                          move |-> IF moves # {} THEN cells[n] ELSE 100]])

(* The kernel of the command-line solver: a pass is a child of its own.     *)
SolverExpandKernel(src, numRotations, c) ==
  LET moves == dev_boardKeyGetMoves(src, c)
      passed == [src EXCEPT !.black = ~@]
      Child(b) == dev_canonicalize(b, numRotations)
      cells == Descending(moves)
  IN  IF moves # {}
        THEN Evaluated([n \in 1..Len(cells) |->
                          [child |-> Child(dev_playMove(src, cells[n])), move |-> cells[n]]])
        ELSE IF dev_boardMoveCalculator(passed, c) # {}
               THEN << [child |-> Child(passed), move |-> 100] >> ELSE << >>

maxMovesPerBoard(size) == IF size = 4 THEN 6 ELSE IF size = 6 THEN 19 ELSE 28
-----------------------------------------------------------------------------
(* SortAndDedup: three stable passes of a radix sort over the fields of a   *)
(* key, the least significant first, then neighbours that are equal are     *)
(* marked.  The fields are compared as plain integers.                      *)
Field(b, f) == CASE f = 0 -> b.inUse [] f = 1 -> b.colors
                 [] f = 2 -> IF b.black THEN {63} ELSE {}

(* One pass: where each position of the permutation goes. *)
SortPairs(accum, perm, f) ==
  LET key(i) == Field(accum[perm[i]], f)
      Before(i, j) == Below(key(i), key(j)) \/ (key(i) = key(j) /\ i < j)
      order == SortSeq([i \in DOMAIN perm |-> i], Before)
  IN  Evaluated([n \in DOMAIN perm |-> perm[order[n]]])
(* A slip: the most significant field first. *)
PassesReversed(accum) ==
  LET pass[n \in 0..3] ==
        IF n = 0 THEN [i \in DOMAIN accum |-> i] ELSE SortPairs(accum, pass[n - 1], n - 1)
  IN  pass[3]
SortPasses(accum) ==
  LET pass[n \in 0..3] ==
        IF n = 0 THEN [i \in DOMAIN accum |-> i] ELSE SortPairs(accum, pass[n - 1], 3 - n)
  IN  pass[3]
MarkDupFlags(accum, perm) ==
  {i \in DOMAIN perm : i > 1 /\ \A f \in 0..2 : Field(accum[perm[i]], f) = Field(accum[perm[i - 1]], f)}

SortAndDedup(accum) ==
  LET perm == SortPasses(accum) IN [perm |-> perm, flags |-> MarkDupFlags(accum, perm)]

(* ExtractUniqueBoards: the boards that are not flagged, in order. *)
ExtractUniqueBoards(accum) ==
  LET sorted == SortAndDedup(accum)
      kept == Reverse(Descending(DOMAIN accum \ sorted.flags))
  IN  Evaluated([n \in 1..Len(kept) |-> accum[sorted.perm[kept[n]]]])
=============================================================================
