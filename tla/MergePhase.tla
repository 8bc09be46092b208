------------------------------ MODULE MergePhase ------------------------------
(***************************************************************************)
(* How OthelloLevelEnumerator merges sorted files of boards (MergePhase.cpp *)
(* and SortedFile.cpp), as pure operators: the heap of readers, one pass    *)
(* that leaves each board once, several passes when there are more files    *)
(* than handles, and the cut of the merged level into one partition per     *)
(* Fast directory along pivots sampled from the files.                      *)
(*                                                                         *)
(* A file is the sequence of its boards.  Buffers, headers and what is     *)
(* reported are left out; failing I/O is a step of LevelEnumerator, which   *)
(* takes a merge for the union of its sources.                              *)
(***************************************************************************)
EXTENDS OthelloBasicsForCUDA

CONSTANT SAMPLES_PER_FILE

(* The order of the files: the three fields as little-endian integers. *)
BoardKeyLess(a, b) ==
  \E f \in 0..2 : /\ Below(Field(a, f), Field(b, f))
                  /\ \A g \in 0..(f - 1) : Field(a, g) = Field(b, g)
-----------------------------------------------------------------------------
(* A merge in progress: pos[i] is the record reader i holds, heap the       *)
(* readers that hold one, the smallest at the root.                         *)
Rec(m, i) == m.files[i][m.pos[i]]
Above(m, p, i) == ~BoardKeyLess(Rec(m, m.heap[i]), Rec(m, m.heap[p]))
Swapped(m, i, j) == [m EXCEPT !.heap = [@ EXCEPT ![i] = m.heap[j], ![j] = m.heap[i]]]

RECURSIVE SiftUp(_, _)
SiftUp(m, i) ==
  LET p == i \div 2
  IN  IF i = 1 \/ Above(m, p, i) THEN m ELSE SiftUp(Swapped(m, i, p), p)
PMHeapPush(m, idx) == SiftUp([m EXCEPT !.heap = Append(@, idx)], Len(m.heap) + 1)

RECURSIVE SiftDown(_, _)
SiftDown(m, i) ==
  LET less(k, j) == IF j > Len(m.heap) \/ Above(m, k, j) THEN k ELSE j
      left == less(i, 2 * i)
      best == less(left, 2 * i + 1)
  IN  IF best = i THEN m ELSE SiftDown(Swapped(m, i, best), best)
PMHeapPop(m) == SiftDown([m EXCEPT !.heap = Front([@ EXCEPT ![1] = Last(m.heap)])], 1)

(* SFReaderNext: the reader is back on the heap, or it is closed. *)
SFReaderNext(m, i) ==
  LET read == [m EXCEPT !.pos[i] = @ + 1]
  IN  IF read.pos[i] <= Len(m.files[i]) THEN PMHeapPush(read, i) ELSE read

Primed(files) ==
  LET closed == [files |-> files, pos |-> [i \in DOMAIN files |-> 0], heap |-> << >>, out |-> << >>]
      open[n \in 0..Len(files)] == IF n = 0 THEN closed ELSE SFReaderNext(open[n - 1], n)
  IN  open[Len(files)]

RECURSIVE Drained(_)
Drained(m) ==
  IF m.heap = << >> THEN m.out
  ELSE LET i == m.heap[1]
           rec == Rec(m, i)
           known == m.out # << >> /\ Last(m.out) = rec
           written == [PMHeapPop(m) EXCEPT !.out = IF known THEN @ ELSE Append(@, rec)]
       IN  Drained(SFReaderNext(written, i))

MergeFilesOnePass(files) == Drained(Primed(files))
-----------------------------------------------------------------------------
NonEmpty(files) == SelectSeq(files, LAMBDA file : file # << >>)

(* With more files than handles: batches, one handle short of the limit,    *)
(* into temporary files, and these, however many they are, into the output. *)
MergeFilesToOne(files, safeFileLimit) ==
  LET size == IF safeFileLimit > 2 THEN safeFileLimit - 1 ELSE 1
      end(i) == IF i * size < Len(files) THEN i * size ELSE Len(files)
      batch(i) == SubSeq(files, (i - 1) * size + 1, end(i))
      temps == [i \in 1..((Len(files) + size - 1) \div size) |-> MergeFilesOnePass(batch(i))]
  IN  MergeFilesOnePass(IF Len(files) <= safeFileLimit THEN files ELSE NonEmpty(temps))

(* Samples of the files in proportion to their records, one of each at      *)
(* least, sorted; the pivots cut them into equal shares.                    *)
ComputePivots(files, numParts) ==
  LET total == Len(FlattenSeq(files))
      share(i) == (SAMPLES_PER_FILE * Len(NonEmpty(files)) * Len(files[i])) \div total
      n(i) == Min({Len(files[i]), Max({1, share(i)})})
      sample(i) == [j \in 1..n(i) |-> files[i][((j - 1) * Len(files[i])) \div n(i) + 1]]
      samples == SortSeq(FlattenSeq([i \in DOMAIN files |-> sample(i)]), BoardKeyLess)
  IN  [i \in 1..(numParts - 1) |-> samples[((i * Len(samples)) \div numParts) + 1]]

(* The partition of a board, by bisection of the pivots. *)
RECURSIVE GetPart(_, _, _, _)
GetPart(b, pivots, lo, hi) ==
  LET mid == (lo + hi) \div 2
  IN  IF lo = hi THEN lo
      ELSE IF BoardKeyLess(b, pivots[mid + 1]) THEN GetPart(b, pivots, lo, mid)
      ELSE GetPart(b, pivots, mid + 1, hi)

(* One pass over all sources, each board to its partition; a partition that *)
(* got none is removed and not registered.                                  *)
MergeToPartitions(files, pivots, numParts) ==
  LET merged == MergeFilesOnePass(files)
  IN  [k \in 1..numParts |->
         SelectSeq(merged, LAMBDA b : GetPart(b, pivots, 0, numParts - 1) = k - 1)]

MergeRunFilesToNAS(files, numParts) ==
  IF NonEmpty(files) = << >> THEN << >>
  ELSE NonEmpty(MergeToPartitions(NonEmpty(files), ComputePivots(files, numParts), numParts))
=============================================================================
