------------------------------- MODULE TSMerge -------------------------------
(***************************************************************************)
(* The merge of TieredStoreHybrid as pure operators: how a flush cuts the  *)
(* in-memory tree into slices along the files it has to rewrite            *)
(* (TSI_FlushMemTree and TSI_PrepMergeJob, the same algorithm twice), and  *)
(* which output files the two-way merge of one slice leaves (DoMerge).     *)
(*                                                                         *)
(* A record's data is a set of values: mergeFn, the caller's callback, is  *)
(* their union, and no values at all is no record.  A file is the set of   *)
(* keys that own a slot and the records in them; a slot whose record is    *)
(* empty is a tombstone.  The minKey and maxKey of a descriptor are those  *)
(* of its first and last slot, live or not.                                *)
(***************************************************************************)
EXTENDS Integers, FiniteSets

CONSTANTS
  MaxKey,           \* keys are 1..MaxKey
  Val,              \* values a record can carry
  FileId,           \* names of data files
  NoFile,           \* the srcFile of a slice that merges no file
  MaxFileRecords,   \* maxFileBytes / recordSize
  HasMergeFn        \* FALSE: the store was created with mergeFn = NULL

ASSUME MergeAssumption ==
  /\ MaxKey \in Nat
  /\ FileId \subseteq Nat
  /\ NoFile \notin FileId
  /\ MaxFileRecords \in Nat \ {0}
  /\ HasMergeFn \in BOOLEAN

Key   == 1..MaxKey
Tree  == [Key -> SUBSET Val]
File  == [keys : SUBSET Key, recs : Tree]
Slice == [src : FileId \cup {NoFile}, keys : SUBSET Key]

Empty == [k \in Key |-> {}]
Blank == [keys |-> {}, recs |-> Empty]     \* a name that denotes no file

KeysOf(t) == {k \in Key : t[k] # {}}
Count(t)  == Cardinality(KeysOf(t))

\* Two records with the same key; a is the one the code holds, b the one it meets.
Combine(a, b) ==
  IF a = {} THEN b
  ELSE IF b = {} \/ ~HasMergeFn THEN a
  ELSE a \cup b

-----------------------------------------------------------------------------
(* Files and the key space around them.  fs is a set of names, d maps a    *)
(* name to its file.                                                       *)

Lo(f) == CHOOSE k \in f.keys : \A j \in f.keys : k <= j
Hi(f) == CHOOSE k \in f.keys : \A j \in f.keys : k >= j

\* Bug: a file's range taken without its maxKey.
InRange_Exclusive(k, f) == Lo(f) <= k /\ k < Hi(f)

InRange(k, f) == Lo(f) <= k /\ k <= Hi(f)

InGap(k, fs, d) == \A f \in fs : ~InRange(k, d[f])
Above(k, fs, d) == {f \in fs : Lo(d[f]) > k}
IsNext(f, k, fs, d) ==
  f \in Above(k, fs, d) /\ \A g \in Above(k, fs, d) : Lo(d[f]) <= Lo(d[g])

Rank(S, k) == Cardinality({j \in S : j < k})

-----------------------------------------------------------------------------
(* Slices.  The walk over the tree visits every file that covers a key of  *)
(* the tree, and, since after a gap it resumes at the minKey of the next   *)
(* file, that file too.                                                    *)

Touched(t, fs, d) ==
  {f \in fs : \E k \in KeysOf(t) :
      \/ InRange(k, d[f])
      \/ InGap(k, fs, d) /\ IsNext(f, k, fs, d)}

FileSlices(t, fs, d) ==
  {[src |-> f, keys |-> {k \in KeysOf(t) : InRange(k, d[f])}] : f \in Touched(t, fs, d)}

\* The keys of the tree between two neighbouring files, gap by gap.
Gaps(t, fs, d) ==
  LET gap == {k \in KeysOf(t) : InGap(k, fs, d)}
  IN  {{j \in gap : Above(j, fs, d) = Above(k, fs, d)} : k \in gap}

\* flushGap counts to maxFileRecords, cuts, and goes on counting from 1; with
\* maxFileRecords = 1 the count never equals the limit again after the first cut.
GapPart(S, k) ==
  IF MaxFileRecords > 1 THEN Rank(S, k) \div MaxFileRecords
  ELSE IF Rank(S, k) = 0 THEN 0 ELSE 1

GapSlices(t, fs, d) ==
  UNION {{[src |-> NoFile, keys |-> {j \in S : GapPart(S, j) = GapPart(S, k)}] : k \in S}
         : S \in Gaps(t, fs, d)}

CeilDiv(a, b) == (a + b - 1) \div b

\* With no file yet and more records than one file holds, the level walker may
\* return the first keys of the nodes of some level of the tree.  Its shape is not
\* modelled: any boundaries it could return, except those on which the code aborts
\* because a partition is larger than a file.
LevelPlans(t) ==
  LET K       == KeysOf(t)
      part(B, k) == {j \in K : \A b \in B : b <= j <=> b <= k}
      bounds  == {B \in SUBSET K :
                    /\ B # {}
                    /\ \A b \in B : \E k \in K : k < b
                    /\ Cardinality(B) + 1 <= CeilDiv(Cardinality(K), MaxFileRecords)
                    /\ \A k \in K : Cardinality(part(B, k)) <= MaxFileRecords}
  IN  {{[src |-> NoFile, keys |-> part(B, k)] : k \in K} : B \in bounds}

\* The slices a flush of tree t may queue.
Plans(t, fs, d) ==
  {FileSlices(t, fs, d) \cup GapSlices(t, fs, d)}
    \cup (IF fs = {} /\ Count(t) > MaxFileRecords THEN LevelPlans(t) ELSE {})

Sources(plan) == {s.src : s \in plan} \ {NoFile}

-----------------------------------------------------------------------------
(* DoMerge: one slice of the tree against one file.                        *)

\* Bug: the slots of the file are skipped while the tree has records left.
Merged_TreeFirst(t, s, d) ==
  [k \in Key |-> IF k \in s.keys THEN t[k]
                 ELSE IF s.src = NoFile \/ \E j \in s.keys : j > k THEN {}
                 ELSE d[s.src].recs[k]]

Merged(t, s, d) ==
  [k \in Key |-> Combine(IF k \in s.keys THEN t[k] ELSE {},
                         IF s.src = NoFile THEN {} ELSE d[s.src].recs[k])]

NumOut(t, s, d) ==
  IF s.src = NoFile THEN 1
  ELSE CeilDiv(Count(d[s.src].recs) + Count(t), MaxFileRecords) + 1

\* The output a key goes to: the next one when the current holds maxFileRecords,
\* unless it is the last.
OutPart(t, s, d, k) ==
  LET full == Rank(KeysOf(Merged(t, s, d)), k) \div MaxFileRecords
      last == NumOut(t, s, d) - 1
  IN  IF full < last THEN full ELSE last

OutFile(m, C) == [keys |-> C, recs |-> [k \in Key |-> IF k \in C THEN m[k] ELSE {}]]

\* The files a slice leaves; outputs that got no record are dropped.
Outputs(t, s, d) ==
  LET m == Merged(t, s, d)
  IN  {OutFile(m, {j \in KeysOf(m) : OutPart(t, s, d, j) = OutPart(t, s, d, k)})
       : k \in KeysOf(m)}

PlanOutputs(t, plan, d) == UNION {Outputs(t, s, d) : s \in plan}
=============================================================================
