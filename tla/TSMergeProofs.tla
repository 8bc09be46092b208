---------------------------- MODULE TSMergeProofs ----------------------------
(***************************************************************************)
(* Facts about slices and the outputs of a merge, for every size of tree,  *)
(* file and registry.                                                      *)
(***************************************************************************)
EXTENDS TSMerge, FiniteSetTheorems, FunctionTheorems, WellFoundedInduction, TLAPS

\* A tree with nothing in it has no keys, and is the only one.
LEMMA EmptyTree ==
  /\ Empty \in Tree
  /\ KeysOf(Empty) = {}
  /\ \A t \in Tree : KeysOf(t) = {} => t = Empty
BY DEF Empty, Tree, KeysOf

\* mergeFn makes a combination the union of the two records.
LEMMA CombineUnion ==
  ASSUME HasMergeFn, NEW a, NEW b
  PROVE  Combine(a, b) = a \cup b
BY DEF Combine

\* Whatever mergeFn is, a combination holds values of the two records only.
LEMMA CombineBound ==
  ASSUME NEW a, NEW b
  PROVE  /\ Combine(a, b) \subseteq a \cup b
         /\ a # {} \/ b # {} => Combine(a, b) # {}
BY DEF Combine

\* The slices of a flush are slices, over files of the registry and keys of the tree.
LEMMA PlanType ==
  ASSUME NEW t, NEW fs \in SUBSET FileId, NEW d, NEW plan \in Plans(t, fs, d)
  PROVE  /\ plan \subseteq Slice
         /\ Sources(plan) \subseteq fs
         /\ \A s \in plan : s.src \in Sources(plan) \cup {NoFile} /\ s.keys \subseteq KeysOf(t)
<1>0. KeysOf(t) \subseteq Key  BY DEF KeysOf
<1>1. \A s \in FileSlices(t, fs, d) : s \in Slice /\ s.src \in fs /\ s.keys \subseteq KeysOf(t)
  BY <1>0 DEF FileSlices, Touched, Slice
<1>2. \A S \in Gaps(t, fs, d) : S \subseteq KeysOf(t)
  BY DEF Gaps
<1>3. \A s \in GapSlices(t, fs, d) : s \in Slice /\ s.src = NoFile /\ s.keys \subseteq KeysOf(t)
  BY <1>0, <1>2 DEF GapSlices, Slice
<1>4. \A P \in LevelPlans(t) : \A s \in P :
        s \in Slice /\ s.src = NoFile /\ s.keys \subseteq KeysOf(t)
  BY <1>0 DEF LevelPlans, Slice
<1>5. \A s \in plan : /\ s \in Slice
                      /\ s.src \in fs \cup {NoFile}
                      /\ s.keys \subseteq KeysOf(t)
  BY <1>1, <1>3, <1>4 DEF Plans
<1> QED  BY <1>5 DEF Sources

\* Every record of the tree is in some slice: none is left behind by the walk over
\* the files and the gaps between them, nor by the partitions of the level walker.
LEMMA PlanCovers ==
  ASSUME NEW t, NEW fs, NEW d, NEW plan \in Plans(t, fs, d), NEW k \in KeysOf(t)
  PROVE  \E s \in plan : k \in s.keys
<1>1. CASE plan \in LevelPlans(t)
  <2> DEFINE part(B, i) == {j \in KeysOf(t) : \A b \in B : b <= j <=> b <= i}
  <2>1. PICK B \in SUBSET KeysOf(t) : plan = {[src |-> NoFile, keys |-> part(B, i)] : i \in KeysOf(t)}
    BY <1>1 DEF LevelPlans
  <2>2. [src |-> NoFile, keys |-> part(B, k)] \in plan
    BY <2>1
  <2>3. k \in part(B, k)
    OBVIOUS
  <2> QED  BY <2>2, <2>3
<1>2. CASE plan = FileSlices(t, fs, d) \cup GapSlices(t, fs, d)
  <2>1. CASE \E f \in fs : InRange(k, d[f])
    <3>1. PICK f \in fs : InRange(k, d[f])
      BY <2>1
    <3>2. f \in Touched(t, fs, d)
      BY <3>1 DEF Touched
    <3>3. [src |-> f, keys |-> {j \in KeysOf(t) : InRange(j, d[f])}] \in plan
      BY <1>2, <3>2 DEF FileSlices
    <3> QED  BY <3>1, <3>3
  <2>2. CASE InGap(k, fs, d)
    <3> DEFINE gap  == {j \in KeysOf(t) : InGap(j, fs, d)}
               S    == {j \in gap : Above(j, fs, d) = Above(k, fs, d)}
               P(i) == [src |-> NoFile, keys |-> {j \in S : GapPart(S, j) = GapPart(S, i)}]
    <3>1. k \in S /\ S \in Gaps(t, fs, d)
      BY <2>2 DEF Gaps
    <3>2. P(k) \in {P(i) : i \in S}
      BY <3>1
    <3>3. P(k) \in GapSlices(t, fs, d)
      <4> HIDE DEF S
      <4> QED  BY <3>1, <3>2 DEF GapSlices
    <3>4. k \in P(k).keys
      BY <3>1
    <3> QED  BY <1>2, <3>3, <3>4
  <2> QED  BY <2>1, <2>2 DEF InGap
<1> QED  BY <1>1, <1>2 DEF Plans

\* What the merge of a slice writes for a key.
LEMMA MergedType ==
  ASSUME NEW t \in Tree, NEW s \in Slice, NEW d \in [FileId -> File]
  PROVE  Merged(t, s, d) \in Tree
<1>1. s.src \in FileId \cup {NoFile}  BY DEF Slice
<1>2. \A k \in Key : s.src # NoFile => d[s.src].recs[k] \subseteq Val
  BY <1>1 DEF File, Tree
<1>3. \A k \in Key : t[k] \subseteq Val
  BY DEF Tree
<1> QED  BY <1>2, <1>3, CombineBound DEF Merged, Tree

LEMMA OutputsType ==
  ASSUME NEW t \in Tree, NEW s \in Slice, NEW d \in [FileId -> File]
  PROVE  Outputs(t, s, d) \subseteq File
<1> DEFINE m == Merged(t, s, d)
<1>1. m \in Tree  BY MergedType
<1>2. ASSUME NEW C \in SUBSET KeysOf(m) PROVE OutFile(m, C) \in File
  BY <1>1 DEF OutFile, File, Tree, KeysOf
<1> QED  BY <1>2 DEF Outputs

\* The outputs of a slice together hold the merged records, no more and no less.
LEMMA OutputsExact ==
  ASSUME NEW t \in Tree, NEW s \in Slice, NEW d \in [FileId -> File], NEW k \in Key
  PROVE  /\ \A o \in Outputs(t, s, d) : o.recs[k] \subseteq Merged(t, s, d)[k]
         /\ Merged(t, s, d)[k] = UNION {o.recs[k] : o \in Outputs(t, s, d)}
<1> DEFINE m == Merged(t, s, d)
           C(j) == {i \in KeysOf(m) : OutPart(t, s, d, i) = OutPart(t, s, d, j)}
<1>1. Outputs(t, s, d) = {OutFile(m, C(j)) : j \in KeysOf(m)}
  BY DEF Outputs
<1>2. \A j : OutFile(m, C(j)).recs[k] = IF k \in C(j) THEN m[k] ELSE {}
  BY DEF OutFile
<1>3. \A o \in Outputs(t, s, d) : o.recs[k] \subseteq m[k]
  BY <1>1, <1>2
<1>4. CASE k \in KeysOf(m)
  <2>1. OutFile(m, C(k)) \in Outputs(t, s, d) /\ OutFile(m, C(k)).recs[k] = m[k]
    BY <1>1, <1>2, <1>4
  <2> HIDE DEF m, C
  <2> QED  BY <1>3, <2>1 DEF m
<1>5. CASE k \notin KeysOf(m)
  <2>1. m[k] = {}  BY <1>5 DEF KeysOf
  <2> QED  BY <1>3, <2>1
<1> QED  BY <1>3, <1>4, <1>5

\* With a mergeFn, that is the record of the tree together with that of the file.
LEMMA MergedUnion ==
  ASSUME HasMergeFn, NEW t \in Tree, NEW s \in Slice, NEW d \in [FileId -> File], NEW k \in Key
  PROVE  Merged(t, s, d)[k] = (IF k \in s.keys THEN t[k] ELSE {})
                                \cup (IF s.src = NoFile THEN {} ELSE d[s.src].recs[k])
BY CombineUnion DEF Merged

\* Without it, still nothing but values of the two.
LEMMA MergedBound ==
  ASSUME NEW t \in Tree, NEW s \in Slice, NEW d \in [FileId -> File], NEW k \in Key
  PROVE  Merged(t, s, d)[k] \subseteq
           t[k] \cup (IF s.src = NoFile THEN {} ELSE d[s.src].recs[k])
<1>1. Merged(t, s, d)[k] = Combine(IF k \in s.keys THEN t[k] ELSE {},
                                   IF s.src = NoFile THEN {} ELSE d[s.src].recs[k])
  BY DEF Merged
<1> QED  BY <1>1, CombineBound

-----------------------------------------------------------------------------
(* Where the keys of a slice lie.                                          *)

LEMMA KeysFinite ==
  /\ Key \subseteq Nat
  /\ \A S \in SUBSET Key : IsFiniteSet(S) /\ Cardinality(S) \in Nat
<1>1. Key \subseteq Nat
  BY MergeAssumption DEF Key
<1>2. IsFiniteSet(Key)
  <2>1. 1 \in Int /\ MaxKey \in Int
    BY MergeAssumption
  <2> QED  BY <2>1, FS_Interval DEF Key
<1> QED  BY <1>1, <1>2, FS_Subset, FS_CardinalityType

\* A set of keys has a first and a last.
LEMMA Ends ==
  ASSUME NEW S \in SUBSET Key, S # {}
  PROVE  /\ \E x \in S : \A y \in S : x <= y
         /\ \E x \in S : \A y \in S : x >= y
<1>0. IsFiniteSet(S) /\ S \subseteq Nat
  BY KeysFinite
<1> DEFINE Below(x) == {y \in S : y < x}
           Beyond(x) == {y \in S : y > x}
           B == {Below(x) : x \in S}
           A == {Beyond(x) : x \in S}
<1>1. \A T \in SUBSET S : T \in FiniteSubsetsOf(S)
  BY <1>0, FS_Subset DEF FiniteSubsetsOf
<1>2. \E x \in S : \A y \in S : x <= y
  <2>1. B \subseteq FiniteSubsetsOf(S) /\ B # {}
    BY <1>1
  <2>2. PICK b \in B : \A y \in B : ~(<<y, b>> \in StrictSubsetOrdering(S))
    BY <1>0, <2>1, FS_StrictSubsetOrderingWellFounded, WFMin
  <2>3. PICK x \in S : b = Below(x)
    OBVIOUS
  <2>4. ASSUME NEW y \in S, y < x PROVE FALSE
    <3>1. \A z \in S : z < y => z < x
      BY <1>0, <2>4
    <3>2. Below(y) \subseteq Below(x)
      BY <3>1
    <3>3. y \in Below(x) /\ y \notin Below(y)
      BY <1>0, <2>4
    <3>4. <<Below(y), Below(x)>> \in StrictSubsetOrdering(S)
      BY <3>2, <3>3 DEF StrictSubsetOrdering
    <3> QED  BY <2>2, <2>3, <3>4
  <2> QED  BY <1>0, <2>4
<1>3. \E x \in S : \A y \in S : x >= y
  <2>1. A \subseteq FiniteSubsetsOf(S) /\ A # {}
    BY <1>1
  <2>2. PICK b \in A : \A y \in A : ~(<<y, b>> \in StrictSubsetOrdering(S))
    BY <1>0, <2>1, FS_StrictSubsetOrderingWellFounded, WFMin
  <2>3. PICK x \in S : b = Beyond(x)
    OBVIOUS
  <2>4. ASSUME NEW y \in S, y > x PROVE FALSE
    <3>1. \A z \in S : z > y => z > x
      BY <1>0, <2>4
    <3>2. Beyond(y) \subseteq Beyond(x)
      BY <3>1
    <3>3. y \in Beyond(x) /\ y \notin Beyond(y)
      BY <1>0, <2>4
    <3>4. <<Beyond(y), Beyond(x)>> \in StrictSubsetOrdering(S)
      BY <3>2, <3>3 DEF StrictSubsetOrdering
    <3> QED  BY <2>2, <2>3, <3>4
  <2> QED  BY <1>0, <2>4
<1> QED  BY <1>2, <1>3

LEMMA FileEnds ==
  ASSUME NEW f \in File, f.keys # {}
  PROVE  /\ Lo(f) \in f.keys /\ Hi(f) \in f.keys
         /\ Lo(f) \in Nat /\ Hi(f) \in Nat
         /\ \A k \in f.keys : Lo(f) <= k /\ k <= Hi(f)
<1>1. f.keys \in SUBSET Key  BY DEF File
<1>2. Lo(f) \in f.keys /\ \A k \in f.keys : Lo(f) <= k
  BY <1>1, Ends DEF Lo
<1>3. Hi(f) \in f.keys /\ \A k \in f.keys : Hi(f) >= k
  BY <1>1, Ends DEF Hi
<1>4. f.keys \subseteq Nat
  BY <1>1, KeysFinite
<1> QED  BY <1>2, <1>3, <1>4

\* The keys of one lie before those of the other.
Separate(A, B) == (\A a \in A, b \in B : a < b) \/ (\A a \in A, b \in B : b < a)

Ranged(fs, d) ==
  \A f \in fs : d[f].keys # {} /\ \A g \in fs : f # g => Separate(d[f].keys, d[g].keys)

\* Ranges are disjoint when the keys of one file lie before those of the other.
LEMMA SeparateRanges ==
  ASSUME NEW f \in File, NEW g \in File, f.keys # {}, g.keys # {}
  PROVE  Separate(f.keys, g.keys) <=> Hi(f) < Lo(g) \/ Hi(g) < Lo(f)
<1>1. f.keys \subseteq Nat /\ g.keys \subseteq Nat
  BY KeysFinite DEF File
<1>2. ASSUME Hi(f) < Lo(g) PROVE \A a \in f.keys, b \in g.keys : a < b
  <2> TAKE a \in f.keys, b \in g.keys
  <2>1. a <= Hi(f) /\ Lo(g) <= b /\ Hi(f) \in Nat /\ Lo(g) \in Nat /\ a \in Nat /\ b \in Nat
    BY <1>1, FileEnds
  <2> QED  BY <1>2, <2>1
<1>3. ASSUME Hi(g) < Lo(f) PROVE \A a \in f.keys, b \in g.keys : b < a
  <2> TAKE a \in f.keys, b \in g.keys
  <2>1. b <= Hi(g) /\ Lo(f) <= a /\ Hi(g) \in Nat /\ Lo(f) \in Nat /\ a \in Nat /\ b \in Nat
    BY <1>1, FileEnds
  <2> QED  BY <1>3, <2>1
<1>4. Separate(f.keys, g.keys) => Hi(f) < Lo(g) \/ Hi(g) < Lo(f)
  BY FileEnds DEF Separate
<1> QED  BY <1>2, <1>3, <1>4 DEF Separate

\* All the keys a slice deals with.
Foot(s, d) == s.keys \cup (IF s.src = NoFile THEN {} ELSE d[s.src].keys)

\* Keys in the range of one file are separate from the keys of the others.
LEMMA RangeSeparate ==
  ASSUME NEW f \in File, NEW g \in File, f.keys # {}, g.keys # {},
         Separate(f.keys, g.keys),
         NEW A \in SUBSET Key, NEW B \in SUBSET Key,
         \A a \in A : InRange(a, f), \A b \in B : InRange(b, g)
  PROVE  Separate(A, B)
<1>1. Lo(f) \in Nat /\ Hi(f) \in Nat /\ Lo(g) \in Nat /\ Hi(g) \in Nat
  BY FileEnds
<1>2. A \subseteq Nat /\ B \subseteq Nat
  BY KeysFinite
<1>3. \A a \in A : Lo(f) <= a /\ a <= Hi(f)
  BY DEF InRange
<1>4. \A b \in B : Lo(g) <= b /\ b <= Hi(g)
  BY DEF InRange
<1>5. CASE Hi(f) < Lo(g)
  BY <1>1, <1>2, <1>3, <1>4, <1>5 DEF Separate
<1>6. CASE Hi(g) < Lo(f)
  BY <1>1, <1>2, <1>3, <1>4, <1>6 DEF Separate
<1> QED  BY <1>5, <1>6, SeparateRanges

\* A gap's keys all lie on the same side of a file.
LEMMA GapSeparate ==
  ASSUME NEW f \in File, f.keys # {}, NEW S \in SUBSET Key, NEW A \in SUBSET Key,
         \A k \in S : ~InRange(k, f),
         \A j, k \in S : Lo(f) > j <=> Lo(f) > k,
         \A a \in A : InRange(a, f)
  PROVE  Separate(S, A)
<1>1. Lo(f) \in Nat /\ Hi(f) \in Nat /\ Lo(f) <= Hi(f)
  BY FileEnds
<1>2. S \subseteq Nat /\ A \subseteq Nat
  BY KeysFinite
<1>3. \A a \in A : Lo(f) <= a /\ a <= Hi(f)
  BY DEF InRange
<1>4. CASE \A k \in S : Lo(f) > k
  BY <1>1, <1>2, <1>3, <1>4 DEF Separate
<1>5. CASE \A k \in S : ~(Lo(f) > k)
  <2>1. \A k \in S : Hi(f) < k
    BY <1>1, <1>2, <1>5 DEF InRange
  <2> QED  BY <1>1, <1>2, <1>3, <2>1 DEF Separate
<1> QED  BY <1>4, <1>5

\* Division keeps the order.
LEMMA DivFacts ==
  ASSUME NEW a \in Nat, NEW m \in Nat \ {0}
  PROVE  /\ a \div m \in Nat
         /\ m * (a \div m) <= a
         /\ a < m * (a \div m) + m
OBVIOUS

LEMMA DivMono ==
  ASSUME NEW a \in Nat, NEW b \in Nat, NEW m \in Nat \ {0}, a <= b
  PROVE  a \div m <= b \div m
<1> DEFINE p == a \div m
           q == b \div m
<1>1. p \in Nat /\ q \in Nat /\ m * p <= b /\ b < m * q + m
  BY DivFacts
<1> HIDE DEF p, q
<1>2. m * p < m * (q + 1)
  BY <1>1
<1>3. p < q + 1
  BY <1>1, <1>2
<1> QED  BY <1>1, <1>3 DEF p, q

LEMMA RankMono ==
  ASSUME NEW S \in SUBSET Key, NEW j \in S, NEW k \in S
  PROVE  /\ Rank(S, j) \in Nat
         /\ j < k => Rank(S, j) < Rank(S, k)
<1>1. IsFiniteSet(S) /\ S \subseteq Nat
  BY KeysFinite
<1> DEFINE J == {i \in S : i < j}
           K == {i \in S : i < k}
<1>2. /\ IsFiniteSet(J) /\ Cardinality(J) \in Nat
      /\ IsFiniteSet(K) /\ Cardinality(K) \in Nat
  BY KeysFinite
<1>3. ASSUME j < k PROVE Cardinality(J) < Cardinality(K)
  <2>1. \A i \in S : i < j => i < k
    BY <1>1, <1>3
  <2>2. J \subseteq K
    BY <2>1
  <2>3. j \in K /\ j \notin J
    BY <1>1, <1>3
  <2> HIDE DEF J, K
  <2>4. Cardinality(J) <= Cardinality(K) /\ Cardinality(J) # Cardinality(K)
    BY <1>2, <2>2, <2>3, FS_Subset
  <2> QED  BY <1>2, <2>4
<1> QED  BY <1>2, <1>3 DEF Rank

LEMMA PartMono ==
  ASSUME NEW S \in SUBSET Key, NEW j \in S, NEW k \in S, j < k
  PROVE  GapPart(S, j) <= GapPart(S, k) /\ GapPart(S, j) \in Nat /\ GapPart(S, k) \in Nat
<1>1. Rank(S, j) \in Nat /\ Rank(S, k) \in Nat /\ Rank(S, j) < Rank(S, k)
  BY RankMono
<1>2. MaxFileRecords \in Nat \ {0}
  BY MergeAssumption
<1> DEFINE a == Rank(S, j)
           b == Rank(S, k)
<1> HIDE DEF a, b
<1>3. a \div MaxFileRecords <= b \div MaxFileRecords
      /\ a \div MaxFileRecords \in Nat /\ b \div MaxFileRecords \in Nat
  BY <1>1, <1>2, DivMono, DivFacts DEF a, b
<1> QED  BY <1>1, <1>3 DEF GapPart, a, b

\* Groups of keys cut by a number that grows with the key are separate.
LEMMA CutSeparate ==
  ASSUME NEW S \in SUBSET Key, NEW p \in [S -> Int],
         \A j, k \in S : j < k => p[j] <= p[k],
         NEW x \in S, NEW y \in S, p[x] # p[y]
  PROVE  Separate({j \in S : p[j] = p[x]}, {j \in S : p[j] = p[y]})
<1>1. S \subseteq Nat
  BY KeysFinite
<1>2. CASE p[x] < p[y]
  BY <1>1, <1>2 DEF Separate
<1>3. CASE p[y] < p[x]
  BY <1>1, <1>3 DEF Separate
<1> QED  BY <1>2, <1>3

LEMMA FileSlicesSeparate ==
  ASSUME NEW t, NEW fs \in SUBSET FileId, NEW d \in [FileId -> File], Ranged(fs, d),
         NEW s \in FileSlices(t, fs, d)
  PROVE  /\ s.src \in fs /\ Foot(s, d) \in SUBSET Key
         /\ \A k \in Foot(s, d) : InRange(k, d[s.src])
         /\ \A r \in FileSlices(t, fs, d) : s # r => s.src # r.src
<1>1. PICK f \in Touched(t, fs, d) : s = [src |-> f, keys |-> {k \in KeysOf(t) : InRange(k, d[f])}]
  BY DEF FileSlices
<1>2. f \in fs /\ f \in FileId /\ f # NoFile
  BY MergeAssumption DEF Touched
<1>3. d[f] \in File /\ d[f].keys # {}
  BY <1>2 DEF Ranged
<1>4. \A k \in d[f].keys : InRange(k, d[f])
  BY <1>3, FileEnds DEF InRange
<1>5. Foot(s, d) = {k \in KeysOf(t) : InRange(k, d[f])} \cup d[f].keys
  BY <1>1, <1>2 DEF Foot
<1>6. Foot(s, d) \in SUBSET Key
  BY <1>3, <1>5 DEF KeysOf, File
<1>7. \A r \in FileSlices(t, fs, d) : r.src = s.src => r = s
  BY <1>1 DEF FileSlices
<1> QED  BY <1>1, <1>2, <1>4, <1>5, <1>6, <1>7

LEMMA GapsShape ==
  ASSUME NEW t, NEW fs \in SUBSET FileId, NEW d, NEW S \in Gaps(t, fs, d)
  PROVE  /\ S \in SUBSET Key
         /\ \A k \in S : InGap(k, fs, d)
         /\ \A j, k \in S, f \in fs : Lo(d[f]) > j <=> Lo(d[f]) > k
         /\ \A T \in Gaps(t, fs, d) :
              S # T => \A j \in S, k \in T : Above(j, fs, d) # Above(k, fs, d)
<1> DEFINE gap == {k \in KeysOf(t) : InGap(k, fs, d)}
           part(k) == {j \in gap : Above(j, fs, d) = Above(k, fs, d)}
<1>1. Gaps(t, fs, d) = {part(k) : k \in gap}
  BY DEF Gaps
<1>2. PICK x \in gap : S = part(x)
  BY <1>1
<1>3. \A j \in S : Above(j, fs, d) = Above(x, fs, d) /\ InGap(j, fs, d) /\ j \in Key
  BY <1>2 DEF KeysOf
<1>4. \A j, k \in S, f \in fs : Lo(d[f]) > j <=> Lo(d[f]) > k
  BY <1>3 DEF Above
<1>5. ASSUME NEW T \in Gaps(t, fs, d), NEW j \in S, NEW k \in T,
             Above(j, fs, d) = Above(k, fs, d)
      PROVE  S = T
  <2>1. PICK y \in gap : T = part(y)
    BY <1>1
  <2>2. Above(k, fs, d) = Above(y, fs, d)
    BY <2>1
  <2>3. Above(y, fs, d) = Above(x, fs, d)
    BY <1>3, <1>5, <2>2
  <2> QED  BY <1>2, <2>1, <2>3
<1> QED  BY <1>3, <1>4, <1>5

LEMMA GapSlicesSeparate ==
  ASSUME NEW t, NEW fs \in SUBSET FileId, NEW d \in [FileId -> File], Ranged(fs, d),
         NEW s \in GapSlices(t, fs, d)
  PROVE  /\ s.src = NoFile /\ s.keys \in SUBSET Key
         /\ \A k \in s.keys : InGap(k, fs, d)
         /\ \A j, k \in s.keys, f \in fs : Lo(d[f]) > j <=> Lo(d[f]) > k
         /\ \A r \in GapSlices(t, fs, d) : s # r => Separate(s.keys, r.keys)
<1>0. PICK S \in Gaps(t, fs, d) : \E y \in S :
         s = [src |-> NoFile, keys |-> {j \in S : GapPart(S, j) = GapPart(S, y)}]
  BY DEF GapSlices
<1>1. PICK x \in S : s = [src |-> NoFile, keys |-> {j \in S : GapPart(S, j) = GapPart(S, x)}]
  BY <1>0
<1>2. s.src = NoFile /\ s.keys = {j \in S : GapPart(S, j) = GapPart(S, x)}
  BY <1>1
<1>3. S \in SUBSET Key /\ s.keys \subseteq S
  BY <1>2, GapsShape
<1>4. ASSUME NEW r \in GapSlices(t, fs, d), s # r
      PROVE  Separate(s.keys, r.keys)
  <2>0. PICK T \in Gaps(t, fs, d) : \E z \in T :
         r = [src |-> NoFile, keys |-> {j \in T : GapPart(T, j) = GapPart(T, z)}]
    BY DEF GapSlices
  <2>1. PICK y \in T : r = [src |-> NoFile, keys |-> {j \in T : GapPart(T, j) = GapPart(T, y)}]
    BY <2>0
  <2>2. r.keys = {j \in T : GapPart(T, j) = GapPart(T, y)} /\ T \in SUBSET Key
    BY <2>1, GapsShape
  <2>3. CASE S = T
    <3> DEFINE p == [j \in S |-> GapPart(S, j)]
    <3>1. GapPart(S, x) # GapPart(S, y)
      BY <1>1, <1>4, <2>1, <2>3
    <3>2. \A j \in S : GapPart(S, j) \in Nat
      BY <1>3, RankMono, DivFacts, MergeAssumption DEF GapPart
    <3>3. \A j, k \in S : j < k => p[j] <= p[k]
      BY <1>3, PartMono
    <3>4. p \in [S -> Int] /\ p[x] # p[y] /\ y \in S
      BY <2>3, <3>1, <3>2
    <3>5. Separate({j \in S : p[j] = p[x]}, {j \in S : p[j] = p[y]})
      <4> HIDE DEF p
      <4> QED  BY <1>3, <3>3, <3>4, CutSeparate
    <3> QED  BY <1>2, <2>2, <2>3, <3>5
  <2>4. CASE S # T
    <3>1. PICK f \in fs : ~(Lo(d[f]) > x <=> Lo(d[f]) > y)
      <4>1. Above(x, fs, d) # Above(y, fs, d)
        BY <2>4, GapsShape
      <4> QED  BY <4>1 DEF Above
    <3>2. Lo(d[f]) \in Nat /\ S \subseteq Nat /\ T \subseteq Nat
      BY <1>3, <2>2, KeysFinite, FileEnds DEF Ranged
    <3>3. (\A j \in S : Lo(d[f]) > j <=> Lo(d[f]) > x) /\ (\A j \in T : Lo(d[f]) > j <=> Lo(d[f]) > y)
      BY GapsShape
    <3>4. Separate(S, T)
      BY <3>1, <3>2, <3>3 DEF Separate
    <3> QED  BY <1>2, <2>2, <3>4 DEF Separate
  <2> QED  BY <2>3, <2>4
<1>5. \A k \in s.keys : InGap(k, fs, d)
  BY <1>3, GapsShape
<1>6. \A j, k \in s.keys, f \in fs : Lo(d[f]) > j <=> Lo(d[f]) > k
  BY <1>3, GapsShape
<1> QED  BY <1>2, <1>3, <1>4, <1>5, <1>6

LEMMA LevelPlanSeparate ==
  ASSUME NEW t, NEW plan \in LevelPlans(t), NEW s \in plan
  PROVE  /\ s.src = NoFile /\ s.keys \in SUBSET Key
         /\ \A r \in plan : s # r => Separate(s.keys, r.keys)
         /\ Cardinality(s.keys) <= MaxFileRecords
<1> DEFINE K == KeysOf(t)
           part(B, k) == {j \in K : \A b \in B : b <= j <=> b <= k}
<1>0. K \subseteq Key /\ K \subseteq Nat
  BY KeysFinite DEF KeysOf
<1>1. PICK B \in SUBSET K : /\ plan = {[src |-> NoFile, keys |-> part(B, k)] : k \in K}
                            /\ \A k \in K : Cardinality(part(B, k)) <= MaxFileRecords
  BY DEF LevelPlans
<1>2. PICK x \in K : s = [src |-> NoFile, keys |-> part(B, x)]
  BY <1>1
<1>3. ASSUME NEW r \in plan, s # r
      PROVE  Separate(s.keys, r.keys)
  <2>1. PICK y \in K : r = [src |-> NoFile, keys |-> part(B, y)]
    BY <1>1
  <2>2. part(B, x) # part(B, y)
    BY <1>2, <1>3, <2>1
  <2>3. PICK b \in B : ~(b <= x <=> b <= y)
    BY <2>2
  <2>4. b \in Nat /\ x \in Nat /\ y \in Nat
    BY <1>0
  <2>5. (\A j \in part(B, x) : b <= j <=> b <= x) /\ (\A j \in part(B, y) : b <= j <=> b <= y)
    OBVIOUS
  <2>6. part(B, x) \subseteq Nat /\ part(B, y) \subseteq Nat
    BY <1>0
  <2>7. Separate(part(B, x), part(B, y))
    <3> HIDE DEF part
    <3> QED  BY <2>3, <2>4, <2>5, <2>6 DEF Separate
  <2> QED  BY <1>2, <2>1, <2>7
<1>4. Cardinality(s.keys) <= MaxFileRecords
  BY <1>1, <1>2
<1>5. s.keys \in SUBSET Key
  BY <1>0, <1>2
<1> QED  BY <1>2, <1>3, <1>4, <1>5

LEMMA SeparateSym ==
  ASSUME NEW A, NEW B, Separate(A, B)
  PROVE  Separate(B, A)
BY DEF Separate

LEMMA SeparateParts ==
  ASSUME NEW A, NEW B, Separate(A, B), NEW C \in SUBSET A, NEW D \in SUBSET B
  PROVE  Separate(C, D)
BY DEF Separate

\* However a flush cuts the tree, its slices never reach into each other's keys, nor
\* into those of a file that no slice merges.
LEMMA PlanSeparate ==
  ASSUME NEW t, NEW fs \in SUBSET FileId, NEW d \in [FileId -> File], Ranged(fs, d),
         NEW plan \in Plans(t, fs, d), NEW s \in plan
  PROVE  /\ \A r \in plan : s # r => Separate(Foot(s, d), Foot(r, d))
         /\ \A f \in fs \ Sources(plan) : Separate(Foot(s, d), d[f].keys)
<1>1. CASE plan \in LevelPlans(t) /\ fs = {}
  <2>1. Foot(s, d) = s.keys
    BY <1>1, LevelPlanSeparate DEF Foot
  <2>2. \A r \in plan : Foot(r, d) = r.keys
    BY <1>1, LevelPlanSeparate DEF Foot
  <2> QED  BY <1>1, <2>1, <2>2, LevelPlanSeparate
<1>2. CASE plan = FileSlices(t, fs, d) \cup GapSlices(t, fs, d)
  <2>1. \A r \in GapSlices(t, fs, d) : Foot(r, d) = r.keys
    BY GapSlicesSeparate DEF Foot
  <2>2. ASSUME NEW r \in FileSlices(t, fs, d), NEW g \in fs, r.src # g,
               NEW A \in SUBSET Key, \A k \in A : InRange(k, d[g])
        PROVE  Separate(Foot(r, d), A)
    <3> DEFINE f == r.src
    <3>1. f \in fs /\ Foot(r, d) \in SUBSET Key /\ \A k \in Foot(r, d) : InRange(k, d[f])
      BY FileSlicesSeparate
    <3>2. d[f] \in File /\ d[g] \in File /\ d[f].keys # {} /\ d[g].keys # {}
          /\ Separate(d[f].keys, d[g].keys)
      BY <2>2, <3>1 DEF Ranged
    <3> HIDE DEF f
    <3> QED  BY <2>2, <3>1, <3>2, RangeSeparate
  <2>3. ASSUME NEW r \in GapSlices(t, fs, d), NEW g \in fs,
               NEW A \in SUBSET Key, \A k \in A : InRange(k, d[g])
        PROVE  Separate(Foot(r, d), A)
    <3>1. d[g] \in File /\ d[g].keys # {} /\ r.keys \in SUBSET Key
      BY GapSlicesSeparate DEF Ranged
    <3>2. \A k \in r.keys : ~InRange(k, d[g])
      BY GapSlicesSeparate DEF InGap
    <3>3. \A j, k \in r.keys : Lo(d[g]) > j <=> Lo(d[g]) > k
      BY GapSlicesSeparate
    <3>4. Separate(r.keys, A)
      BY <2>3, <3>1, <3>2, <3>3, GapSeparate
    <3> QED  BY <2>1, <3>4
  <2>4. ASSUME NEW f \in fs \ Sources(plan)
        PROVE  Separate(Foot(s, d), d[f].keys)
    <3>1. d[f].keys \in SUBSET Key /\ \A k \in d[f].keys : InRange(k, d[f])
      <4>1. d[f] \in File /\ d[f].keys # {}
        BY DEF Ranged
      <4> QED  BY <4>1, FileEnds DEF InRange, File
    <3>2. f # NoFile
      BY MergeAssumption
    <3>3. s.src # f
      BY <3>2 DEF Sources
    <3> QED  BY <1>2, <2>2, <2>3, <3>1, <3>3
  <2>5. ASSUME NEW r \in plan, s # r
        PROVE  Separate(Foot(s, d), Foot(r, d))
    <3>1. CASE s \in FileSlices(t, fs, d) /\ r \in FileSlices(t, fs, d)
      <4>1. s.src # r.src
        BY <2>5, <3>1, FileSlicesSeparate
      <4>2. r.src \in fs /\ Foot(r, d) \in SUBSET Key /\ \A k \in Foot(r, d) : InRange(k, d[r.src])
        BY <3>1, FileSlicesSeparate
      <4> QED  BY <2>2, <3>1, <4>1, <4>2
    <3>2. CASE s \in FileSlices(t, fs, d) /\ r \in GapSlices(t, fs, d)
      <4>1. s.src \in fs /\ Foot(s, d) \in SUBSET Key /\ \A k \in Foot(s, d) : InRange(k, d[s.src])
        BY <3>2, FileSlicesSeparate
      <4>2. Separate(Foot(r, d), Foot(s, d))
        BY <2>3, <3>2, <4>1
      <4> QED  BY <4>2, SeparateSym
    <3>3. CASE s \in GapSlices(t, fs, d) /\ r \in FileSlices(t, fs, d)
      <4>1. r.src \in fs /\ Foot(r, d) \in SUBSET Key /\ \A k \in Foot(r, d) : InRange(k, d[r.src])
        BY <3>3, FileSlicesSeparate
      <4> QED  BY <2>3, <3>3, <4>1
    <3>4. CASE s \in GapSlices(t, fs, d) /\ r \in GapSlices(t, fs, d)
      BY <2>1, <2>5, <3>4, GapSlicesSeparate
    <3> QED  BY <1>2, <3>1, <3>2, <3>3, <3>4
  <2> QED  BY <2>4, <2>5
<1> QED  BY <1>1, <1>2 DEF Plans

-----------------------------------------------------------------------------
(* The outputs of a slice.                                                 *)

\* A file with a slot for each of its records.
Slotted(f) == f.keys # {} /\ KeysOf(f.recs) \subseteq f.keys

LEMMA OutPartMono ==
  ASSUME NEW t \in Tree, NEW s \in Slice, NEW d \in [FileId -> File],
         NEW j \in KeysOf(Merged(t, s, d)), NEW k \in KeysOf(Merged(t, s, d)), j < k
  PROVE  OutPart(t, s, d, j) <= OutPart(t, s, d, k)
<1> DEFINE M == KeysOf(Merged(t, s, d))
           a == Rank(M, j)
           b == Rank(M, k)
           last == NumOut(t, s, d) - 1
<1>1. a \in Nat /\ b \in Nat /\ a < b
  BY RankMono DEF KeysOf
<1>2. OutPart(t, s, d, j) = (IF a \div MaxFileRecords < last THEN a \div MaxFileRecords ELSE last)
      /\ OutPart(t, s, d, k) = (IF b \div MaxFileRecords < last THEN b \div MaxFileRecords ELSE last)
  BY DEF OutPart
<1>3. last \in Int
  <2>1. Count(t) \in Nat
    BY KeysFinite DEF Count, KeysOf
  <2>2. s.src # NoFile => Count(d[s.src].recs) \in Nat
    BY KeysFinite DEF Count, KeysOf
  <2> QED  BY <2>1, <2>2, MergeAssumption DEF NumOut, CeilDiv
<1> HIDE DEF a, b, last
<1>4. /\ a \div MaxFileRecords <= b \div MaxFileRecords
      /\ a \div MaxFileRecords \in Nat /\ b \div MaxFileRecords \in Nat
  BY <1>1, MergeAssumption, DivMono, DivFacts
<1> QED  BY <1>2, <1>3, <1>4

LEMMA CountsNat ==
  ASSUME NEW t \in Tree
  PROVE  /\ KeysOf(t) \in SUBSET Key /\ IsFiniteSet(KeysOf(t)) /\ Count(t) \in Nat
BY KeysFinite DEF Count, KeysOf

\* The outputs of a slice have a slot for each of their records, stay among the keys
\* the slice deals with, and divide them in order.
LEMMA OutputsSeparate ==
  ASSUME NEW t \in Tree, NEW s \in Slice, NEW d \in [FileId -> File],
         s.src # NoFile => Slotted(d[s.src]),
         NEW o \in Outputs(t, s, d)
  PROVE  /\ Slotted(o) /\ o.keys \subseteq Foot(s, d)
         /\ \A p \in Outputs(t, s, d) : o # p => Separate(o.keys, p.keys)
<1> DEFINE m == Merged(t, s, d)
           C(j) == {i \in KeysOf(m) : OutPart(t, s, d, i) = OutPart(t, s, d, j)}
<1>1. Outputs(t, s, d) = {OutFile(m, C(j)) : j \in KeysOf(m)}
  BY DEF Outputs
<1>2. PICK x \in KeysOf(m) : o = OutFile(m, C(x))
  BY <1>1
<1>3. o.keys = C(x) /\ o.recs = [k \in Key |-> IF k \in C(x) THEN m[k] ELSE {}]
  BY <1>2 DEF OutFile
<1>4. KeysOf(m) \subseteq Foot(s, d)
  <2> SUFFICES ASSUME NEW k \in Key, m[k] # {} PROVE k \in Foot(s, d)
    BY DEF KeysOf
  <2>1. m[k] = Combine(IF k \in s.keys THEN t[k] ELSE {},
                       IF s.src = NoFile THEN {} ELSE d[s.src].recs[k])
    BY DEF Merged
  <2>2. k \in s.keys \/ (s.src # NoFile /\ d[s.src].recs[k] # {})
    <3> HIDE DEF m
    <3> QED  BY <2>1 DEF Combine
  <2> QED  BY <2>2 DEF Foot, Slotted, KeysOf
<1>5. Slotted(o)
  <2>1. x \in C(x)
    OBVIOUS
  <2>2. KeysOf(o.recs) \subseteq C(x)
    BY <1>3 DEF KeysOf
  <2> QED  BY <1>3, <2>1, <2>2 DEF Slotted
<1>6. ASSUME NEW p \in Outputs(t, s, d), o # p
      PROVE  Separate(o.keys, p.keys)
  <2>1. PICK y \in KeysOf(m) : p = OutFile(m, C(y))
    BY <1>1
  <2>2. p.keys = C(y)
    BY <2>1 DEF OutFile
  <2>3. C(x) # C(y)
    BY <1>2, <1>6, <2>1
  <2> DEFINE S == KeysOf(m)
             q == [j \in S |-> OutPart(t, s, d, j)]
  <2>4. S \in SUBSET Key
    BY DEF KeysOf
  <2>5. \A j \in S : OutPart(t, s, d, j) \in Int
    <3> SUFFICES ASSUME NEW j \in S PROVE OutPart(t, s, d, j) \in Int
      OBVIOUS
    <3> DEFINE a == Rank(S, j)
               last == NumOut(t, s, d) - 1
    <3>1. OutPart(t, s, d, j) = IF a \div MaxFileRecords < last THEN a \div MaxFileRecords ELSE last
      BY DEF OutPart
    <3>2. a \in Nat
      BY <2>4, RankMono
    <3>3. s.src # NoFile => Count(d[s.src].recs) \in Nat
      BY CountsNat DEF Slice, File
    <3>4. last \in Int
      BY <3>3, CountsNat, MergeAssumption DEF NumOut, CeilDiv
    <3> HIDE DEF a, last
    <3>5. a \div MaxFileRecords \in Int
      BY <3>2, MergeAssumption, DivFacts
    <3> QED  BY <3>1, <3>4, <3>5
  <2>6. \A j, k \in S : j < k => q[j] <= q[k]
    BY OutPartMono
  <2>7. q \in [S -> Int] /\ q[x] # q[y] /\ x \in S /\ y \in S
    BY <2>3, <2>5
  <2>8. C(x) = {j \in S : q[j] = q[x]} /\ C(y) = {j \in S : q[j] = q[y]}
    OBVIOUS
  <2>9. Separate({j \in S : q[j] = q[x]}, {j \in S : q[j] = q[y]})
    <3> HIDE DEF q, S
    <3> QED  BY <2>4, <2>6, <2>7, CutSeparate
  <2> QED  BY <1>3, <2>2, <2>8, <2>9
<1>7. o.keys \subseteq Foot(s, d)
  BY <1>3, <1>4
<1> QED  BY <1>5, <1>6, <1>7

\* No more than m keys have ranks with the same quotient by m.
LEMMA RankBlock ==
  ASSUME NEW S \in SUBSET Key, NEW m \in Nat \ {0}, NEW c \in Nat,
         NEW T \in SUBSET S, \A k \in T : Rank(S, k) \div m = c
  PROVE  Cardinality(T) <= m
<1> DEFINE I == (m * c) .. (m * c + m - 1)
           r == [k \in T |-> Rank(S, k)]
<1>1. m * c \in Nat
  OBVIOUS
<1>2. \A k \in T : Rank(S, k) \in I
  <2> SUFFICES ASSUME NEW k \in T PROVE Rank(S, k) \in I
    OBVIOUS
  <2>1. Rank(S, k) \in Nat
    BY RankMono
  <2>2. m * c <= Rank(S, k) /\ Rank(S, k) < m * c + m
    BY <2>1, DivFacts
  <2> QED  BY <1>1, <2>1, <2>2
<1>3. \A j, k \in T : j # k => r[j] # r[k]
  <2> SUFFICES ASSUME NEW j \in T, NEW k \in T, j < k PROVE Rank(S, j) # Rank(S, k)
    BY KeysFinite
  <2> QED  BY RankMono
<1>4. r \in Injection(T, I)
  BY <1>2, <1>3 DEF Injection, IsInjective
<1>5. IsFiniteSet(I) /\ Cardinality(I) = m
  <2>1. m * c \in Int /\ m * c + m - 1 \in Int /\ ~(m * c > m * c + m - 1)
    BY <1>1
  <2> DEFINE lo == m * c
             hi == m * c + m - 1
  <2>2. IsFiniteSet(lo..hi) /\ Cardinality(lo..hi) = hi - lo + 1
    <3> HIDE DEF lo, hi
    <3> QED BY <2>1, FS_Interval DEF lo, hi
  <2> QED  BY <1>1, <2>2
<1>6. Cardinality(T) <= Cardinality(I)
  <2> HIDE DEF I, r
  <2> QED  BY <1>4, <1>5, FS_Injection
<1> QED  BY <1>5, <1>6

LEMMA RankBelowCount ==
  ASSUME NEW S \in SUBSET Key, NEW k \in S
  PROVE  Rank(S, k) < Cardinality(S) /\ Rank(S, k) \in Nat
<1> DEFINE R == {j \in S : j < k}
<1>1. R \in SUBSET S /\ k \notin R
  BY KeysFinite
<1>2. IsFiniteSet(S) /\ Cardinality(S) \in Nat /\ Cardinality(R) \in Nat
  BY KeysFinite
<1>3. Cardinality(R) <= Cardinality(S) /\ Cardinality(R) # Cardinality(S)
  <2> HIDE DEF R
  <2> QED  BY <1>1, <1>2, FS_Subset
<1> QED  BY <1>2, <1>3 DEF Rank

LEMMA CeilAbove ==
  ASSUME NEW r \in Nat, NEW n \in Nat, NEW m \in Nat \ {0}, r < n
  PROVE  r \div m < CeilDiv(n, m)
<1> DEFINE q == r \div m
           l == (n + m - 1) \div m
<1>0. n + m - 1 \in Nat
  OBVIOUS
<1>1. q \in Nat /\ m * q <= r
  BY DivFacts
<1>2. l \in Nat /\ n + m - 1 < m * l + m
  BY <1>0, DivFacts
<1> HIDE DEF q, l
<1>3. m * q < m * l
  BY <1>1, <1>2
<1>4. q < l
  BY <1>1, <1>2, <1>3
<1> QED  BY <1>4 DEF q, l, CeilDiv

\* A key has a slot in the output only if the tree or the source has a record for it.
LEMMA MergedKeys ==
  ASSUME NEW t \in Tree, NEW s \in Slice, NEW d \in [FileId -> File]
  PROVE  /\ s.src = NoFile => KeysOf(Merged(t, s, d)) \subseteq s.keys
         /\ s.src # NoFile => KeysOf(Merged(t, s, d)) \subseteq KeysOf(t) \cup KeysOf(d[s.src].recs)
<1> SUFFICES ASSUME NEW k \in Key, Merged(t, s, d)[k] # {}
             PROVE  IF s.src = NoFile THEN k \in s.keys
                    ELSE t[k] # {} \/ d[s.src].recs[k] # {}
  BY DEF KeysOf
<1>1. Merged(t, s, d)[k] = Combine(IF k \in s.keys THEN t[k] ELSE {},
                                   IF s.src = NoFile THEN {} ELSE d[s.src].recs[k])
  BY DEF Merged
<1> QED  BY <1>1 DEF Combine

\* No output has more slots than a file may have, provided that the keys of a slice
\* without a file fit one: the last output of a slice with a file never overflows.
LEMMA OutputsFit ==
  ASSUME NEW t \in Tree, NEW s \in Slice, NEW d \in [FileId -> File],
         s.src = NoFile => Cardinality(s.keys) <= MaxFileRecords,
         NEW o \in Outputs(t, s, d)
  PROVE  Cardinality(o.keys) <= MaxFileRecords
<1> DEFINE m == Merged(t, s, d)
           S == KeysOf(m)
           C(j) == {i \in S : OutPart(t, s, d, i) = OutPart(t, s, d, j)}
<1>0. S \in SUBSET Key /\ MaxFileRecords \in Nat \ {0}
  BY MergeAssumption DEF KeysOf
<1>1. PICK x \in S : o.keys = C(x)
  BY DEF Outputs, OutFile
<1>2. CASE s.src = NoFile
  <2>1. C(x) \subseteq s.keys
    BY <1>2, MergedKeys
  <2>2. s.keys \in SUBSET Key
    BY DEF Slice
  <2>3. IsFiniteSet(s.keys) /\ Cardinality(s.keys) \in Nat /\ Cardinality(C(x)) \in Nat
    BY <2>1, <2>2, KeysFinite
  <2>4. Cardinality(C(x)) <= Cardinality(s.keys)
    <3> HIDE DEF C
    <3> QED  BY <2>1, <2>3, FS_Subset
  <2> QED  BY <1>0, <1>1, <1>2, <2>3, <2>4
<1>3. CASE s.src # NoFile
  <2> DEFINE n == Count(d[s.src].recs) + Count(t)
             last == NumOut(t, s, d) - 1
  <2>0. d[s.src].recs \in Tree /\ s.src \in FileId
    BY <1>3 DEF Slice, File
  <2>1. Count(d[s.src].recs) \in Nat /\ Count(t) \in Nat
        /\ IsFiniteSet(KeysOf(t)) /\ IsFiniteSet(KeysOf(d[s.src].recs))
    BY <2>0, CountsNat
  <2>2. Cardinality(S) <= n
    <3> DEFINE K == KeysOf(t)
               L == KeysOf(d[s.src].recs)
    <3>1. S \subseteq K \cup L
      BY <1>3, MergedKeys
    <3>2. IsFiniteSet(K) /\ IsFiniteSet(L) /\ Cardinality(K) \in Nat /\ Cardinality(L) \in Nat
          /\ n = Cardinality(L) + Cardinality(K)
      BY <2>1 DEF Count
    <3> HIDE DEF K, L, S, n
    <3>3. /\ IsFiniteSet(K \cup L)
          /\ Cardinality(K \cup L) = Cardinality(K) + Cardinality(L) - Cardinality(K \cap L)
      BY <3>2, FS_Union
    <3>4. Cardinality(K \cap L) \in Nat /\ Cardinality(K \cup L) \in Nat
      BY <3>2, <3>3, FS_Intersection, FS_CardinalityType
    <3>5. Cardinality(S) <= Cardinality(K \cup L)
      BY <3>1, <3>3, FS_Subset
    <3>6. Cardinality(S) \in Nat
      BY <1>0, KeysFinite
    <3> QED  BY <3>2, <3>3, <3>4, <3>5, <3>6
  <2>3. last = CeilDiv(n, MaxFileRecords)
    <3>1. CeilDiv(n, MaxFileRecords) \in Int
      BY <1>0, <2>1 DEF CeilDiv
    <3> QED  BY <1>3, <3>1 DEF NumOut
  <2>4. \A k \in S : OutPart(t, s, d, k) = Rank(S, k) \div MaxFileRecords
    <3> SUFFICES ASSUME NEW k \in S PROVE OutPart(t, s, d, k) = Rank(S, k) \div MaxFileRecords
      OBVIOUS
    <3>0. n \in Nat
      BY <2>1
    <3>1. Rank(S, k) \in Nat /\ Rank(S, k) < Cardinality(S) /\ Cardinality(S) \in Nat /\ n \in Nat
      <4> HIDE DEF S, n
      <4> QED  BY <1>0, <3>0, RankBelowCount, KeysFinite
    <3>2. Rank(S, k) < n
      <4> HIDE DEF S, n
      <4> QED  BY <2>2, <3>1
    <3>3. Rank(S, k) \div MaxFileRecords < CeilDiv(n, MaxFileRecords)
      <4> HIDE DEF S, n
      <4> QED  BY <1>0, <3>1, <3>2, CeilAbove
    <3> QED  BY <2>3, <3>3 DEF OutPart
  <2> DEFINE c == Rank(S, x) \div MaxFileRecords
  <2>5. c \in Nat
    BY <1>0, RankMono, DivFacts
  <2>6. C(x) \in SUBSET S /\ \A k \in C(x) : Rank(S, k) \div MaxFileRecords = c
    BY <2>4
  <2>7. Cardinality(C(x)) <= MaxFileRecords
    <3> HIDE DEF C, S, c
    <3> QED  BY <1>0, <2>5, <2>6, RankBlock
  <2> QED  BY <1>1, <2>7
<1> QED  BY <1>2, <1>3

\* Files of more than one record: no slice without a file has more keys than one holds.
LEMMA PlanFits ==
  ASSUME MaxFileRecords > 1, NEW t, NEW fs \in SUBSET FileId, NEW d,
         NEW plan \in Plans(t, fs, d), NEW s \in plan, s.src = NoFile
  PROVE  Cardinality(s.keys) <= MaxFileRecords
<1>1. CASE plan \in LevelPlans(t)
  BY <1>1, LevelPlanSeparate
<1>2. CASE s \in GapSlices(t, fs, d)
  <2>0. PICK S \in Gaps(t, fs, d) : \E y \in S :
           s = [src |-> NoFile, keys |-> {j \in S : GapPart(S, j) = GapPart(S, y)}]
    BY <1>2 DEF GapSlices
  <2>1. PICK x \in S : s = [src |-> NoFile, keys |-> {j \in S : GapPart(S, j) = GapPart(S, x)}]
    BY <2>0
  <2>2. S \in SUBSET Key /\ MaxFileRecords \in Nat \ {0}
    BY GapsShape, MergeAssumption
  <2> DEFINE c == Rank(S, x) \div MaxFileRecords
  <2>3. c \in Nat
    BY <2>2, RankMono, DivFacts
  <2>4. s.keys \in SUBSET S /\ \A k \in s.keys : Rank(S, k) \div MaxFileRecords = c
    BY <2>1 DEF GapPart
  <2> HIDE DEF c
  <2> QED  BY <2>2, <2>3, <2>4, RankBlock
<1>3. CASE s \in FileSlices(t, fs, d)
  BY <1>3, MergeAssumption DEF FileSlices, Touched
<1> QED  BY <1>1, <1>2, <1>3 DEF Plans
=============================================================================
