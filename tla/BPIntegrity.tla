---------------------------- MODULE BPIntegrity ----------------------------
(***************************************************************************)
(* Walks over a B+ tree: the library's own BPIntegrityCheck, one operator  *)
(* per check, and the level walker by which a flush cuts a tree in slices. *)
(***************************************************************************)
EXTENDS BPNodes

RECURSIVE Leftmost(_, _), LinkedFrom(_, _), Spine(_, _), LeafOf(_, _, _), ParentsRight(_, _, _)

Leftmost(N, n) == IF N[n].leaf THEN n ELSE Leftmost(N, N[n].child[1])

\* The nodes of a level from n to the right, and the first node of each level.
LinkedFrom(N, n) == IF n = Nil THEN <<>> ELSE <<n>> \o LinkedFrom(N, N[n].right)
Spine(N, n) == IF N[n].leaf THEN <<n>> ELSE <<n>> \o Spine(N, N[n].child[1])

Levels(N, root) ==
  LET first == Spine(N, root) IN [i \in DOMAIN first |-> LinkedFrom(N, first[i])]

LeafOf(N, n, k) == IF N[n].leaf THEN n ELSE LeafOf(N, N[n].child[Child(N, n, k)], k)

ParentsRight(N, n, p) ==
  /\ N[n].parent = p
  /\ N[n].leaf \/ \A i \in DOMAIN N[n].child : ParentsRight(N, N[n].child[i], n)

Increasing(s) == \A i \in 1..(Len(s) - 1) : s[i] < s[i + 1]

BackLinked(N, level) ==
  /\ N[level[1]].left = Nil
  /\ \A i \in 2..Len(level) : N[level[i]].left = level[i - 1]

BPTreeCheckRootNode(N, root) ==
  N[root].left = Nil /\ N[root].right = Nil /\ N[root].parent = Nil

BPTreeCheckDepthForIdx(levels, depth) == Len(levels) = depth

BPTreeCheckLeafDataOrderByIdx(N, leaves) ==
  /\ BackLinked(N, leaves)
  /\ \A i \in DOMAIN leaves : Increasing(N[leaves[i]].data)
  /\ \A i \in 2..Len(leaves) : Last(N[leaves[i - 1]].data) < N[leaves[i]].data[1]

BPTreeCheckKeyNodes(N, keyLevels) ==
  \A i \in DOMAIN keyLevels :
    /\ BackLinked(N, keyLevels[i])
    /\ \A j \in DOMAIN keyLevels[i] : Increasing(N[keyLevels[i][j]].data)

\* BPFindEqualKey finds the record of every separator.
BPTreeCheckKeysExist(N, root, keyLevels) ==
  \A i \in DOMAIN keyLevels : \A n \in ToSet(keyLevels[i]) : \A k \in ToSet(N[n].data) :
    Holds(N, LeafOf(N, root, k), k)

BPIntegrityCheck(N, root, depth) ==
  LET levels == Levels(N, root) IN
  /\ BPTreeCheckRootNode(N, root)
  /\ BPTreeCheckDepthForIdx(levels, depth)
  /\ BPTreeCheckLeafDataOrderByIdx(N, Last(levels))
  /\ BPTreeCheckKeyNodes(N, Front(levels))
  /\ BPTreeCheckKeysExist(N, root, Front(levels))
  /\ ParentsRight(N, root, Nil)

BPGetNextLevelStartKeys(N, root, target) ==
  LET levels == Levels(N, root)
      deeper == {i \in 2..(Len(levels) - 1) : Len(levels[i - 1]) <= target}
      level  == IF deeper = {} THEN 1 ELSE CHOOSE i \in deeper : \A j \in deeper : j <= i
  IN  [i \in 1..(Len(levels[level]) - 1) |-> N[Leftmost(N, levels[level][i + 1])].data[1]]

\* BPGetLevelStartKeys: the first keys of all but the first node of the
\* deepest key level of at most target nodes, or of the root.
BPGetLevelStartKeys(N, root, target) ==
  LET levels == Levels(N, root)
      walked == {i \in 1..(Len(levels) - 1) : \A j \in 1..i : Len(levels[j]) <= target}
      level  == IF walked = {} THEN 1 ELSE CHOOSE i \in walked : \A j \in walked : j <= i
  IN  [i \in 1..(Len(levels[level]) - 1) |-> N[Leftmost(N, levels[level][i + 1])].data[1]]
=============================================================================
