------------------------------ MODULE BPNodes ------------------------------
(***************************************************************************)
(* The nodes of a B+ tree and what a split, a borrowing and a merge do to  *)
(* them.  A tree is a function N from allocated node ids to records; data  *)
(* are record pointers, named by their key; key nodes share the pointers   *)
(* of the leaves.  A node of Order pointers holds Order - 1 keys.          *)
(***************************************************************************)
EXTENDS Integers, Sequences, SequencesExt, FiniteSets

CONSTANTS Order, MaxNode

ASSUME BPNodesAssumption ==
  /\ Order \in Nat /\ Order > 2 /\ Order % 2 = 0
  /\ MaxNode \in Nat

Nil     == -1
MinKeys == (Order - 1) \div 2
MaxKeys == Order - 1

Leaf == [leaf |-> TRUE, data |-> <<>>, child |-> <<>>,
         parent |-> Nil, left |-> Nil, right |-> Nil]

\* BPAllocateNode
Fresh(N) == CHOOSE n \in 1..MaxNode \ DOMAIN N :
              \A m \in 1..MaxNode \ DOMAIN N : n <= m

Holds(N, n, k) == k \in ToSet(N[n].data)

\* Where key k is or would be put in node n, and which child leads to it.
Slot(N, n, k)  == 1 + Cardinality({i \in DOMAIN N[n].data : N[n].data[i] < k})
Child(N, n, k) == 1 + Cardinality({i \in DOMAIN N[n].data : N[n].data[i] <= k})

\* The record pointer pushed up, and the children that change their parent.
PushedUp(N, n) == N[n].data[MinKeys + 1]
Moving(N, n)   == IF N[n].leaf THEN <<>>
                  ELSE SubSeq(N[n].child, MinKeys + 2, Len(N[n].child))

\* BPSplitNode: node n keeps the minimum, the new node m gets the rest.
SplitNode(N, n, m) ==
  LET o == N[n]
      d == SubSeq(o.data, IF o.leaf THEN MinKeys + 1 ELSE MinKeys + 2, Len(o.data))
  IN  [x \in DOMAIN N \cup {m} |->
         CASE x = n -> [o EXCEPT !.data = SubSeq(@, 1, MinKeys),
                                 !.child = IF o.leaf THEN @ ELSE SubSeq(@, 1, MinKeys + 1),
                                 !.right = m]
           [] x = m -> [o EXCEPT !.data = d, !.child = Moving(N, n), !.left = n]
           [] x \in ToSet(Moving(N, n)) -> [N[x] EXCEPT !.parent = m]
           [] x = o.right -> [N[x] EXCEPT !.left = m]
           [] OTHER -> N[x]]

\* The parent p takes the pushed pointer k and the new node m behind it.
Adopt(N, p, k, m) ==
  [N EXCEPT ![p].data = InsertAt(@, Slot(N, p, k), k),
            ![p].child = InsertAt(@, Slot(N, p, k) + 1, m)]

SplitChild(N, p, n) == Adopt(SplitNode(N, n, Fresh(N)), p, PushedUp(N, n), Fresh(N))

\* A full root is split under a new root r.
SplitRoot(N, n) ==
  LET m  == Fresh(N)
      N1 == SplitNode(N, n, m)
      r  == Fresh(N1)
  IN  [x \in DOMAIN N1 \cup {r} |->
         CASE x = r -> [Leaf EXCEPT !.leaf = FALSE, !.data = <<PushedUp(N, n)>>,
                                    !.child = <<n, m>>]
           [] x \in {n, m} -> [N1[x] EXCEPT !.parent = r]
           [] OTHER -> N1[x]]

-----------------------------------------------------------------------------
(* Before a delete enters child c of node p the child must hold more than  *)
(* the minimum.                                                            *)

Rich(N, n) == Len(N[n].data) > MinKeys

HasLeft(N, p, c)  == c > 1
HasRight(N, p, c) == c < Len(N[p].child)

\* Borrow from the right, else from the left, else merge to the left, else to
\* the right.
Repair(N, p, c) ==
  LET ch == N[p].child
      richRight == HasRight(N, p, c) /\ Rich(N, ch[c + 1])
      richLeft  == HasLeft(N, p, c) /\ Rich(N, ch[c - 1])
  IN  CASE Rich(N, ch[c])        -> "none"
        [] ~Rich(N, ch[c]) /\ richRight -> "stealRight"
        [] ~Rich(N, ch[c]) /\ ~richRight /\ richLeft -> "stealLeft"
        [] ~Rich(N, ch[c]) /\ ~richRight /\ ~richLeft /\ HasLeft(N, p, c) -> "mergeLeft"
        [] ~Rich(N, ch[c]) /\ ~richRight /\ ~HasLeft(N, p, c) -> "mergeRight"

\* BPMergeOrStealChildLeafNodes: the separator names the head of the right node.
LeafStealRight(N, p, c) ==
  LET r == N[p].child[c + 1] IN
  [N EXCEPT ![p].data[c]             = N[r].data[2],
            ![N[p].child[c]].data    = Append(@, N[r].data[1]),
            ![r].data                = Tail(@)]

LeafStealLeft(N, p, c) ==
  LET l == N[p].child[c - 1] IN
  [N EXCEPT ![p].data[c - 1]         = Last(N[l].data),
            ![N[p].child[c]].data    = <<Last(N[l].data)>> \o @,
            ![l].data                = Front(@)]

\* BPMergeOrStealChildKeyNodes: the separator moves through the parent, and a
\* grandchild g changes its parent.
KeyStealRight(N, p, c) ==
  LET x == N[p].child[c]
      r == N[p].child[c + 1]
      g == N[r].child[1]
  IN  [N EXCEPT ![p].data[c] = N[r].data[1],
                ![x].data = Append(@, N[p].data[c]), ![x].child = Append(@, g),
                ![r].data = Tail(@), ![r].child = Tail(@), ![g].parent = x]

KeyStealLeft(N, p, c) ==
  LET x == N[p].child[c]
      l == N[p].child[c - 1]
      g == Last(N[l].child)
  IN  [N EXCEPT ![p].data[c - 1] = Last(N[l].data),
                ![x].data = <<N[p].data[c - 1]>> \o @, ![x].child = <<g>> \o @,
                ![l].data = Front(@), ![l].child = Front(@), ![g].parent = x]

\* Children i and i + 1 of p become the one of them that is named into; seam
\* is what comes down between their data.
Fuse(N, p, i, into, seam) ==
  LET a == N[p].child[i]
      b == N[p].child[i + 1]
      gone == IF into = a THEN b ELSE a
  IN  [x \in DOMAIN N \ {gone} |->
         CASE x = into -> [N[x] EXCEPT !.data = N[a].data \o seam \o N[b].data,
                                       !.child = N[a].child \o N[b].child,
                                       !.left = N[a].left, !.right = N[b].right]
           [] x = p    -> [N[x] EXCEPT !.data = RemoveAt(@, i),
                                       !.child = RemoveAt(@, IF gone = a THEN i ELSE i + 1)]
           [] x = N[gone].left /\ x # into  -> [N[x] EXCEPT !.right = into]
           [] x = N[gone].right /\ x # into -> [N[x] EXCEPT !.left = into]
           [] x \in ToSet(N[gone].child)    -> [N[x] EXCEPT !.parent = into]
           [] OTHER -> N[x]]

LeafMergeLeft(N, p, c)  == Fuse(N, p, c - 1, N[p].child[c - 1], <<>>)
LeafMergeRight(N, p, c) == Fuse(N, p, c, N[p].child[c + 1], <<>>)
KeyMergeLeft(N, p, c)   == Fuse(N, p, c - 1, N[p].child[c - 1], <<N[p].data[c - 1]>>)
KeyMergeRight(N, p, c)  == Fuse(N, p, c, N[p].child[c + 1], <<N[p].data[c]>>)

Repaired(N, p, c) ==
  LET leaf == N[N[p].child[c]].leaf IN
  CASE Repair(N, p, c) = "none"       -> N
    [] Repair(N, p, c) = "stealRight" -> IF leaf THEN LeafStealRight(N, p, c) ELSE KeyStealRight(N, p, c)
    [] Repair(N, p, c) = "stealLeft"  -> IF leaf THEN LeafStealLeft(N, p, c)  ELSE KeyStealLeft(N, p, c)
    [] Repair(N, p, c) = "mergeLeft"  -> IF leaf THEN LeafMergeLeft(N, p, c)  ELSE KeyMergeLeft(N, p, c)
    [] Repair(N, p, c) = "mergeRight" -> IF leaf THEN LeafMergeRight(N, p, c) ELSE KeyMergeRight(N, p, c)

\* Where the delete goes on, and whose children change their parent.
Entered(N, p, c) ==
  CASE Repair(N, p, c) = "mergeLeft"  -> N[p].child[c - 1]
    [] Repair(N, p, c) = "mergeRight" -> N[p].child[c + 1]
    [] OTHER                          -> N[p].child[c]

Reparented(N, p, c) ==
  LET ch == N[p].child IN
  CASE N[ch[1]].leaf                  -> {}
    [] Repair(N, p, c) = "stealRight" -> {N[ch[c + 1]].child[1]}
    [] Repair(N, p, c) = "stealLeft"  -> {Last(N[ch[c - 1]].child)}
    [] Repair(N, p, c) \in {"mergeLeft", "mergeRight"} -> ToSet(N[ch[c]].child)
    [] OTHER                          -> {}

\* A merge relinks a sibling under another parent, whose latch it must try.
Across(N, p, c) ==
  CASE Repair(N, p, c) = "mergeLeft" /\ ~HasRight(N, p, c) -> {N[N[p].child[c]].right} \ {Nil}
    [] Repair(N, p, c) = "mergeRight"                      -> {N[N[p].child[c]].left} \ {Nil}
    [] OTHER                                               -> {}

RemoveKeyOnly(N, n, k, top) == [N EXCEPT ![n].data = RemoveAt(@, Slot(N, n, k))]

\* BPRemoveFromNonUnderflowLeaf: a separator that named the removed head of
\* leaf n, in key node top, takes the new head.
RemoveKey(N, n, k, top) ==
  LET cut == [N EXCEPT ![n].data = RemoveAt(@, Slot(N, n, k))] IN
  IF top = Nil \/ Slot(N, n, k) # 1 THEN cut
  ELSE [cut EXCEPT ![top].data = [@ EXCEPT ![Slot(N, top, k)] = cut[n].data[1]]]

=============================================================================
