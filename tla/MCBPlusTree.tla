---------------------------- MODULE MCBPlusTree ----------------------------
(***************************************************************************)
(* Instances of the B+ tree.  They start with an empty tree, with the tree *)
(* that the inserts of 1 to 6 leave, whose root is full, or with the tree  *)
(* of three levels that 6 and 5 inserted again make of it (a duplicate     *)
(* splits full nodes too): its keys 3 and 4 head leaves, 3 one at the      *)
(* border of two parents.                                                  *)
(***************************************************************************)
EXTENDS BPlusTreeProps

CONSTANTS t1, t2

L(data, p, l, r)    == [Leaf EXCEPT !.data = data, !.parent = p, !.left = l, !.right = r]
K(data, ch, p, l, r) == [L(data, p, l, r) EXCEPT !.leaf = FALSE, !.child = ch]

Deep ==
  << L(<<1>>, 3, Nil, 2), L(<<2>>, 3, 1, 4), K(<<2>>, <<1, 2>>, 7, Nil, 6),
     L(<<3>>, 6, 2, 5), L(<<4>>, 6, 4, 8), K(<<4, 5>>, <<4, 5, 8>>, 7, 3, Nil),
     K(<<3>>, <<3, 6>>, Nil, Nil, Nil), L(<<5, 6>>, 6, 5, Nil) >>

Wide ==
  << L(<<1>>, 3, Nil, 2), L(<<2>>, 3, 1, 4), K(<<2, 3, 4>>, <<1, 2, 4, 5>>, Nil, Nil, Nil),
     L(<<3>>, 3, 2, 5), L(<<4, 5, 6>>, 3, 4, Nil) >>

Start(N, r, d, c) ==
  /\ node = N /\ root = r /\ depth = d /\ count = c
  /\ latch = [l \in {Tree} \cup DOMAIN N |-> Open]
  /\ op = [t \in Thread |-> Idle]

MCInit == Init \/ Start(Wide, 3, 2, 6) \/ Start(Deep, 7, 3, 6)

MCSpec == MCInit /\ [][Next]_vars

C(kinds, keys) == [kind : kinds, key : keys]

Threads == {t1, t2}

Mixed ==
  (t1 :> C({"insert", "delete"}, {3}) \cup C({"delete"}, {4}))
  @@ (t2 :> C({"delete", "find", "update", "ge", "lt", "scan"}, {3})
            \cup C({"gt", "le"}, {2}) \cup C({"scan", "ge"}, {0}) \cup C({"lt"}, {7}))
=============================================================================
