------------------------- MODULE MCLevelEnumerator --------------------------
(* Three levels: one board, two, two that share a successor, none. *)
EXTENDS LevelEnumeratorProps, TLC

Boards6 == 1 :> {2, 3} @@ 2 :> {4, 5} @@ 3 :> {5, 6} @@ 4 :> {} @@ 5 :> {} @@ 6 :> {}
=============================================================================
