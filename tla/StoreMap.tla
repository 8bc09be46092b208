------------------------------ MODULE StoreMap ------------------------------
(***************************************************************************)
(* What a tiered store promises (TierdStore.h): a map from keys to         *)
(* records in which an insert combines with what is there, whatever the    *)
(* store does meanwhile with trees, files and merges.                      *)
(***************************************************************************)
CONSTANTS Key, Val

VARIABLE map

Init == map = [k \in Key |-> {}]

Insert(k, v) == map' = [map EXCEPT ![k] = @ \cup {v}]

Delete(k) == map' = [map EXCEPT ![k] = {}]

Update(k, v) ==
  /\ map[k] # {}
  /\ map' = [map EXCEPT ![k] = {v}]

Next ==
  \E k \in Key :
    \/ \E v \in Val : Insert(k, v) \/ Update(k, v)
    \/ Delete(k)

Spec == Init /\ [][Next]_map
=============================================================================
