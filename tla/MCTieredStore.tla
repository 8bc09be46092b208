---------------------------- MODULE MCTieredStore ----------------------------
(***************************************************************************)
(* Instances of the tiered store for TLC.                                  *)
(***************************************************************************)
EXTENDS TieredStoreProps, TLC

\* Values are only compared and collected: any two may be exchanged.
Symmetry == Permutations(Val)
=============================================================================
