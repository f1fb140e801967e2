---------------------------- MODULE MCSlotTable ----------------------------
(***************************************************************************)
(* Instances of SlotTable for TLC; threads and scanners are                *)
(* interchangeable.                                                        *)
(***************************************************************************)
EXTENDS SlotTable, TLC

Symmetry == Permutations(Threads) \union Permutations(Scanners)

============================================================================
