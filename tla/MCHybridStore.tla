--------------------------- MODULE MCHybridStore ---------------------------
(***************************************************************************)
(* Instances of HybridStore for TLC.  The sets are sets of model values    *)
(* given in the configurations.  Their members are interchangeable: the    *)
(* CHOOSE of RefBar has one candidate at most, so even the refinement run  *)
(* may use the symmetry.  The progress run does not.                       *)
(***************************************************************************)
EXTENDS HybridStore, TLC

Symmetry ==
    Permutations(Keys) \union Permutations(Handles) \union Permutations(Refs)
        \union Permutations(Threads) \union Permutations(Slots)

============================================================================
