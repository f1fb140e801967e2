----------------------------- MODULE MCEbrStore -----------------------------
(***************************************************************************)
(* Instances of EbrStore for TLC.                                          *)
(***************************************************************************)
EXTENDS EbrStore, TLC

Symmetry ==
    Permutations(Keys) \union Permutations(Handles) \union Permutations(Refs)
        \union Permutations(Threads) \union Permutations(Slots)

=============================================================================
