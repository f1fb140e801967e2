----------------------------- MODULE MCEbrGrace -----------------------------
(***************************************************************************)
(* Instances of EbrGrace for TLC.                                          *)
(***************************************************************************)
EXTENDS EbrGrace, TLC

Symmetry ==
    Permutations(Keys) \union Permutations(Handles) \union Permutations(Refs)
        \union Permutations(Threads) \union Permutations(Slots)

=============================================================================
