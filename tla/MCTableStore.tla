---------------------------- MODULE MCTableStore ----------------------------
(***************************************************************************)
(* Instances of TableStore: two keys and two resizes, from one bucket to   *)
(* two, where the keys part, and from two to four; and a smaller one.      *)
(***************************************************************************)
EXTENDS TableStore, TLC

CONSTANTS k1, k2

Capacities == SubSeq(<<1, 2, 4>>, 1, MaxTables)
Hashes == [k \in Keys |-> IF k = k1 THEN 0 ELSE 1]

Symmetry == Permutations(Handles) \union Permutations(Threads)

=============================================================================
