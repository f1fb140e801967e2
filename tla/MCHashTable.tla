---------------------------- MODULE MCHashTable ----------------------------
(***************************************************************************)
(* An instance of HashTable that is resized twice: tables of one, two and  *)
(* four buckets, and two keys that share a bucket until the last resize.   *)
(***************************************************************************)
EXTENDS HashTable, TLC

CONSTANTS k1, k2

Capacities == <<1, 2, 4>>
Hashes == k1 :> 0 @@ k2 :> 2

============================================================================
