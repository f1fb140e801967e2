---------------------------- MODULE MCLockStore ----------------------------
(***************************************************************************)
(* An instance of LockStore in which two keys share a lock and a third has *)
(* its own.  The behaviours that leave the third key alone are those of    *)
(* spinlock_store with two keys.                                           *)
(***************************************************************************)
EXTENDS LockStore, TLC

CONSTANTS k1, k2, k3, l1, l2

Groups == k1 :> l1 @@ k2 :> l1 @@ k3 :> l2

============================================================================
