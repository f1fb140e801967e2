------------------------- MODULE ObjectStore_proofs -------------------------
(***************************************************************************)
(* What the abstract store promises holds for any number of keys, handles  *)
(* and references.                                                         *)
(***************************************************************************)
EXTENDS ObjectStore, TLAPS

\* The invariant under which a step preserves NoDangling.
Inv == TypeOK /\ NoDangling

LEMMA InvStep ==
    ASSUME DistinguishedValues, Inv, [Next]_vars
    PROVE  Inv'
<1> USE DEF DistinguishedValues, Inv, TypeOK, NoDangling, Reachable, RefValues
<1>1. ASSUME NEW k \in Keys, NEW h \in Handles, Put(k, h) PROVE Inv'
  BY <1>1 DEF Put
<1>2. ASSUME NEW r \in Refs, NEW k \in Keys, Get(r, k) PROVE Inv'
  BY <1>2 DEF Get
<1>3. ASSUME NEW r \in Refs, Close(r) PROVE Inv'
  BY <1>3 DEF Close, Collects
<1>4. ASSUME NEW dst \in Refs, NEW src \in Refs, MoveConstruct(dst, src) PROVE Inv'
  BY <1>4 DEF MoveConstruct
<1>5. ASSUME NEW dst \in Refs, NEW src \in Refs, MoveAssign(dst, src) PROVE Inv'
  BY <1>5 DEF MoveAssign, Collects
<1>6. CASE Destroy
  BY <1>6 DEF Destroy, Collects
<1>7. CASE Shutdown
  BY <1>7 DEF Shutdown, Collects
<1>8. CASE UNCHANGED vars
  BY <1>8 DEF vars
<1> QED
  BY <1>1, <1>2, <1>3, <1>4, <1>5, <1>6, <1>7, <1>8 DEF Next

\* No key and no reference ever leads to a destroyed handle: every sas_deref
\* of a backend that implements the store is defined.
THEOREM NeverDangling ==
    ASSUME DistinguishedValues
    PROVE  Spec => []NoDangling
<1>1. Init => Inv
  BY DEF DistinguishedValues, Init, Inv, TypeOK, NoDangling, Reachable, RefValues
<1>2. Inv /\ [Next]_vars => Inv'
  BY InvStep
<1>3. Inv => NoDangling
  BY DEF Inv
<1> QED
  BY <1>1, <1>2, <1>3, PTL DEF Spec

=============================================================================
