-------------------------- MODULE LockStore_proofs --------------------------
(***************************************************************************)
(* Safety of the lock-based stores, and that they implement ObjectStore,   *)
(* for any number of keys, handles, references and threads, and any locks. *)
(***************************************************************************)
EXTENDS LockStore, FiniteSetTheorems, TLAPS

(***************************************************************************)
(* Types, locals and locks                                                 *)
(***************************************************************************)

\* Of the count we know here only that it is an integer: that it does not
\* fall below zero is a consequence of RefcountExact.
Typed == 
    /\ refcount \in [Handles -> Int]
    /\ map \in [Keys -> Handles \union {NULL}]
    /\ ref \in [Refs -> Handles \union {NULL, Unborn}]
    /\ lock \in [Locks -> Threads \union {NULL}]
    /\ pc \in [Threads -> {"idle", "acquire", "find", "incref", "swap", "store",
                           "unlock", "drop"}]
    /\ key \in [Threads -> Keys \union {NULL}]
    /\ dest \in [Threads -> Refs \union {NULL}]
    /\ ptr \in [Threads -> Handles \union {NULL}]
    /\ old \in [Threads -> Handles \union {NULL}]
    /\ phase \in {"open", "store_reset"}

LEMMA TypedStep == IInv /\ [Next]_vars => Typed'
<1> SUFFICES ASSUME TypeOK, ThreadLocal, [Next]_vars PROVE Typed'
  BY DEF IInv
<1> USE DistinguishedValues, LockAssumption DEF TypeOK, Typed, ThreadLocal
<1>1. ASSUME NEW t \in Threads, Continue(t) PROVE Typed'
  <2>1. CASE Acquire(t)
    BY <2>1 DEF Acquire, locals
  <2>2. CASE Find(t)
    BY <2>2 DEF Find
  <2>3. CASE Incref(t)
    BY <2>3 DEF Incref, locals
  <2>4. CASE LoadOld(t)
    BY <2>4 DEF LoadOld
  <2>5. CASE StoreNew(t)
    BY <2>5 DEF StoreNew
  <2>6. CASE Release(t)
    BY <2>6 DEF Release
  <2>7. CASE DropOld(t)
    BY <2>7 DEF DropOld, DropHandle
  <2> QED
    BY <1>1, <2>1, <2>2, <2>3, <2>4, <2>5, <2>6, <2>7 DEF Continue
<1>2. ASSUME NEW t \in Threads, GetCall(t) PROVE Typed'
  BY <1>2 DEF GetCall
<1>3. ASSUME NEW t \in Threads, PutCall(t) PROVE Typed'
  BY <1>3 DEF PutCall
<1>4. ASSUME NEW r \in Refs, Close(r) PROVE Typed'
  BY <1>4 DEF Close, DropHandle, locals
<1>5. ASSUME NEW dst \in Refs, NEW src \in Refs, MoveConstruct(dst, src) PROVE Typed'
  BY <1>5 DEF MoveConstruct, locals
<1>6. ASSUME NEW dst \in Refs, NEW src \in Refs, MoveAssign(dst, src) PROVE Typed'
  BY <1>6 DEF MoveAssign, DropHandle, locals
<1>7. CASE Teardown
  BY <1>7 DEF Teardown, locals
<1>8. CASE UNCHANGED vars
  BY <1>8 DEF vars, locals
<1> QED
  BY <1>1, <1>2, <1>3, <1>4, <1>5, <1>6, <1>7, <1>8 DEF Next, Terminated

\* The steps of clients on their references, and those of nobody.
RefStep ==
    \/ \E r \in Refs : Close(r)
    \/ \E dst, src \in Refs : MoveConstruct(dst, src) \/ MoveAssign(dst, src)
    \/ UNCHANGED vars

LEMMA RefStepFrame == RefStep => UNCHANGED <<map, lock, pc, locals, phase>>
BY DEF RefStep, Close, MoveConstruct, MoveAssign, vars, locals

LEMMA StepKinds ==
  ASSUME [Next]_vars
  PROVE  \/ \E t \in Threads : \/ Acquire(t) \/ Find(t) \/ Incref(t) \/ LoadOld(t)
                               \/ StoreNew(t) \/ Release(t) \/ DropOld(t)
                               \/ GetCall(t) \/ PutCall(t)
         \/ RefStep
         \/ Teardown
BY DEF Next, Continue, RefStep, Terminated

LEMMA ThreadLocalStep == IInv /\ [Next]_vars => ThreadLocal'
<1> SUFFICES ASSUME IInv, [Next]_vars PROVE ThreadLocal'
  OBVIOUS
<1>a. TypeOK /\ ThreadLocal /\ Locked
  BY DEF IInv
<1> USE <1>a, DistinguishedValues DEF TypeOK, ThreadLocal
<1>1. ASSUME NEW t \in Threads, Acquire(t) \/ Find(t) \/ Incref(t) PROVE ThreadLocal'
  BY <1>1 DEF Acquire, Find, Incref, locals
<1>2. ASSUME NEW t \in Threads, LoadOld(t) \/ StoreNew(t) PROVE ThreadLocal'
  BY <1>2 DEF LoadOld, StoreNew
<1>3. ASSUME NEW t \in Threads, Release(t) \/ DropOld(t) PROVE ThreadLocal'
  BY <1>3 DEF Release, DropOld
<1>4. ASSUME NEW t \in Threads, GetCall(t) PROVE ThreadLocal'
  BY <1>4 DEF GetCall
<1>5. ASSUME NEW t \in Threads, PutCall(t) PROVE ThreadLocal'
  BY <1>5 DEF PutCall
<1>6. CASE RefStep
  BY <1>6, RefStepFrame DEF locals
<1>7. CASE Teardown
  BY <1>7 DEF Teardown, locals
<1> QED
  BY <1>1, <1>2, <1>3, <1>4, <1>5, <1>6, <1>7, StepKinds

LEMMA LockedStep == IInv /\ [Next]_vars => Locked'
<1> SUFFICES ASSUME IInv, [Next]_vars PROVE Locked'
  OBVIOUS
<1>a. TypeOK /\ ThreadLocal /\ Locked
  BY DEF IInv
<1> USE <1>a, LockAssumption, DistinguishedValues DEF TypeOK, ThreadLocal, Locked
<1>1. ASSUME NEW t \in Threads, Acquire(t) PROVE Locked'
  BY <1>1 DEF Acquire, locals
<1>2. ASSUME NEW t \in Threads, Find(t) \/ Incref(t) \/ LoadOld(t) PROVE Locked'
  BY <1>2 DEF Find, Incref, LoadOld, locals
<1>3. ASSUME NEW t \in Threads, StoreNew(t) PROVE Locked'
  BY <1>3 DEF StoreNew
<1>4. ASSUME NEW t \in Threads, Release(t) PROVE Locked'
  BY <1>4 DEF Release
<1>5. ASSUME NEW t \in Threads, DropOld(t) \/ GetCall(t) \/ PutCall(t) PROVE Locked'
  BY <1>5 DEF DropOld, GetCall, PutCall
<1>6. CASE RefStep
  BY <1>6, RefStepFrame DEF locals
<1>7. CASE Teardown
  BY <1>7 DEF Teardown, locals
<1> QED
  BY <1>1, <1>2, <1>3, <1>4, <1>5, <1>6, <1>7, StepKinds

LEMMA DestReservedStep == IInv /\ [Next]_vars => DestReserved'
<1> SUFFICES ASSUME IInv, [Next]_vars PROVE DestReserved'
  OBVIOUS
<1>a. TypeOK /\ ThreadLocal /\ DestReserved
  BY DEF IInv
<1> USE <1>a, DistinguishedValues DEF TypeOK, ThreadLocal, DestReserved
<1>1. ASSUME NEW t \in Threads, Acquire(t) \/ Find(t) \/ Incref(t) PROVE DestReserved'
  BY <1>1 DEF Acquire, Find, Incref, locals
<1>2. ASSUME NEW t \in Threads, LoadOld(t) \/ StoreNew(t) \/ DropOld(t) PROVE DestReserved'
  BY <1>2 DEF LoadOld, StoreNew, DropOld
<1>3. ASSUME NEW t \in Threads, Release(t) PROVE DestReserved'
  BY <1>3 DEF Release
<1>4. ASSUME NEW t \in Threads, GetCall(t) PROVE DestReserved'
  BY <1>4 DEF GetCall, Available
<1>5. ASSUME NEW t \in Threads, PutCall(t) PROVE DestReserved'
  BY <1>5 DEF PutCall
<1>6. CASE RefStep
  <2>1. UNCHANGED <<pc, dest>>
    BY <1>6, RefStepFrame DEF locals
  <2>2. ASSUME NEW r \in Refs, Close(r) PROVE DestReserved'
    BY <2>1, <2>2 DEF Close
  <2>3. ASSUME NEW dst \in Refs, NEW src \in Refs,
               MoveConstruct(dst, src) \/ MoveAssign(dst, src)
        PROVE  DestReserved'
    BY <2>1, <2>3 DEF MoveConstruct, MoveAssign, Available, Settled
  <2> QED
    BY <1>6, <2>1, <2>2, <2>3 DEF RefStep, vars
<1>7. CASE Teardown
  BY <1>7 DEF Teardown, locals
<1> QED
  BY <1>1, <1>2, <1>3, <1>4, <1>5, <1>6, <1>7, StepKinds

(***************************************************************************)
(* Ownership                                                               *)
(***************************************************************************)

LEMMA HoldersFinite ==
  \A h : IsFiniteSet(Holders(h)) /\ Cardinality(Holders(h)) \in Nat
BY FiniteInstance, FS_Subset, FS_CardinalityType DEF Holders

\* An address that make_handle may return is owned by nobody.
LEMMA FreeIsUnowned ==
  ASSUME RefcountExact, NEW h \in Handles, refcount[h] = 0
  PROVE  ~Owned(h)
BY HoldersFinite DEF RefcountExact

\* What a put owns before it stores the handle and after it has.
Putting(t, h) == pc[t] \in {"acquire", "swap", "store"} /\ dest[t] = NULL /\ ptr[t] = h
Dropping(t, h) == pc[t] \in {"unlock", "drop"} /\ old[t] = h

\* The steps that move no handle between owners.
SameOwners ==
    /\ UNCHANGED map
    /\ \A t \in Threads, h \in Handles : /\ Putting(t, h)' <=> Putting(t, h)
                                         /\ Dropping(t, h)' <=> Dropping(t, h)

LEMMA QuietSteps ==
  ASSUME IInv, [Next]_vars
  PROVE  \/ SameOwners
         \/ \E t \in Threads : StoreNew(t) \/ DropOld(t) \/ PutCall(t)
         \/ Teardown
<1> USE DistinguishedValues DEF IInv, TypeOK, ThreadLocal, SameOwners, Putting, Dropping
<1>1. ASSUME NEW t \in Threads, Acquire(t) \/ Incref(t) \/ LoadOld(t) PROVE SameOwners
  BY <1>1 DEF Acquire, Incref, LoadOld, locals
<1>2. ASSUME NEW t \in Threads, Find(t) \/ Release(t) \/ GetCall(t) PROVE SameOwners
  BY <1>2 DEF Find, Release, GetCall
<1>3. CASE RefStep
  BY <1>3, RefStepFrame DEF locals
<1> QED
  BY <1>1, <1>2, <1>3, StepKinds

LEMMA OwnedOnceStep == IInv /\ [Next]_vars => OwnedOnce'
<1> SUFFICES ASSUME IInv, [Next]_vars, NEW x \in Handles PROVE SoleOwner(x)'
  BY DEF OwnedOnce
<1>a. TypeOK /\ ThreadLocal /\ Locked /\ RefcountExact /\ SoleOwner(x)
  BY DEF IInv, OwnedOnce
<1> USE <1>a, DistinguishedValues DEF TypeOK, SoleOwner, InElement, InPut, InDrop
<1>1. CASE SameOwners
  BY <1>1 DEF SameOwners, Putting, Dropping
<1>2. ASSUME NEW t \in Threads, StoreNew(t) PROVE SoleOwner(x)'
  <2>1. /\ pc[t] = "store" /\ dest[t] = NULL /\ key[t] \in Keys
        /\ ptr[t] \in Handles /\ old[t] = map[key[t]]
    BY <1>2 DEF StoreNew, ThreadLocal, Locked
  <2>2. \A u \in Threads : /\ Putting(u, x)' <=> u # t /\ Putting(u, x)
                           /\ Dropping(u, x)' <=> \/ Dropping(u, x)
                                                  \/ u = t /\ x = map[key[t]]
    BY <1>2, <2>1 DEF StoreNew, Putting, Dropping
  <2>3. \A k \in Keys : map'[k] = x <=> IF k = key[t] THEN ptr[t] = x ELSE map[k] = x
    BY <1>2, <2>1 DEF StoreNew
  <2>4. ptr[t] = x => Putting(t, x)
    BY <2>1 DEF Putting
  <2> QED
    BY <2>1, <2>2, <2>3, <2>4 DEF Putting, Dropping
<1>3. ASSUME NEW t \in Threads, DropOld(t) PROVE SoleOwner(x)'
  <2>1. \A u \in Threads : /\ Putting(u, x)' <=> Putting(u, x)
                           /\ Dropping(u, x)' => Dropping(u, x)
    BY <1>3 DEF DropOld, Putting, Dropping
  <2>2. map' = map
    BY <1>3 DEF DropOld
  <2> QED
    BY <2>1, <2>2 DEF Putting, Dropping
<1>4. ASSUME NEW t \in Threads, PutCall(t) PROVE SoleOwner(x)'
  <2>1. PICK h \in Handles : refcount[h] = 0 /\ ptr' = [ptr EXCEPT ![t] = h]
    BY <1>4 DEF PutCall
  <2>2. ~Owned(h)
    BY <2>1, FreeIsUnowned
  <2>3. pc[t] = "idle" /\ dest[t] = NULL /\ UNCHANGED <<map, dest, old>>
    BY <1>4 DEF PutCall, ThreadLocal
  <2>4. \A u \in Threads : /\ Putting(u, x)' <=> Putting(u, x) \/ (u = t /\ x = h)
                           /\ Dropping(u, x)' <=> Dropping(u, x)
    BY <1>4, <2>1, <2>3 DEF PutCall, Putting, Dropping
  <2> QED
    BY <2>2, <2>3, <2>4 DEF Owned, Putting, Dropping
<1>5. CASE Teardown
  BY <1>5 DEF Teardown, locals
<1> QED
  BY <1>1, <1>2, <1>3, <1>4, <1>5, QuietSteps

(***************************************************************************)
(* Reference counts                                                        *)
(***************************************************************************)

\* A handle passes from owner to owner; only a put that allocates it or
\* drops it, and the destructor, make an owned handle of an unowned one or
\* the other way round.
LEMMA OwnedMoves ==
  ASSUME IInv, [Next]_vars, NEW x \in Handles
  PROVE  \/ Owned(x)' <=> Owned(x)
         \/ \E t \in Threads : DropOld(t) \/ PutCall(t)
         \/ Teardown
<1> USE DistinguishedValues DEF Owned, InElement, InPut, InDrop
<1>1. CASE SameOwners
  BY <1>1 DEF SameOwners, Putting, Dropping
<1>2. ASSUME NEW t \in Threads, StoreNew(t) PROVE Owned(x)' <=> Owned(x)
  <2>1. /\ pc[t] = "store" /\ dest[t] = NULL /\ key[t] \in Keys
        /\ ptr[t] \in Handles /\ old[t] = map[key[t]]
    BY <1>2 DEF StoreNew, IInv, TypeOK, ThreadLocal, Locked
  <2>2. InPut(x) <=> InPut(x)' \/ x = ptr[t]
    BY <1>2, <2>1 DEF StoreNew, IInv, TypeOK, OwnedOnce, SoleOwner
  <2>3. InDrop(x)' <=> InDrop(x) \/ x = map[key[t]]
    BY <1>2, <2>1 DEF StoreNew, IInv, TypeOK
  <2>4. \A k \in Keys : map'[k] = x <=> IF k = key[t] THEN ptr[t] = x ELSE map[k] = x
    BY <1>2, <2>1 DEF StoreNew, IInv, TypeOK
  <2>5. /\ InElement(x)' => InElement(x) \/ x = ptr[t]
        /\ x = ptr[t] => InElement(x)'
        /\ InElement(x) => InElement(x)' \/ x = map[key[t]]
        /\ x = map[key[t]] => InElement(x)
    BY <2>1, <2>4 DEF IInv, OwnedOnce, SoleOwner
  <2> QED
    BY <2>2, <2>3, <2>5 DEF Owned
<1> QED
  BY <1>1, <1>2, QuietSteps

\* The steps that leave counts and references alone.
LEMMA QuietCounts ==
  ASSUME [Next]_vars
  PROVE  \/ UNCHANGED <<refcount, ref>>
         \/ \E t \in Threads : Find(t) \/ Incref(t) \/ DropOld(t) \/ PutCall(t)
         \/ \E r \in Refs : Close(r)
         \/ \E dst, src \in Refs : MoveConstruct(dst, src) \/ MoveAssign(dst, src)
         \/ Teardown
BY DEF Next, Continue, Terminated, vars, Acquire, LoadOld, StoreNew, Release, GetCall

\* One more reference, one fewer, or one for another.
LEMMA HolderAdded ==
  ASSUME NEW x, NEW r \in Refs, r \notin Holders(x), Holders(x)' = Holders(x) \union {r}
  PROVE  Cardinality(Holders(x)') = Cardinality(Holders(x)) + 1
BY HoldersFinite, FS_AddElement

LEMMA HolderRemoved ==
  ASSUME NEW x, NEW r \in Refs, r \in Holders(x), Holders(x)' = Holders(x) \ {r}
  PROVE  Cardinality(Holders(x)') = Cardinality(Holders(x)) - 1
BY HoldersFinite, FS_RemoveElement

LEMMA HolderMoved ==
  ASSUME NEW x, NEW dst \in Refs, NEW src \in Refs,
         src \in Holders(x), dst \notin Holders(x),
         Holders(x)' = (Holders(x) \ {src}) \union {dst}
  PROVE  Cardinality(Holders(x)') = Cardinality(Holders(x))
<1>1. /\ Cardinality(Holders(x) \ {src}) = Cardinality(Holders(x)) - 1
      /\ IsFiniteSet(Holders(x) \ {src})
  BY HoldersFinite, FS_RemoveElement
<1>2. Cardinality((Holders(x) \ {src}) \union {dst}) = Cardinality(Holders(x) \ {src}) + 1
  BY <1>1, FS_AddElement
<1> QED
  BY <1>1, <1>2, HoldersFinite

\* The equation of RefcountExact for one handle.
CountOf(h) == refcount[h] = Cardinality(Holders(h)) + (IF Owned(h) THEN 1 ELSE 0)

LEMMA CountExactStep == IInv /\ [Next]_vars => RefcountExact'
<1> SUFFICES ASSUME IInv, [Next]_vars, NEW x \in Handles PROVE CountOf(x)'
  BY DEF RefcountExact, CountOf
<1>a. TypeOK /\ ThreadLocal /\ DestReserved /\ RefcountExact /\ SoleOwner(x) /\ CountOf(x)
  BY DEF IInv, OwnedOnce, RefcountExact, CountOf
<1>b. Cardinality(Holders(x)) \in Nat /\ refcount[x] \in Nat
  BY <1>a, HoldersFinite DEF TypeOK
<1>c. \/ Owned(x)' <=> Owned(x)
      \/ \E t \in Threads : DropOld(t) \/ PutCall(t)
      \/ Teardown
  BY OwnedMoves
<1> USE <1>a, <1>b, DistinguishedValues DEF TypeOK
<1>1. CASE UNCHANGED <<refcount, ref>> /\ (Owned(x)' <=> Owned(x))
  <2>1. Holders(x)' = Holders(x)
    BY <1>1 DEF Holders
  <2> QED
    BY <1>1, <2>1 DEF CountOf
<1>2. ASSUME NEW t \in Threads, Find(t), Owned(x)' <=> Owned(x) PROVE CountOf(x)'
  <2>1. dest[t] \in Refs /\ ref[dest[t]] = Unborn
    BY <1>2 DEF Find, ThreadLocal, DestReserved
  <2>2. Holders(x)' = Holders(x)
    BY <1>2, <2>1 DEF Find, Holders
  <2> QED
    BY <1>2, <2>2 DEF CountOf, Find
<1>3. ASSUME NEW t \in Threads, Incref(t), Owned(x)' <=> Owned(x) PROVE CountOf(x)'
  <2>1. ptr[t] \in Handles /\ dest[t] \in Refs /\ ref[dest[t]] = Unborn
    BY <1>3 DEF Incref, ThreadLocal, DestReserved
  <2>2. CASE x = ptr[t]
    <3>1. dest[t] \notin Holders(x) /\ Holders(x)' = Holders(x) \union {dest[t]}
      BY <1>3, <2>1, <2>2 DEF Incref, Holders
    <3>2. refcount'[x] = refcount[x] + 1
      BY <1>3, <2>1, <2>2 DEF Incref
    <3>3. Cardinality(Holders(x)') = Cardinality(Holders(x)) + 1
      BY <2>1, <3>1, HolderAdded
    <3> QED
      BY <1>3, <3>2, <3>3 DEF CountOf
  <2>3. CASE x # ptr[t]
    <3>1. Holders(x)' = Holders(x) /\ refcount'[x] = refcount[x]
      BY <1>3, <2>1, <2>3 DEF Incref, Holders
    <3> QED
      BY <1>3, <3>1 DEF CountOf
  <2> QED
    BY <2>2, <2>3
<1>4. ASSUME NEW t \in Threads, DropOld(t) PROVE CountOf(x)'
  <2>1. /\ pc[t] = "drop" /\ old[t] \in Handles
        /\ UNCHANGED <<map, ref, dest, ptr>> /\ DropHandle(old[t])
    BY <1>4 DEF DropOld, ThreadLocal
  <2>2. Holders(x)' = Holders(x)
    BY <2>1 DEF Holders
  <2>3. (InElement(x)' <=> InElement(x)) /\ (InPut(x)' <=> InPut(x))
    BY <1>4, <2>1 DEF DropOld, InElement, InPut
  <2>4. CASE x = old[t]
    <3>1. InDrop(x) /\ ~InDrop(x)'
      BY <1>4, <2>1, <2>4 DEF DropOld, SoleOwner, InDrop
    <3>2. refcount'[x] = refcount[x] - 1
      BY <2>1, <2>4 DEF DropHandle
    <3> QED
      BY <2>2, <2>3, <3>1, <3>2 DEF SoleOwner, Owned, CountOf
  <2>5. CASE x # old[t]
    <3>1. InDrop(x)' <=> InDrop(x)
      BY <1>4, <2>1, <2>5 DEF DropOld, InDrop
    <3>2. refcount'[x] = refcount[x]
      BY <2>1, <2>5 DEF DropHandle
    <3> QED
      BY <2>2, <2>3, <3>1, <3>2 DEF Owned, CountOf
  <2> QED
    BY <2>4, <2>5
<1>5. ASSUME NEW t \in Threads, PutCall(t) PROVE CountOf(x)'
  <2>1. PICK h \in Handles : /\ refcount[h] = 0
                             /\ refcount' = [refcount EXCEPT ![h] = 1]
                             /\ ptr' = [ptr EXCEPT ![t] = h]
    BY <1>5 DEF PutCall
  <2>2. pc[t] = "idle" /\ dest[t] = NULL /\ UNCHANGED <<map, ref, dest, old>>
    BY <1>5 DEF PutCall, ThreadLocal
  <2>3. Holders(x)' = Holders(x)
    BY <2>2 DEF Holders
  <2>4. (InElement(x)' <=> InElement(x)) /\ (InDrop(x)' <=> InDrop(x))
    BY <1>5, <2>2 DEF PutCall, InElement, InDrop
  <2>5. InPut(x)' <=> InPut(x) \/ x = h
    BY <1>5, <2>1, <2>2 DEF PutCall, InPut
  <2>6. CASE x = h
    BY <2>1, <2>3, <2>5, <2>6, FreeIsUnowned DEF Owned, CountOf
  <2>7. CASE x # h
    BY <2>1, <2>3, <2>4, <2>5, <2>7 DEF Owned, CountOf
  <2> QED
    BY <2>6, <2>7
<1>6. ASSUME NEW r \in Refs, Close(r), Owned(x)' <=> Owned(x) PROVE CountOf(x)'
  <2>1. CASE x = ref[r]
    <3>1. r \in Holders(x) /\ Holders(x)' = Holders(x) \ {r}
      BY <1>6, <2>1 DEF Close, Holders
    <3>2. refcount'[x] = refcount[x] - 1
      BY <1>6, <2>1 DEF Close, DropHandle
    <3>3. Cardinality(Holders(x)') = Cardinality(Holders(x)) - 1
      BY <3>1, HolderRemoved
    <3> QED
      BY <1>6, <3>2, <3>3 DEF CountOf
  <2>2. CASE x # ref[r]
    <3>1. Holders(x)' = Holders(x) /\ refcount'[x] = refcount[x]
      BY <1>6, <2>2 DEF Close, DropHandle, Holders
    <3> QED
      BY <1>6, <3>1 DEF CountOf
  <2> QED
    BY <2>1, <2>2
<1>7. ASSUME NEW dst \in Refs, NEW src \in Refs, MoveConstruct(dst, src),
             Owned(x)' <=> Owned(x)
      PROVE  CountOf(x)'
  <2>1. /\ dst # src /\ ref[dst] = Unborn /\ UNCHANGED refcount
        /\ ref' = [ref EXCEPT ![dst] = ref[src], ![src] = NULL]
    BY <1>7 DEF MoveConstruct, Available, Settled
  <2>2. CASE x = ref[src]
    <3>1. /\ src \in Holders(x) /\ dst \notin Holders(x)
          /\ Holders(x)' = (Holders(x) \ {src}) \union {dst}
      BY <2>1, <2>2 DEF Holders
    <3> QED
      BY <1>7, <2>1, <3>1, HolderMoved DEF CountOf
  <2>3. CASE x # ref[src]
    <3>1. Holders(x)' = Holders(x)
      BY <2>1, <2>3 DEF Holders
    <3> QED
      BY <1>7, <2>1, <3>1 DEF CountOf
  <2> QED
    BY <2>2, <2>3
<1>8. ASSUME NEW dst \in Refs, NEW src \in Refs, MoveAssign(dst, src),
             Owned(x)' <=> Owned(x)
      PROVE  CountOf(x)'
  <2>1. /\ dst # src /\ DropHandle(ref[dst])
        /\ ref' = [ref EXCEPT ![dst] = ref[src], ![src] = NULL]
    BY <1>8 DEF MoveAssign
  <2>2. CASE x = ref[dst]
    <3>1. refcount'[x] = refcount[x] - 1
      BY <2>1, <2>2 DEF DropHandle
    <3>2. CASE ref[src] = x
      <4>1. src \in Holders(x) /\ Holders(x)' = Holders(x) \ {src}
        BY <2>1, <2>2, <3>2 DEF Holders
      <4>2. Cardinality(Holders(x)') = Cardinality(Holders(x)) - 1
        BY <4>1, HolderRemoved
      <4> QED
        BY <1>8, <3>1, <4>2 DEF CountOf
    <3>3. CASE ref[src] # x
      <4>1. dst \in Holders(x) /\ Holders(x)' = Holders(x) \ {dst}
        BY <2>1, <2>2, <3>3 DEF Holders
      <4>2. Cardinality(Holders(x)') = Cardinality(Holders(x)) - 1
        BY <4>1, HolderRemoved
      <4> QED
        BY <1>8, <3>1, <4>2 DEF CountOf
    <3> QED
      BY <3>2, <3>3
  <2>3. CASE x # ref[dst]
    <3>1. refcount'[x] = refcount[x]
      BY <2>1, <2>3 DEF DropHandle
    <3>2. CASE ref[src] = x
      <4>1. /\ src \in Holders(x) /\ dst \notin Holders(x)
            /\ Holders(x)' = (Holders(x) \ {src}) \union {dst}
        BY <2>1, <2>3, <3>2 DEF Holders
      <4> QED
        BY <1>8, <3>1, <4>1, HolderMoved DEF CountOf
    <3>3. CASE ref[src] # x
      <4>1. Holders(x)' = Holders(x)
        BY <2>1, <2>3, <3>3 DEF Holders
      <4> QED
        BY <1>8, <3>1, <4>1 DEF CountOf
    <3> QED
      BY <3>2, <3>3
  <2> QED
    BY <2>2, <2>3
<1>9. CASE Teardown
  <2>1. UNCHANGED <<ref, pc, key, dest, ptr, old>> /\ \A t \in Threads : pc[t] = "idle"
    BY <1>9 DEF Teardown, locals
  <2>2. ~InPut(x) /\ ~InPut(x)' /\ ~InDrop(x) /\ ~InDrop(x)' /\ ~InElement(x)'
    BY <1>9, <2>1 DEF Teardown, InElement, InPut, InDrop
  <2>3. Holders(x)' = Holders(x)
    BY <2>1 DEF Holders
  <2>4. refcount'[x] = IF InElement(x) THEN refcount[x] - 1 ELSE refcount[x]
    BY <1>9 DEF Teardown, InElement
  <2> QED
    BY <2>2, <2>3, <2>4 DEF Owned, CountOf
<1> QED
  BY <1>c, <1>1, <1>2, <1>3, <1>4, <1>5, <1>6, <1>7, <1>8, <1>9, QuietCounts

(***************************************************************************)
(* Theorems                                                                *)
(***************************************************************************)

LEMMA InitIInv == Init => IInv
<1> SUFFICES ASSUME Init PROVE IInv
  OBVIOUS
<1> USE DistinguishedValues DEF Init
<1>1. TypeOK
  BY DEF TypeOK
<1>2. ThreadLocal /\ Locked /\ DestReserved
  BY DEF ThreadLocal, Locked, DestReserved
<1>3. \A h \in Handles : ~InElement(h) /\ ~InPut(h) /\ ~InDrop(h)
  BY DEF InElement, InPut, InDrop
<1>4. OwnedOnce
  BY <1>3 DEF OwnedOnce, SoleOwner, InElement, InPut, InDrop
<1>5. RefcountExact
  <2>1. \A h \in Handles : Holders(h) = {}
    BY DEF Holders
  <2> QED
    BY <1>3, <2>1, FS_EmptySet DEF RefcountExact, Owned
<1> QED
  BY <1>1, <1>2, <1>4, <1>5 DEF IInv

\* The invariant is inductive.  Its parts say that every variable keeps its
\* type, that a count is never negative, and that it is exact: one for each
\* client reference and one for the single owner, map or put, of a handle.
THEOREM Inductive == Spec => []IInv
<1>1. IInv /\ [Next]_vars => IInv'
  <2> SUFFICES ASSUME IInv, [Next]_vars PROVE IInv'
    OBVIOUS
  <2>1. Typed' /\ RefcountExact'
    BY TypedStep, CountExactStep
  <2>2. TypeOK'
    <3>1. \A h \in Handles : refcount'[h] \in Nat
      <4>1. \A h \in Handles : Cardinality(Holders(h))' \in Nat
        BY HoldersFinite, FiniteInstance, FS_Subset, FS_CardinalityType DEF Holders
      <4> QED
        BY <2>1, <4>1 DEF RefcountExact
    <3> QED
      BY <2>1, <3>1 DEF Typed, TypeOK
  <2> QED
    BY <2>1, <2>2, ThreadLocalStep, LockedStep, DestReservedStep, OwnedOnceStep DEF IInv
<1> QED
  BY InitIInv, <1>1, PTL DEF Spec

\* Exact counting: a put never drops a handle that another put has dropped.
THEOREM CountsExact == Spec => []RefcountExact
<1>1. IInv => RefcountExact
  BY DEF IInv
<1> QED
  BY Inductive, <1>1, PTL

\* Memory safety: a get counts a reference to a handle that exists, and every
\* handle that a client reference holds exists.
THEOREM MemorySafe == Spec => []NoUseAfterFree
<1>1. IInv => NoUseAfterFree
  <2> SUFFICES ASSUME IInv PROVE NoUseAfterFree
    OBVIOUS
  <2>1. ASSUME NEW t \in Threads, pc[t] = "incref" PROVE refcount[ptr[t]] > 0
    <3>1. ptr[t] \in Handles /\ Owned(ptr[t])
      BY <2>1 DEF IInv, TypeOK, ThreadLocal, Locked, Owned, InElement
    <3> QED
      BY <3>1, HoldersFinite DEF IInv, RefcountExact
  <2>2. ASSUME NEW r \in Refs, ref[r] \in Handles PROVE refcount[ref[r]] > 0
    <3>1. Holders(ref[r]) # {}
      BY DEF Holders
    <3>2. Cardinality(Holders(ref[r])) > 0
      BY <3>1, HoldersFinite, FS_EmptySet
    <3> QED
      BY <2>2, <3>2, HoldersFinite DEF IInv, RefcountExact
  <2> QED
    BY <2>1, <2>2 DEF NoUseAfterFree
<1> QED
  BY Inductive, <1>1, PTL

(***************************************************************************)
(* Refinement                                                              *)
(***************************************************************************)

\* A handle with no count is out of reach, and one in the map has a count.
CountMatters ==
    \A h \in Handles :
        /\ refcount[h] \in Nat
        /\ refcount[h] = 0 => ~Store!Reachable(h)
        /\ Owned(h) => refcount[h] > 0

LEMMA CountMattersHolds == IInv => CountMatters
<1> SUFFICES ASSUME IInv, NEW h \in Handles
             PROVE  /\ refcount[h] \in Nat
                    /\ refcount[h] = 0 => ~Store!Reachable(h)
                    /\ Owned(h) => refcount[h] > 0
  BY DEF CountMatters
<1>1. refcount[h] = Cardinality(Holders(h)) + (IF Owned(h) THEN 1 ELSE 0)
  BY DEF IInv, RefcountExact
<1>2. ASSUME NEW r \in Refs, ref[r] = h PROVE Cardinality(Holders(h)) > 0
  <2>1. r \in Holders(h)
    BY <1>2 DEF Holders
  <2> QED
    BY <2>1, HoldersFinite, FS_EmptySet
<1> QED
  BY <1>1, <1>2, HoldersFinite DEF Store!Reachable, Owned, InElement

\* What every step may assume of the states before and after it.
Facts == IInv /\ CountMatters

SamePuts == \A h \in Handles : InPut(h)' <=> InPut(h)

LEMMA AliveSame ==
  ASSUME SamePuts, \A h \in Handles : refcount'[h] > 0 <=> refcount[h] > 0
  PROVE  AliveBar' = AliveBar
BY DEF AliveBar, SamePuts

\* Counts that only fall destroy only what is out of reach.
LEMMA CollectsUnreachable ==
  ASSUME Facts, Facts', SamePuts, \A h \in Handles : refcount'[h] <= refcount[h]
  PROVE  Store!Collects
<1>1. \A h \in Handles : refcount[h] \in Nat /\ refcount'[h] \in Nat
  BY DEF Facts, CountMatters
<1>2. AliveBar' \in SUBSET AliveBar
  BY <1>1 DEF AliveBar, SamePuts
<1>3. ASSUME NEW h \in AliveBar \ AliveBar' PROVE ~Store!Reachable(h)'
  <2>1. h \in Handles /\ refcount'[h] = 0
    BY <1>1, <1>3 DEF AliveBar, SamePuts
  <2> QED
    BY <2>1 DEF Facts, CountMatters
<1> QED
  BY <1>2, <1>3 DEF Store!Collects

\* What a call does before and after it takes effect is invisible.
LEMMA InvisibleSteps ==
  ASSUME Facts, NEW t \in Threads,
         \/ Acquire(t) \/ (Find(t) /\ map[key[t]] # NULL) \/ LoadOld(t) \/ Release(t)
         \/ GetCall(t)
  PROVE  UNCHANGED Store!vars
<1>1. UNCHANGED <<map, refcount, ref, phase>>
  BY DEF Acquire, Find, LoadOld, Release, GetCall
<1>2. SamePuts
  BY DistinguishedValues
  DEF Facts, IInv, TypeOK, ThreadLocal, SamePuts, InPut, Acquire, Find, LoadOld, Release,
      GetCall, locals
<1> QED
  BY <1>1, <1>2, AliveSame DEF Store!vars

\* So is allocation.
LEMMA AllocationInvisible ==
  ASSUME Facts, NEW t \in Threads, PutCall(t)
  PROVE  UNCHANGED Store!vars
<1>a. TypeOK /\ ThreadLocal
  BY DEF Facts, IInv
<1>1. PICK h \in Handles : /\ refcount[h] = 0 /\ refcount' = [refcount EXCEPT ![h] = 1]
                           /\ ptr' = [ptr EXCEPT ![t] = h]
  BY DEF PutCall
<1>2. pc[t] = "idle" /\ dest[t] = NULL /\ UNCHANGED <<map, ref, dest, phase>>
  BY <1>a DEF PutCall, ThreadLocal
<1>3. \A g \in Handles : InPut(g)' <=> InPut(g) \/ g = h
  BY <1>a, <1>1, <1>2 DEF TypeOK, PutCall, InPut
<1>4. AliveBar' = AliveBar
  BY <1>a, <1>1, <1>3 DEF AliveBar, TypeOK
<1> QED
  BY <1>2, <1>4 DEF Store!vars

\* A get takes effect when it misses, or when it counts the handle: the lock
\* keeps the key's entry as it was found.
LEMMA GetGets ==
  ASSUME Facts, NEW t \in Threads, (Find(t) /\ map[key[t]] = NULL) \/ Incref(t)
  PROVE  \E r \in Refs, k \in Keys : Store!Get(r, k)
<1>a. TypeOK /\ ThreadLocal /\ Locked /\ DestReserved /\ CountMatters
  BY DEF Facts, IInv
<1>1. /\ key[t] \in Keys /\ dest[t] \in Refs /\ ref[dest[t]] = Unborn
      /\ UNCHANGED <<map, phase>> /\ phase = "open"
      /\ ref' = [ref EXCEPT ![dest[t]] = map[key[t]]]
  BY <1>a DEF TypeOK, ThreadLocal, Locked, DestReserved, Find, Incref
<1>2. SamePuts
  BY <1>a, DistinguishedValues DEF TypeOK, ThreadLocal, SamePuts, InPut, Find, Incref, locals
<1>3. AliveBar' = AliveBar
  <2>1. CASE Find(t)
    BY <1>2, <2>1, AliveSame DEF Find
  <2>2. CASE Incref(t)
    <3>1. ptr[t] \in Handles /\ refcount[ptr[t]] > 0
      BY <1>a, <2>2 DEF TypeOK, ThreadLocal, Locked, CountMatters, Owned, InElement, Incref
    <3>2. \A h \in Handles : refcount'[h] > 0 <=> refcount[h] > 0
      BY <1>a, <2>2, <3>1 DEF TypeOK, Incref
    <3> QED
      BY <1>2, <3>2, AliveSame
  <2> QED
    BY <2>1, <2>2
<1> QED
  BY <1>1, <1>3 DEF Store!Get

\* A put takes effect when it stores the new handle.
LEMMA StorePuts ==
  ASSUME Facts, NEW t \in Threads, StoreNew(t)
  PROVE  \E k \in Keys, h \in Handles : Store!Put(k, h)
<1>a. TypeOK /\ ThreadLocal /\ CountMatters
  BY DEF Facts, IInv
<1>1. /\ pc[t] = "store" /\ dest[t] = NULL /\ key[t] \in Keys /\ ptr[t] \in Handles
      /\ map' = [map EXCEPT ![key[t]] = ptr[t]]
      /\ UNCHANGED <<refcount, ref, phase>> /\ phase = "open"
  BY <1>a DEF TypeOK, ThreadLocal, StoreNew
<1>2. InPut(ptr[t])
  BY <1>1 DEF InPut
<1>3. refcount[ptr[t]] > 0 /\ SoleOwner(ptr[t])
  BY <1>1, <1>2 DEF Facts, CountMatters, Owned, IInv, OwnedOnce
<1>4. ASSUME NEW h \in Handles PROVE InPut(h)' <=> InPut(h) /\ h # ptr[t]
  BY <1>a, <1>1, <1>3 DEF TypeOK, StoreNew, InPut, SoleOwner
<1>5. AliveBar' = AliveBar \union {ptr[t]}
  BY <1>1, <1>3, <1>4 DEF AliveBar
<1>6. ptr[t] \notin AliveBar
  BY <1>2 DEF AliveBar
<1> QED
  BY <1>1, <1>5, <1>6 DEF Store!Put

\* Dropping a replaced handle, and resetting the store, destroy what no
\* client can reach.
LEMMA DropDestroys ==
  ASSUME Facts, Facts', NEW t \in Threads, DropOld(t)
  PROVE  Store!Destroy
<1>1. UNCHANGED <<map, ref, phase>> /\ SamePuts
  BY DEF Facts, IInv, TypeOK, ThreadLocal, DropOld, SamePuts, InPut
<1>2. \A h \in Handles : refcount'[h] <= refcount[h]
  BY DEF Facts, IInv, TypeOK, DropOld, DropHandle
<1> QED
  BY <1>1, <1>2, CollectsUnreachable DEF Store!Destroy

LEMMA TeardownShutsDown ==
  ASSUME Facts, Facts', Teardown
  PROVE  Store!Shutdown
<1>1. /\ ref' = ref /\ map' = [k \in Keys |-> NULL] /\ SamePuts
      /\ phase = "open" /\ phase' # "open"
  BY DEF Teardown, SamePuts, InPut, locals
<1>2. \A h \in Handles : refcount'[h] <= refcount[h]
  BY DEF Facts, IInv, TypeOK, Teardown
<1> QED
  BY <1>1, <1>2, CollectsUnreachable DEF Store!Shutdown

\* Closing and moving references.
LEMMA RefStepsMap ==
  ASSUME Facts, Facts', RefStep
  PROVE  [Store!Next]_(Store!vars)
<1>a. TypeOK
  BY DEF Facts, IInv
<1>1. map' = map /\ SamePuts
  BY RefStepFrame DEF locals, SamePuts, InPut
<1>2. ASSUME NEW r \in Refs, Close(r) PROVE Store!Close(r)
  <2>1. \A h \in Handles : refcount'[h] <= refcount[h]
    BY <1>a, <1>2 DEF Close, DropHandle, TypeOK
  <2> QED
    BY <1>1, <1>2, <2>1, CollectsUnreachable DEF Close, Settled, Store!Close
<1>3. ASSUME NEW dst \in Refs, NEW src \in Refs, MoveConstruct(dst, src)
      PROVE  Store!MoveConstruct(dst, src)
  BY <1>1, <1>3, AliveSame DEF MoveConstruct, Available, Settled, Store!MoveConstruct
<1>4. ASSUME NEW dst \in Refs, NEW src \in Refs, MoveAssign(dst, src)
      PROVE  Store!MoveAssign(dst, src)
  <2>1. \A h \in Handles : refcount'[h] <= refcount[h]
    BY <1>a, <1>4 DEF MoveAssign, DropHandle, TypeOK
  <2> QED
    BY <1>1, <1>4, <2>1, CollectsUnreachable DEF MoveAssign, Settled, Store!MoveAssign
<1>5. CASE UNCHANGED vars
  BY <1>1, <1>5, AliveSame DEF vars, Store!vars
<1> QED
  BY <1>2, <1>3, <1>4, <1>5 DEF RefStep, Store!Next

LEMMA StepMaps == Facts /\ Facts' /\ [Next]_vars => [Store!Next]_(Store!vars)
<1> SUFFICES ASSUME Facts, Facts', [Next]_vars PROVE [Store!Next]_(Store!vars)
  OBVIOUS
<1>1. ASSUME NEW t \in Threads,
             \/ Acquire(t) \/ Find(t) \/ Incref(t) \/ LoadOld(t) \/ StoreNew(t)
             \/ Release(t) \/ DropOld(t) \/ GetCall(t) \/ PutCall(t)
      PROVE  [Store!Next]_(Store!vars)
  BY <1>1, InvisibleSteps, AllocationInvisible, GetGets, StorePuts, DropDestroys
  DEF Store!Next
<1> QED
  BY <1>1, StepKinds, RefStepsMap, TeardownShutsDown DEF Store!Next

\* The lock-based stores are object stores: their puts and gets take effect
\* atomically, while the key's lock is held, and nothing that a client can
\* reach is destroyed.
THEOREM Refinement == Spec => ImplementsObjectStore
<1>1. Init => Store!Init
  <2> SUFFICES ASSUME Init PROVE Store!Init
    OBVIOUS
  <2>1. AliveBar = {}
    BY DEF AliveBar, Init
  <2> QED
    BY <2>1 DEF Init, Store!Init
<1>2. Spec => []Facts
  <2>1. IInv => Facts
    BY CountMattersHolds DEF Facts
  <2> QED
    BY <2>1, Inductive, PTL
<1> QED
  BY <1>1, <1>2, StepMaps, PTL DEF ImplementsObjectStore, Spec, Store!Spec

=============================================================================
