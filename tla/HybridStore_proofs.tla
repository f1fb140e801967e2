------------------------ MODULE HybridStore_proofs ------------------------
(***************************************************************************)
(* The hybrid store for any number of keys, handles, references, threads   *)
(* and slots and any scan threshold: its safety, and that it implements    *)
(* ObjectStore.                                                            *)
(***************************************************************************)
EXTENDS HybridStore, FiniteSetTheorems, TLAPS

(***************************************************************************)
(* Type correctness                                                        *)
(***************************************************************************)

\* What push_retire leaves in the variables it writes.
LEMMA PushRetireType ==
  ASSUME TypeOK, NEW t \in Threads, NEW h \in Handles, NEW orphans,
         PushRetire(t, h, orphans)
  PROVE  /\ retired' \in [Threads -> SUBSET Handles]
         /\ counter' \in [Threads -> 0..(SCAN_THRESHOLD - 1)]
         /\ pc' \in [Threads -> PCs]
         /\ seen' \in [Threads -> SUBSET Handles]
<1> USE ThresholdAssumption DEF TypeOK
<1>1. retired' \in [Threads -> SUBSET Handles]
  BY DEF PushRetire
<1>2. CASE counter[t] + 1 >= SCAN_THRESHOLD
  <2>1. BeginScan(t) /\ counter' = [counter EXCEPT ![t] = 0]
    BY <1>2 DEF PushRetire
  <2>2. pc' \in [Threads -> PCs]
    BY <2>1 DEF BeginScan, PCs
  <2> QED
    BY <1>1, <2>1, <2>2 DEF BeginScan
<1>3. CASE ~(counter[t] + 1 >= SCAN_THRESHOLD)
  <2>1. /\ counter[t] + 1 < SCAN_THRESHOLD
        /\ counter' = [counter EXCEPT ![t] = @ + 1]
        /\ pc' = [pc EXCEPT ![t] = Resume(t, orphans)]
        /\ UNCHANGED seen
    BY <1>3 DEF PushRetire
  <2>2. pc' \in [Threads -> PCs]
    BY <2>1 DEF Resume, PCs
  <2> QED
    BY <1>1, <2>1, <2>2
<1> QED
  BY <1>2, <1>3

LEMMA TypeStep == IInv /\ [Next]_vars => TypeOK'
<1> SUFFICES ASSUME TypeOK, ThreadLocal, DestReserved, [Next]_vars PROVE TypeOK'
  BY DEF IInv
<1> USE DistinguishedValues, ThresholdAssumption DEF TypeOK, PCs
<1>1. ASSUME NEW t \in Threads, Continue(t) PROVE TypeOK'
  <2> USE <1>1 DEF shared, domain, locals, ThreadLocal, Up
  <2>1. CASE Adopt(t)
    BY <2>1, PushRetireType DEF Adopt
  <2>2. CASE BeginWalk(t) \/ ScanSlot(t)
    BY <2>2 DEF BeginWalk, ScanSlot
  <2>3. CASE EndScan(t)
    BY <2>3 DEF EndScan
  <2>4. CASE Reclaim(t)
    BY <2>4 DEF Reclaim, DropHandle
  <2>5. CASE EndReclaim(t)
    BY <2>5 DEF EndReclaim, Resume
  <2>6. CASE Release(t)
    BY <2>6 DEF Release
  <2>7. CASE ProtectLoad(t)
    BY <2>7 DEF ProtectLoad
  <2>8. CASE ProtectPublish(t)
    BY <2>8 DEF ProtectPublish
  <2>9. CASE ProtectValidate(t)
    BY <2>9 DEF ProtectValidate
  <2>10. CASE Incref(t)
    <3>1. refcount' \in [Handles -> Int]
      BY <2>10 DEF Incref
    <3>2. ref' \in [Refs -> Handles \union {NULL, Unborn}]
      BY <2>10 DEF Incref
    <3> QED
      BY <2>10, <3>1, <3>2 DEF Incref
  <2>11. CASE Unprotect(t)
    BY <2>11 DEF Unprotect
  <2>12. CASE PutInsert(t)
    BY <2>12 DEF PutInsert, Publish
  <2>13. CASE PutExchange(t)
    BY <2>13, PushRetireType DEF PutExchange, Publish
  <2> QED
    BY <2>1, <2>2, <2>3, <2>4, <2>5, <2>6, <2>7, <2>8, <2>9, <2>10, <2>11,
       <2>12, <2>13 DEF Continue
<1>2. ASSUME NEW t \in Threads, Choose(t) PROVE TypeOK'
  <2> USE <1>2 DEF shared, domain, locals
  <2>1. CASE ThreadStart(t)
    BY <2>1 DEF ThreadStart, Resume
  <2>2. CASE ThreadExit(t)
    BY <2>2 DEF ThreadExit, BeginScan
  <2>3. CASE GetMiss(t)
    BY <2>3 DEF GetMiss
  <2>4. CASE GetCall(t)
    BY <2>4 DEF GetCall
  <2>5. CASE PutCall(t)
    BY <2>5 DEF PutCall
  <2> QED
    BY <2>1, <2>2, <2>3, <2>4, <2>5 DEF Choose
<1>3. ASSUME NEW r \in Refs, Close(r) PROVE TypeOK'
  BY <1>3 DEF Close, DropHandle, domain, locals
<1>4. ASSUME NEW dst \in Refs, NEW src \in Refs, MoveConstruct(dst, src) PROVE TypeOK'
  BY <1>4 DEF MoveConstruct, shared, domain, locals, Settled
<1>5. ASSUME NEW dst \in Refs, NEW src \in Refs, MoveAssign(dst, src) PROVE TypeOK'
  BY <1>5 DEF MoveAssign, DropHandle, domain, locals
<1>6. CASE TeardownStore
  BY <1>6 DEF TeardownStore, domain, locals
<1>7. CASE TeardownDomain
  BY <1>7 DEF TeardownDomain, domain, locals
<1>8. CASE UNCHANGED vars
  BY <1>8 DEF vars, shared, domain, locals
<1> QED
  BY <1>1, <1>2, <1>3, <1>4, <1>5, <1>6, <1>7, <1>8 DEF Next, Terminated

(***************************************************************************)
(* Threads and their slots                                                 *)
(***************************************************************************)

\* What push_retire does, as far as safety is concerned: the handle becomes
\* garbage of the thread, which scans or goes on without having read a slot.
Retires(t, h) ==
    /\ retired' = [retired EXCEPT ![t] = @ \union {h}]
    /\ \A u \in Threads : u # t => pc'[u] = pc[u] /\ seen'[u] = seen[u]
    /\ pc'[t] \in {"collect", "release", "adopt", "idle"}

LEMMA PushRetireGoes ==
  ASSUME TypeOK, NEW t \in Threads, NEW h, NEW orphans, PushRetire(t, h, orphans)
  PROVE  Retires(t, h)
<1>1. CASE BeginScan(t)
  BY <1>1 DEF BeginScan, PushRetire, TypeOK, Retires
<1>2. CASE pc' = [pc EXCEPT ![t] = Resume(t, orphans)] /\ UNCHANGED seen
  BY <1>2 DEF Resume, PushRetire, TypeOK, Retires
<1> QED
  BY <1>1, <1>2 DEF PushRetire

\* The same for the thread that retires an orphan of its slot.
LEMMA AdoptGoes ==
  ASSUME TypeOK, NEW t \in Threads, Adopt(t)
  PROVE  \E h \in orphaned[node[t]] :
           orphaned' = [orphaned EXCEPT ![node[t]] = @ \ {h}] /\ Retires(t, h)
<1>1. PICK h \in orphaned[node[t]] :
        /\ orphaned' = [orphaned EXCEPT ![node[t]] = @ \ {h}]
        /\ PushRetire(t, h, orphaned[node[t]] \ {h})
  BY DEF Adopt
<1> QED
  BY <1>1, PushRetireGoes

LEMMA ThreadLocalStep == IInv /\ [Next]_vars => ThreadLocal'
<1> SUFFICES ASSUME IInv, [Next]_vars PROVE ThreadLocal'
  OBVIOUS
<1>a. TypeOK'
  BY TypeStep
<1> USE <1>a, DistinguishedValues DEF TypeOK, PCs, IInv, ThreadLocal, Up
<1>1. ASSUME NEW t \in Threads, Continue(t) PROVE ThreadLocal'
  <2> USE <1>1 DEF shared, domain, locals
  <2>1. CASE Adopt(t)
    <3>1. PICK h \in orphaned[node[t]] : Retires(t, h)
      BY <2>1, AdoptGoes
    <3>2. pc[t] = "adopt" /\ UNCHANGED <<map, hazard, active, used, node, key, ptr, phase>>
      BY <2>1 DEF Adopt
    <3> QED
      BY <3>1, <3>2 DEF Retires
  <2>2. CASE BeginWalk(t) \/ ScanSlot(t)
    BY <2>2 DEF BeginWalk, ScanSlot
  <2>3. CASE EndScan(t)
    BY <2>3 DEF EndScan
  <2>4. CASE Reclaim(t)
    BY <2>4 DEF Reclaim, DropHandle
  <2>5. CASE EndReclaim(t)
    BY <2>5 DEF EndReclaim, Resume
  <2>6. CASE Release(t)
    BY <2>6 DEF Release, SlotsOwnedOnce
  <2>7. CASE ProtectLoad(t)
    BY <2>7 DEF ProtectLoad
  <2>8. CASE ProtectPublish(t)
    BY <2>8 DEF ProtectPublish, SlotsOwnedOnce
  <2>9. CASE ProtectValidate(t)
    BY <2>9 DEF ProtectValidate
  <2>10. CASE Incref(t)
    BY <2>10 DEF Incref
  <2>11. CASE Unprotect(t)
    BY <2>11 DEF Unprotect, SlotsOwnedOnce
  <2>12. CASE PutInsert(t)
    BY <2>12 DEF PutInsert, Publish
  <2>13. CASE PutExchange(t)
    BY <2>13, PushRetireGoes DEF PutExchange, Publish, Retires
  <2> QED
    BY <2>1, <2>2, <2>3, <2>4, <2>5, <2>6, <2>7, <2>8, <2>9, <2>10, <2>11,
       <2>12, <2>13 DEF Continue
<1>2. ASSUME NEW t \in Threads, Choose(t) PROVE ThreadLocal'
  <2> USE <1>2 DEF shared, domain, locals
  <2>1. CASE ThreadStart(t)
    BY <2>1 DEF ThreadStart, Resume
  <2>2. CASE ThreadExit(t)
    BY <2>2 DEF ThreadExit, BeginScan, SlotsOwnedOnce
  <2>3. CASE GetMiss(t)
    BY <2>3 DEF GetMiss, SlotsOwnedOnce
  <2>4. CASE GetCall(t)
    BY <2>4 DEF GetCall
  <2>5. CASE PutCall(t)
    BY <2>5 DEF PutCall
  <2> QED
    BY <2>1, <2>2, <2>3, <2>4, <2>5 DEF Choose
<1>3. ASSUME NEW r \in Refs, Close(r) PROVE ThreadLocal'
  BY <1>3 DEF Close, DropHandle, domain, locals
<1>4. ASSUME NEW dst \in Refs, NEW src \in Refs, MoveConstruct(dst, src) PROVE ThreadLocal'
  BY <1>4 DEF MoveConstruct, shared, domain, locals
<1>5. ASSUME NEW dst \in Refs, NEW src \in Refs, MoveAssign(dst, src) PROVE ThreadLocal'
  BY <1>5 DEF MoveAssign, DropHandle, domain, locals
<1>6. CASE TeardownStore
  BY <1>6 DEF TeardownStore, AllDown, domain, locals
<1>7. CASE TeardownDomain
  BY <1>7 DEF TeardownDomain, domain, locals
<1>8. CASE UNCHANGED vars
  BY <1>8 DEF vars, shared, domain, locals
<1> QED
  BY <1>1, <1>2, <1>3, <1>4, <1>5, <1>6, <1>7, <1>8 DEF Next, Terminated

LEMMA SlotsOwnedOnceStep == IInv /\ [Next]_vars => SlotsOwnedOnce'
<1> SUFFICES ASSUME IInv, [Next]_vars PROVE SlotsOwnedOnce'
  OBVIOUS
<1> USE DEF IInv, TypeOK, SlotsOwnedOnce, ThreadLocal, Up
<1>1. ASSUME NEW t \in Threads, ThreadStart(t) PROVE SlotsOwnedOnce'
  BY <1>1 DEF ThreadStart
<1>2. ASSUME NEW t \in Threads, Release(t) PROVE SlotsOwnedOnce'
  BY <1>2 DEF Release
<1>3. CASE node' = node /\ \A t \in Threads : Up(t)' => Up(t)
  BY <1>3
<1>4. ASSUME NEW t \in Threads, Continue(t), ~Release(t)
      PROVE  node' = node /\ \A u \in Threads : Up(u)' => Up(u)
  <2>1. pc[t] # "down" /\ node' = node
    BY <1>4 DEF Continue, Adopt, BeginWalk, ScanSlot, EndScan, Reclaim, EndReclaim, ProtectLoad,
       ProtectPublish, ProtectValidate, Incref, Unprotect, PutInsert, PutExchange, domain
  <2>2. \A u \in Threads : u # t => pc'[u] = pc[u]
    BY <1>4, PushRetireGoes, AdoptGoes
    DEF Retires, Continue, BeginWalk, ScanSlot, EndScan, Reclaim, EndReclaim, ProtectLoad,
       ProtectPublish, ProtectValidate, Incref, Unprotect, PutInsert, PutExchange
  <2> QED
    BY <2>1, <2>2
<1>5. ASSUME NEW t \in Threads, Choose(t), ~ThreadStart(t)
      PROVE  node' = node /\ \A u \in Threads : Up(u)' => Up(u)
  BY <1>5 DEF Choose, ThreadExit, GetMiss, GetCall, PutCall, BeginScan, domain
<1>6. ASSUME \/ \E r \in Refs : Close(r)
             \/ \E dst, src \in Refs : MoveConstruct(dst, src) \/ MoveAssign(dst, src)
             \/ TeardownStore \/ TeardownDomain \/ UNCHANGED vars
      PROVE  UNCHANGED <<node, pc>>
  BY <1>6 DEF Close, MoveConstruct, MoveAssign, TeardownStore, TeardownDomain, vars, domain
<1> QED
  BY <1>1, <1>2, <1>3, <1>4, <1>5, <1>6 DEF Next, Terminated

LEMMA DestReservedStep == IInv /\ [Next]_vars => DestReserved'
<1> SUFFICES ASSUME IInv, [Next]_vars PROVE DestReserved'
  OBVIOUS
<1>a. TypeOK'
  BY TypeStep
<1> USE <1>a, DistinguishedValues DEF IInv, TypeOK, DestReserved, Getting
<1>1. ASSUME NEW t \in Threads, Continue(t) PROVE DestReserved'
  <2>1. CASE Incref(t)
    BY <2>1 DEF Incref, domain, locals
  <2>2. CASE Unprotect(t)
    BY <2>2 DEF Unprotect, domain, locals
  <2>3. CASE ProtectLoad(t) \/ ProtectPublish(t) \/ ProtectValidate(t)
    BY <2>3 DEF ProtectLoad, ProtectPublish, ProtectValidate, domain, locals
  <2>4. CASE Adopt(t) \/ PutExchange(t) \/ PutInsert(t)
    <3>1. UNCHANGED <<dest, ref>> /\ pc[t] \notin Getting
      BY <2>4 DEF Adopt, PutExchange, PutInsert, domain, locals
    <3>2. pc'[t] \in {"collect", "release", "adopt", "idle"}
          /\ \A u \in Threads : u # t => pc'[u] = pc[u]
      <4>1. CASE Adopt(t)
        BY <4>1, AdoptGoes DEF Retires
      <4>2. CASE PutExchange(t)
        BY <4>2, PushRetireGoes DEF PutExchange, Retires
      <4>3. CASE PutInsert(t)
        BY <4>3 DEF PutInsert
      <4> QED
        BY <2>4, <4>1, <4>2, <4>3
    <3> QED
      BY <3>1, <3>2
  <2>5. CASE BeginWalk(t) \/ ScanSlot(t) \/ EndScan(t)
    BY <2>5 DEF BeginWalk, ScanSlot, EndScan, domain, locals
  <2>6. CASE Reclaim(t) \/ EndReclaim(t) \/ Release(t)
    BY <2>6 DEF Reclaim, EndReclaim, Release, Resume, domain, locals
  <2> QED
    BY <1>1, <2>1, <2>2, <2>3, <2>4, <2>5, <2>6 DEF Continue
<1>2. ASSUME NEW t \in Threads, Choose(t) PROVE DestReserved'
  <2>1. CASE ThreadStart(t) \/ ThreadExit(t)
    BY <2>1 DEF ThreadStart, ThreadExit, BeginScan, Resume, domain, locals
  <2>2. CASE GetMiss(t)
    BY <2>2 DEF GetMiss, Available, domain, locals
  <2>3. CASE GetCall(t)
    BY <2>3 DEF GetCall, Available
  <2>4. CASE PutCall(t)
    BY <2>4 DEF PutCall
  <2> QED
    BY <1>2, <2>1, <2>2, <2>3, <2>4 DEF Choose
<1>3. ASSUME NEW r \in Refs, Close(r) PROVE DestReserved'
  BY <1>3 DEF Close, domain, locals
<1>4. ASSUME NEW dst \in Refs, NEW src \in Refs, MoveConstruct(dst, src) PROVE DestReserved'
  BY <1>4 DEF MoveConstruct, Available, Settled, domain, locals
<1>5. ASSUME NEW dst \in Refs, NEW src \in Refs, MoveAssign(dst, src) PROVE DestReserved'
  BY <1>5 DEF MoveAssign, Settled, domain, locals
<1>6. CASE TeardownStore \/ TeardownDomain \/ UNCHANGED vars
  BY <1>6 DEF TeardownStore, TeardownDomain, vars, domain, locals
<1> QED
  BY <1>1, <1>2, <1>3, <1>4, <1>5, <1>6 DEF Next, Terminated

(***************************************************************************)
(* Ownership                                                               *)
(***************************************************************************)

\* The steps that move no handle between owners.
SameOwners ==
    /\ UNCHANGED <<map, retired, orphaned>>
    /\ \A t \in Threads : /\ pc'[t] = "put" <=> pc[t] = "put"
                          /\ pc[t] = "put" => ptr'[t] = ptr[t]

LEMMA QuietSteps ==
  ASSUME TypeOK, [Next]_vars
  PROVE  \/ SameOwners
         \/ \E t \in Threads : \/ Adopt(t) \/ Reclaim(t) \/ Release(t)
                               \/ PutCall(t) \/ PutInsert(t) \/ PutExchange(t)
         \/ TeardownStore
         \/ TeardownDomain
<1> USE DEF SameOwners, TypeOK, shared, domain, locals
<1>1. ASSUME NEW t \in Threads,
             \/ BeginWalk(t) \/ ScanSlot(t) \/ EndScan(t) \/ EndReclaim(t) \/ ProtectLoad(t)
             \/ ProtectPublish(t) \/ ProtectValidate(t) \/ Incref(t) \/ Unprotect(t)
      PROVE  SameOwners
  BY <1>1 DEF BeginWalk, ScanSlot, EndScan, EndReclaim, ProtectLoad, ProtectPublish,
     ProtectValidate, Incref, Unprotect, Resume
<1>2. ASSUME NEW t \in Threads, Choose(t), ~PutCall(t) PROVE SameOwners
  BY <1>2 DEF Choose, ThreadStart, ThreadExit, GetMiss, GetCall, BeginScan, Resume
<1>3. ASSUME \/ \E r \in Refs : Close(r)
             \/ \E dst, src \in Refs : MoveConstruct(dst, src) \/ MoveAssign(dst, src)
             \/ UNCHANGED vars
      PROVE  SameOwners
  BY <1>3 DEF Close, MoveConstruct, MoveAssign, vars
<1> QED
  BY <1>1, <1>2, <1>3 DEF Next, Continue, Choose, Terminated

LEMMA HoldersFinite ==
  \A h : IsFiniteSet(Holders(h)) /\ Cardinality(Holders(h)) \in Nat
BY FiniteInstance, FS_Subset, FS_CardinalityType DEF Holders

\* An address that make_handle may return is owned and held by nobody.
LEMMA FreeIsUnowned ==
  ASSUME CountExact, NEW h \in Handles, refcount[h] = 0
  PROVE  ~Owned(h)
BY HoldersFinite DEF CountExact

LEMMA OwnedOnceStep == IInv /\ [Next]_vars => OwnedOnce'
<1> SUFFICES ASSUME IInv, [Next]_vars, NEW x \in Handles PROVE SoleOwner(x)'
  BY DEF OwnedOnce
<1>a. TypeOK /\ ThreadLocal /\ CountExact /\ SoleOwner(x)
  BY DEF IInv, OwnedOnce
<1> USE <1>a, DistinguishedValues
    DEF TypeOK, SoleOwner, InElement, InPut, InRetired, InOrphans
<1>1. CASE SameOwners
  BY <1>1 DEF SameOwners
<1>2. ASSUME NEW t \in Threads, Adopt(t) PROVE SoleOwner(x)'
  <2>1. PICK h \in orphaned[node[t]] :
          orphaned' = [orphaned EXCEPT ![node[t]] = @ \ {h}] /\ Retires(t, h)
    BY <1>2, AdoptGoes
  <2>2. node[t] \in Slots /\ h \in Handles /\ pc[t] = "adopt" /\ UNCHANGED <<map, ptr>>
    BY <1>2 DEF Adopt, ThreadLocal, Up, locals
  <2>3. \A u \in Threads : pc'[u] = "put" <=> pc[u] = "put"
    BY <2>1, <2>2 DEF Retires
  <2>4. CASE h = x
    BY <2>1, <2>2, <2>3, <2>4 DEF Retires
  <2>5. CASE h # x
    <3>1. \A u \in Threads : x \in retired'[u] <=> x \in retired[u]
      BY <2>1, <2>2, <2>5 DEF Retires
    <3>2. \A s \in Slots : x \in orphaned'[s] <=> x \in orphaned[s]
      BY <2>1, <2>2, <2>5 DEF Retires
    <3> QED
      BY <2>2, <2>3, <3>1, <3>2
  <2> QED
    BY <2>4, <2>5
<1>3. ASSUME NEW t \in Threads, Reclaim(t) PROVE SoleOwner(x)'
  <2>1. \A u \in Threads : x \in retired'[u] => x \in retired[u]
    BY <1>3 DEF Reclaim
  <2>2. UNCHANGED <<map, orphaned, pc, ptr>>
    BY <1>3 DEF Reclaim, locals
  <2> QED
    BY <2>1, <2>2
<1>4. ASSUME NEW t \in Threads, Release(t) PROVE SoleOwner(x)'
  <2>1. node[t] \in Slots /\ UNCHANGED <<map, ptr>>
    BY <1>4 DEF Release, ThreadLocal, Up, locals
  <2>2. \A u \in Threads : pc'[u] = "put" <=> pc[u] = "put"
    BY <1>4 DEF Release
  <2>3. \A u \in Threads : x \in retired'[u] <=> u # t /\ x \in retired[u]
    BY <1>4 DEF Release
  <2>4. \A s \in Slots : x \in orphaned'[s] <=>
                           x \in orphaned[s] \/ (s = node[t] /\ x \in retired[t])
    BY <1>4, <2>1 DEF Release
  <2> QED
    BY <2>1, <2>2, <2>3, <2>4
<1>5. ASSUME NEW t \in Threads, PutCall(t) PROVE SoleOwner(x)'
  <2>1. PICK h \in Handles : refcount[h] = 0 /\ ptr' = [ptr EXCEPT ![t] = h]
    BY <1>5 DEF PutCall
  <2>2. ~Owned(h)
    BY <2>1, FreeIsUnowned
  <2>3. UNCHANGED <<map, retired, orphaned>> /\ pc[t] = "idle"
    BY <1>5 DEF PutCall, domain
  <2>4. \A u \in Threads : /\ u # t => pc'[u] = pc[u] /\ ptr'[u] = ptr[u]
                           /\ pc'[t] = "put" /\ ptr'[t] = h
    BY <1>5, <2>1 DEF PutCall
  <2> QED
    BY <2>2, <2>3, <2>4 DEF Owned
<1>6. ASSUME NEW t \in Threads, PutInsert(t) PROVE SoleOwner(x)'
  BY <1>6 DEF PutInsert, Publish, ThreadLocal, domain
<1>7. ASSUME NEW t \in Threads, PutExchange(t) PROVE SoleOwner(x)'
  <2>1. Retires(t, map[key[t]]) /\ key[t] \in Keys /\ ptr[t] \in Handles
    BY <1>7, PushRetireGoes DEF PutExchange, ThreadLocal
  <2>2. /\ pc[t] = "put" /\ UNCHANGED orphaned
        /\ map' = [map EXCEPT ![key[t]] = ptr[t]]
        /\ \A u \in Threads : u # t => ptr'[u] = ptr[u]
    BY <1>7 DEF PutExchange, Publish
  <2>3. \A u \in Threads : pc'[u] = "put" <=> u # t /\ pc[u] = "put"
    BY <2>1, <2>2 DEF Retires
  <2>4. \A u \in Threads : x \in retired'[u] <=>
                             x \in retired[u] \/ (u = t /\ x = map[key[t]])
    BY <2>1 DEF Retires
  <2> QED
    BY <2>1, <2>2, <2>3, <2>4
<1>8. CASE TeardownStore
  BY <1>8 DEF TeardownStore, domain, locals
<1>9. CASE TeardownDomain
  BY <1>9 DEF TeardownDomain, domain, locals
<1> QED
  BY <1>1, <1>2, <1>3, <1>4, <1>5, <1>6, <1>7, <1>8, <1>9, QuietSteps

(***************************************************************************)
(* Reference counts                                                        *)
(***************************************************************************)

\* The steps that leave counts and references alone.
LEMMA QuietCounts ==
  ASSUME [Next]_vars
  PROVE  \/ UNCHANGED <<refcount, ref>>
         \/ \E t \in Threads : GetMiss(t) \/ Incref(t) \/ Reclaim(t) \/ PutCall(t)
         \/ \E r \in Refs : Close(r)
         \/ \E dst, src \in Refs : MoveConstruct(dst, src) \/ MoveAssign(dst, src)
         \/ TeardownStore
         \/ TeardownDomain
BY DEF Next, Continue, Choose, Terminated, vars, shared, Adopt, BeginWalk, ScanSlot, EndScan,
   EndReclaim, Release, ProtectLoad, ProtectPublish, ProtectValidate, Unprotect,
   PutInsert, PutExchange, ThreadStart, ThreadExit, GetCall

\* A handle passes from owner to owner; only three kinds of step make an
\* owned handle of an unowned one or the other way round.
LEMMA OwnedMoves ==
  ASSUME TypeOK, ThreadLocal, [Next]_vars, NEW x \in Handles
  PROVE  \/ Owned(x)' <=> Owned(x)
         \/ \E t \in Threads : Reclaim(t) \/ PutCall(t)
         \/ TeardownStore
         \/ TeardownDomain
<1> USE DistinguishedValues
    DEF TypeOK, Owned, InElement, InPut, InRetired, InOrphans
<1>1. CASE SameOwners
  BY <1>1 DEF SameOwners
<1>2. ASSUME NEW t \in Threads, Adopt(t) PROVE Owned(x)' <=> Owned(x)
  <2>1. PICK h \in orphaned[node[t]] :
          orphaned' = [orphaned EXCEPT ![node[t]] = @ \ {h}] /\ Retires(t, h)
    BY <1>2, AdoptGoes
  <2>2. node[t] \in Slots /\ h \in Handles /\ pc[t] = "adopt" /\ UNCHANGED <<map, ptr>>
    BY <1>2 DEF Adopt, ThreadLocal, Up, locals
  <2>3. \A u \in Threads : pc'[u] = "put" <=> pc[u] = "put"
    BY <2>1, <2>2 DEF Retires
  <2>4. InRetired(x)' <=> InRetired(x) \/ x = h
    BY <2>1 DEF Retires
  <2>5. InOrphans(h)
    BY <2>2
  <2>6. x # h => (InOrphans(x)' <=> InOrphans(x))
    BY <2>1, <2>2
  <2>7. (InElement(x)' <=> InElement(x)) /\ (InPut(x)' <=> InPut(x))
    BY <2>2, <2>3
  <2> QED
    BY <2>4, <2>5, <2>6, <2>7 DEF Owned
<1>3. ASSUME NEW t \in Threads, Release(t) PROVE Owned(x)' <=> Owned(x)
  <2>1. node[t] \in Slots /\ UNCHANGED <<map, ptr>>
    BY <1>3 DEF Release, ThreadLocal, Up, locals
  <2>2. \A u \in Threads : pc'[u] = "put" <=> pc[u] = "put"
    BY <1>3 DEF Release
  <2>3. \A u \in Threads : x \in retired'[u] <=> u # t /\ x \in retired[u]
    BY <1>3 DEF Release
  <2>4. \A s \in Slots : x \in orphaned'[s] <=>
                           x \in orphaned[s] \/ (s = node[t] /\ x \in retired[t])
    BY <1>3, <2>1 DEF Release
  <2>5. InRetired(x) \/ InOrphans(x) <=> InRetired(x)' \/ InOrphans(x)'
    BY <2>1, <2>3, <2>4
  <2>6. (InElement(x)' <=> InElement(x)) /\ (InPut(x)' <=> InPut(x))
    BY <2>1, <2>2
  <2> QED
    BY <2>5, <2>6 DEF Owned
<1>4. ASSUME NEW t \in Threads, PutInsert(t) PROVE Owned(x)' <=> Owned(x)
  <2>1. key[t] \in Keys /\ ptr[t] \in Handles /\ pc[t] = "put" /\ map[key[t]] = NULL
    BY <1>4 DEF PutInsert, ThreadLocal
  <2>2. UNCHANGED <<retired, orphaned>>
    BY <1>4 DEF PutInsert, domain
  <2>3. \A u \in Threads : /\ pc'[u] = "put" <=> u # t /\ pc[u] = "put"
                           /\ u # t => ptr'[u] = ptr[u]
    BY <1>4 DEF PutInsert, Publish
  <2>4. InElement(x)' <=> InElement(x) \/ x = ptr[t]
    BY <1>4, <2>1 DEF PutInsert, Publish
  <2>5. InPut(x) <=> InPut(x)' \/ x = ptr[t]
    BY <2>1, <2>3
  <2> QED
    BY <2>2, <2>4, <2>5 DEF Owned
<1>5. ASSUME NEW t \in Threads, PutExchange(t) PROVE Owned(x)' <=> Owned(x)
  <2>1. /\ key[t] \in Keys /\ ptr[t] \in Handles /\ pc[t] = "put"
        /\ UNCHANGED orphaned
        /\ map' = [map EXCEPT ![key[t]] = ptr[t]]
        /\ \A u \in Threads : u # t => ptr'[u] = ptr[u]
    BY <1>5 DEF PutExchange, Publish, ThreadLocal
  <2>2. Retires(t, map[key[t]])
    BY <1>5, PushRetireGoes DEF PutExchange
  <2>3. \A u \in Threads : pc'[u] = "put" <=> u # t /\ pc[u] = "put"
    BY <2>1, <2>2 DEF Retires
  <2>4. InElement(x) \/ x = ptr[t] <=> InElement(x)' \/ (x = map[key[t]] /\ InElement(x))
                                         \/ x = ptr[t]
    BY <2>1
  <2>5. InPut(x) \/ x = ptr[t] <=> InPut(x)' \/ x = ptr[t]
    BY <2>1, <2>3
  <2>6. InRetired(x)' <=> InRetired(x) \/ x = map[key[t]]
    BY <2>2 DEF Retires
  <2>7. (x = ptr[t] => InElement(x)' /\ InPut(x)) /\ (x = map[key[t]] => InElement(x))
    BY <2>1
  <2> QED
    BY <2>1, <2>4, <2>5, <2>6, <2>7 DEF Owned
<1> QED
  BY <1>1, <1>2, <1>3, <1>4, <1>5, QuietSteps

\* One more reference, one fewer, or one for another.
LEMMA HolderAdded ==
  ASSUME NEW x, NEW r \in Refs, r \notin Holders(x), Holders(x)' = Holders(x) \union {r}
  PROVE  Cardinality(Holders(x)') = Cardinality(Holders(x)) + 1
BY HoldersFinite, FS_AddElement

LEMMA HolderRemoved ==
  ASSUME NEW x, NEW r \in Refs, r \in Holders(x), Holders(x)' = Holders(x) \ {r}
  PROVE  Cardinality(Holders(x)') = Cardinality(Holders(x)) - 1
BY HoldersFinite, FS_RemoveElement

LEMMA HolderMoved ==
  ASSUME NEW x, NEW dst \in Refs, NEW src \in Refs,
         src \in Holders(x), dst \notin Holders(x),
         Holders(x)' = (Holders(x) \ {src}) \union {dst}
  PROVE  Cardinality(Holders(x)') = Cardinality(Holders(x))
<1>1. /\ Cardinality(Holders(x) \ {src}) = Cardinality(Holders(x)) - 1
      /\ IsFiniteSet(Holders(x) \ {src})
  BY HoldersFinite, FS_RemoveElement
<1>2. Cardinality((Holders(x) \ {src}) \union {dst}) = Cardinality(Holders(x) \ {src}) + 1
  BY <1>1, FS_AddElement
<1> QED
  BY <1>1, <1>2, HoldersFinite

\* The equation of CountExact for one handle.
CountOf(h) == refcount[h] = Cardinality(Holders(h)) + (IF Owned(h) THEN 1 ELSE 0)

LEMMA CountExactStep == IInv /\ [Next]_vars => CountExact'
<1> SUFFICES ASSUME IInv, [Next]_vars, NEW x \in Handles PROVE CountOf(x)'
  BY DEF CountExact, CountOf
<1>a. TypeOK /\ ThreadLocal /\ DestReserved /\ CountExact /\ SoleOwner(x) /\ CountOf(x)
  BY DEF IInv, OwnedOnce, CountExact, CountOf
<1>b. Cardinality(Holders(x)) \in Nat /\ refcount[x] \in Int
  BY <1>a, HoldersFinite DEF TypeOK
<1>c. \/ Owned(x)' <=> Owned(x)
      \/ \E t \in Threads : Reclaim(t) \/ PutCall(t)
      \/ TeardownStore \/ TeardownDomain
  BY <1>a, OwnedMoves
<1> USE <1>a, <1>b, DistinguishedValues DEF TypeOK
<1>1. CASE UNCHANGED <<refcount, ref>> /\ (Owned(x)' <=> Owned(x))
  <2>1. Holders(x)' = Holders(x)
    BY <1>1 DEF Holders
  <2> QED
    BY <1>1, <2>1 DEF CountOf
<1>2. ASSUME NEW t \in Threads, GetMiss(t), Owned(x)' <=> Owned(x) PROVE CountOf(x)'
  <2>1. Holders(x)' = Holders(x)
    BY <1>2 DEF GetMiss, Available, Holders
  <2> QED
    BY <1>2, <2>1 DEF CountOf, GetMiss
<1>3. ASSUME NEW t \in Threads, Incref(t), Owned(x)' <=> Owned(x) PROVE CountOf(x)'
  <2>1. ptr[t] \in Handles /\ dest[t] \in Refs /\ ref[dest[t]] = Unborn
    BY <1>3 DEF Incref, ThreadLocal, DestReserved, Getting
  <2>2. CASE x = ptr[t]
    <3>1. dest[t] \notin Holders(x) /\ Holders(x)' = Holders(x) \union {dest[t]}
      BY <1>3, <2>1, <2>2 DEF Incref, Holders
    <3>2. refcount'[x] = refcount[x] + 1
      BY <1>3, <2>1, <2>2 DEF Incref
    <3>3. Cardinality(Holders(x)') = Cardinality(Holders(x)) + 1
      BY <2>1, <3>1, HolderAdded
    <3> QED
      BY <1>3, <3>2, <3>3 DEF CountOf
  <2>3. CASE x # ptr[t]
    <3>1. Holders(x)' = Holders(x) /\ refcount'[x] = refcount[x]
      BY <1>3, <2>1, <2>3 DEF Incref, Holders
    <3> QED
      BY <1>3, <3>1 DEF CountOf
  <2> QED
    BY <2>2, <2>3
<1>4. ASSUME NEW t \in Threads, Reclaim(t) PROVE CountOf(x)'
  <2>1. PICK h \in retired[t] : /\ DropHandle(h)
                                /\ retired' = [retired EXCEPT ![t] = @ \ {h}]
    BY <1>4 DEF Reclaim
  <2>2. h \in Handles /\ UNCHANGED <<map, orphaned, ref, pc, ptr>>
    BY <1>4, <2>1 DEF Reclaim, locals
  <2>3. Holders(x)' = Holders(x)
    BY <2>2 DEF Holders
  <2>4. CASE x = h
    <3>1. Owned(x) /\ ~Owned(x)'
      BY <2>1, <2>2, <2>4
      DEF SoleOwner, Owned, InElement, InPut, InRetired, InOrphans
    <3>2. refcount'[x] = refcount[x] - 1
      BY <2>1, <2>2, <2>4 DEF DropHandle
    <3> QED
      BY <2>3, <3>1, <3>2 DEF CountOf
  <2>5. CASE x # h
    <3>1. Owned(x)' <=> Owned(x)
      BY <2>1, <2>2, <2>5 DEF Owned, InElement, InPut, InRetired, InOrphans
    <3>2. refcount'[x] = refcount[x]
      BY <2>1, <2>2, <2>5 DEF DropHandle
    <3> QED
      BY <2>3, <3>1, <3>2 DEF CountOf
  <2> QED
    BY <2>4, <2>5
<1>5. ASSUME NEW t \in Threads, PutCall(t) PROVE CountOf(x)'
  <2>1. PICK h \in Handles : /\ refcount[h] = 0
                             /\ refcount' = [refcount EXCEPT ![h] = 1]
                             /\ ptr' = [ptr EXCEPT ![t] = h]
    BY <1>5 DEF PutCall
  <2>2. UNCHANGED <<map, retired, orphaned, ref>> /\ pc[t] = "idle"
    BY <1>5 DEF PutCall, domain
  <2>3. \A u \in Threads : /\ u # t => pc'[u] = pc[u] /\ ptr'[u] = ptr[u]
                           /\ pc'[t] = "put" /\ ptr'[t] = h
    BY <1>5, <2>1 DEF PutCall
  <2>4. Holders(x)' = Holders(x)
    BY <2>2 DEF Holders
  <2>5. CASE x = h
    <3>1. ~Owned(x) /\ Owned(x)'
      BY <2>1, <2>3, <2>5, FreeIsUnowned DEF Owned, InPut
    <3> QED
      BY <2>1, <2>4, <2>5, <3>1 DEF CountOf
  <2>6. CASE x # h
    <3>1. Owned(x)' <=> Owned(x)
      BY <2>2, <2>3, <2>6 DEF Owned, InElement, InPut, InRetired, InOrphans
    <3> QED
      BY <2>1, <2>4, <2>6, <3>1 DEF CountOf
  <2> QED
    BY <2>5, <2>6
<1>6. ASSUME NEW r \in Refs, Close(r), Owned(x)' <=> Owned(x) PROVE CountOf(x)'
  <2>1. CASE x = ref[r]
    <3>1. r \in Holders(x) /\ Holders(x)' = Holders(x) \ {r}
      BY <1>6, <2>1 DEF Close, Holders
    <3>2. refcount'[x] = refcount[x] - 1
      BY <1>6, <2>1 DEF Close, DropHandle
    <3>3. Cardinality(Holders(x)') = Cardinality(Holders(x)) - 1
      BY <3>1, HolderRemoved
    <3> QED
      BY <1>6, <3>2, <3>3 DEF CountOf
  <2>2. CASE x # ref[r]
    <3>1. Holders(x)' = Holders(x) /\ refcount'[x] = refcount[x]
      BY <1>6, <2>2 DEF Close, DropHandle, Holders
    <3> QED
      BY <1>6, <3>1 DEF CountOf
  <2> QED
    BY <2>1, <2>2
<1>7. ASSUME NEW dst \in Refs, NEW src \in Refs, MoveConstruct(dst, src),
             Owned(x)' <=> Owned(x)
      PROVE  CountOf(x)'
  <2>1. /\ dst # src /\ ref[dst] = Unborn /\ UNCHANGED refcount
        /\ ref' = [ref EXCEPT ![dst] = ref[src], ![src] = NULL]
    BY <1>7 DEF MoveConstruct, Available, Settled, shared
  <2>2. CASE x = ref[src]
    <3>1. /\ src \in Holders(x) /\ dst \notin Holders(x)
          /\ Holders(x)' = (Holders(x) \ {src}) \union {dst}
      BY <2>1, <2>2 DEF Holders
    <3> QED
      BY <1>7, <2>1, <3>1, HolderMoved DEF CountOf
  <2>3. CASE x # ref[src]
    <3>1. Holders(x)' = Holders(x)
      BY <2>1, <2>3 DEF Holders
    <3> QED
      BY <1>7, <2>1, <3>1 DEF CountOf
  <2> QED
    BY <2>2, <2>3
<1>8. ASSUME NEW dst \in Refs, NEW src \in Refs, MoveAssign(dst, src),
             Owned(x)' <=> Owned(x)
      PROVE  CountOf(x)'
  <2>1. /\ dst # src /\ DropHandle(ref[dst])
        /\ ref' = [ref EXCEPT ![dst] = ref[src], ![src] = NULL]
    BY <1>8 DEF MoveAssign
  <2>2. CASE x = ref[dst]
    <3>1. refcount'[x] = refcount[x] - 1
      BY <2>1, <2>2 DEF DropHandle
    <3>2. CASE ref[src] = x
      <4>1. src \in Holders(x) /\ Holders(x)' = Holders(x) \ {src}
        BY <2>1, <2>2, <3>2 DEF Holders
      <4>2. Cardinality(Holders(x)') = Cardinality(Holders(x)) - 1
        BY <4>1, HolderRemoved
      <4> QED
        BY <1>8, <3>1, <4>2 DEF CountOf
    <3>3. CASE ref[src] # x
      <4>1. dst \in Holders(x) /\ Holders(x)' = Holders(x) \ {dst}
        BY <2>1, <2>2, <3>3 DEF Holders
      <4>2. Cardinality(Holders(x)') = Cardinality(Holders(x)) - 1
        BY <4>1, HolderRemoved
      <4> QED
        BY <1>8, <3>1, <4>2 DEF CountOf
    <3> QED
      BY <3>2, <3>3
  <2>3. CASE x # ref[dst]
    <3>1. refcount'[x] = refcount[x]
      BY <2>1, <2>3 DEF DropHandle
    <3>2. CASE ref[src] = x
      <4>1. /\ src \in Holders(x) /\ dst \notin Holders(x)
            /\ Holders(x)' = (Holders(x) \ {src}) \union {dst}
        BY <2>1, <2>3, <3>2 DEF Holders
      <4> QED
        BY <1>8, <3>1, <4>1, HolderMoved DEF CountOf
    <3>3. CASE ref[src] # x
      <4>1. Holders(x)' = Holders(x)
        BY <2>1, <2>3, <3>3 DEF Holders
      <4> QED
        BY <1>8, <3>1, <4>1 DEF CountOf
    <3> QED
      BY <3>2, <3>3
  <2> QED
    BY <2>2, <2>3
<1>9. CASE TeardownStore
  <2>1. ~InPut(x) /\ ~InPut(x)' /\ ~InRetired(x) /\ ~InRetired(x)' /\ ~InElement(x)'
    BY <1>9 DEF TeardownStore, AllDown, Up, ThreadLocal, domain, InElement, InPut, InRetired
  <2>2. InOrphans(x)' <=> InOrphans(x)
    BY <1>9 DEF TeardownStore, InOrphans
  <2>3. Holders(x)' = Holders(x)
    BY <1>9 DEF TeardownStore, Holders
  <2>4. refcount'[x] = IF InElement(x) THEN refcount[x] - 1 ELSE refcount[x]
    BY <1>9 DEF TeardownStore, InElement
  <2> QED
    BY <2>1, <2>2, <2>3, <2>4 DEF SoleOwner, Owned, CountOf
<1>10. CASE TeardownDomain
  <2>1. ~InOrphans(x)' /\ (InElement(x)' <=> InElement(x))
    BY <1>10 DEF TeardownDomain, InElement, InOrphans
  <2>2. (InPut(x)' <=> InPut(x)) /\ (InRetired(x)' <=> InRetired(x))
    BY <1>10 DEF TeardownDomain, domain, locals, InPut, InRetired
  <2>3. Holders(x)' = Holders(x)
    BY <1>10 DEF TeardownDomain, Holders
  <2>4. refcount'[x] = IF InOrphans(x) THEN refcount[x] - 1 ELSE refcount[x]
    BY <1>10 DEF TeardownDomain, InOrphans
  <2> QED
    BY <2>1, <2>2, <2>3, <2>4 DEF SoleOwner, Owned, CountOf
<1> QED
  BY <1>c, <1>1, <1>2, <1>3, <1>4, <1>5, <1>6, <1>7, <1>8, <1>9, <1>10, QuietCounts

(***************************************************************************)
(* Hazards                                                                 *)
(***************************************************************************)

\* A getter reaches "incref" only by a validation, and nobody but the getter
\* changes what it protects.
LEMMA IncrefFrame ==
  ASSUME TypeOK, [Next]_vars, NEW g \in Threads, pc'[g] = "incref"
  PROVE  /\ ptr'[g] = ptr[g] /\ node'[g] = node[g]
         /\ \/ pc[g] = "incref"
            \/ pc[g] = "validate" /\ map[key[g]] = ptr[g] /\ ProtectValidate(g)
<1> USE DEF TypeOK
<1>1. ASSUME NEW t \in Threads, Continue(t)
      PROVE  /\ ptr'[g] = ptr[g] /\ node'[g] = node[g]
             /\ \/ pc[g] = "incref"
                \/ pc[g] = "validate" /\ map[key[g]] = ptr[g] /\ ProtectValidate(g)
  <2>1. CASE Adopt(t)
    BY <2>1, AdoptGoes DEF Adopt, Retires, locals
  <2>2. CASE PutExchange(t)
    BY <2>2, PushRetireGoes DEF PutExchange, Publish, Retires
  <2>3. CASE ProtectLoad(t) \/ ProtectPublish(t) \/ ProtectValidate(t)
    BY <2>3 DEF ProtectLoad, ProtectPublish, ProtectValidate, domain, locals
  <2>4. CASE Incref(t) \/ Unprotect(t) \/ PutInsert(t) \/ Release(t)
    BY <2>4 DEF Incref, Unprotect, PutInsert, Publish, Release, domain, locals
  <2>5. CASE BeginWalk(t) \/ ScanSlot(t) \/ EndScan(t) \/ Reclaim(t) \/ EndReclaim(t)
    BY <2>5 DEF BeginWalk, ScanSlot, EndScan, Reclaim, EndReclaim, Resume, domain, locals
  <2> QED
    BY <1>1, <2>1, <2>2, <2>3, <2>4, <2>5 DEF Continue
<1>2. ASSUME NEW t \in Threads, Choose(t)
      PROVE  ptr'[g] = ptr[g] /\ node'[g] = node[g] /\ pc[g] = "incref"
  BY <1>2 DEF Choose, ThreadStart, ThreadExit, GetMiss, GetCall, PutCall,
     BeginScan, Resume, domain, locals
<1>3. ASSUME \/ \E r \in Refs : Close(r)
             \/ \E dst, src \in Refs : MoveConstruct(dst, src) \/ MoveAssign(dst, src)
             \/ TeardownStore \/ TeardownDomain \/ UNCHANGED vars
      PROVE  UNCHANGED <<pc, ptr, node>>
  BY <1>3 DEF Close, MoveConstruct, MoveAssign, TeardownStore, TeardownDomain,
     vars, domain, locals
<1> QED
  BY <1>1, <1>2, <1>3 DEF Next, Terminated

\* The scan of a thread that is about to drop a handle has seen every hazard
\* that protects it.
LEMMA ReclaimSpares ==
  ASSUME IInv, NEW g \in Threads, pc[g] = "incref",
         NEW u \in Threads, pc[u] = "reclaim", NEW h \in retired[u] \ seen[u]
  PROVE  h # ptr[g]
BY DEF IInv, HazardSeen

LEMMA ProtectedOwnedStep == IInv /\ [Next]_vars => ProtectedOwned'
<1> SUFFICES ASSUME IInv, [Next]_vars, NEW g \in Threads, pc'[g] = "incref"
             PROVE  (InElement(ptr[g]) \/ InRetired(ptr[g]) \/ InOrphans(ptr[g]))'
  BY DEF ProtectedOwned, InElement, InRetired, InOrphans
<1>a. TypeOK /\ ThreadLocal /\ ProtectedOwned
  BY DEF IInv
<1>b. /\ ptr'[g] = ptr[g]
      /\ pc[g] = "incref" \/ (pc[g] = "validate" /\ map[key[g]] = ptr[g] /\ ProtectValidate(g))
  BY <1>a, IncrefFrame
<1>c. Up(g)
  BY <1>b DEF Up
<1>p. PICK p \in Handles : p = ptr[g]
  BY <1>a, <1>b DEF ThreadLocal
<1>d. InElement(p) \/ InRetired(p) \/ InOrphans(p)
  <2>1. CASE pc[g] = "incref"
    BY <1>a, <1>p, <2>1 DEF ProtectedOwned
  <2>2. CASE pc[g] = "validate" /\ map[key[g]] = ptr[g]
    BY <1>a, <1>p, <2>2 DEF ThreadLocal, InElement
  <2> QED
    BY <1>b, <2>1, <2>2
<1> SUFFICES InElement(p)' \/ InRetired(p)' \/ InOrphans(p)'
  BY <1>b, <1>p DEF InElement, InRetired, InOrphans
<1> USE <1>a, <1>c, <1>d DEF TypeOK, InElement, InRetired, InOrphans
<1>1. CASE SameOwners
  BY <1>1 DEF SameOwners
<1>2. ASSUME NEW t \in Threads, Adopt(t)
      PROVE  InElement(p)' \/ InRetired(p)' \/ InOrphans(p)'
  <2>1. PICK h \in orphaned[node[t]] :
          orphaned' = [orphaned EXCEPT ![node[t]] = @ \ {h}] /\ Retires(t, h)
    BY <1>2, AdoptGoes
  <2>2. UNCHANGED map
    BY <1>2 DEF Adopt
  <2> QED
    BY <2>1, <2>2 DEF Retires
<1>3. ASSUME NEW t \in Threads, Reclaim(t)
      PROVE  InElement(p)' \/ InRetired(p)' \/ InOrphans(p)'
  <2>1. PICK h \in retired[t] \ seen[t] : retired' = [retired EXCEPT ![t] = @ \ {h}]
    BY <1>3 DEF Reclaim
  <2>2. pc[t] = "reclaim" /\ UNCHANGED <<map, orphaned, pc>>
    BY <1>3 DEF Reclaim
  <2>3. pc[g] = "incref"
    BY <2>2
  <2>4. h # p
    BY <2>1, <2>2, <2>3, <1>p, ReclaimSpares
  <2> QED
    BY <2>1, <2>2, <2>4
<1>4. ASSUME NEW t \in Threads, Release(t)
      PROVE  InElement(p)' \/ InRetired(p)' \/ InOrphans(p)'
  BY <1>4 DEF Release, ThreadLocal, Up
<1>5. ASSUME NEW t \in Threads, PutCall(t)
      PROVE  InElement(p)' \/ InRetired(p)' \/ InOrphans(p)'
  BY <1>5 DEF PutCall, domain
<1>6. ASSUME NEW t \in Threads, PutInsert(t)
      PROVE  InElement(p)' \/ InRetired(p)' \/ InOrphans(p)'
  BY <1>6, DistinguishedValues DEF PutInsert, Publish, domain
<1>7. ASSUME NEW t \in Threads, PutExchange(t)
      PROVE  InElement(p)' \/ InRetired(p)' \/ InOrphans(p)'
  <2>1. Retires(t, map[key[t]]) /\ UNCHANGED orphaned /\ map' = [map EXCEPT ![key[t]] = ptr[t]]
    BY <1>7, PushRetireGoes DEF PutExchange, Publish
  <2> QED
    BY <2>1 DEF Retires
<1>8. CASE TeardownStore
  BY <1>8 DEF TeardownStore, AllDown
<1>9. CASE TeardownDomain
  BY <1>9 DEF TeardownDomain, ThreadLocal
<1> QED
  BY <1>1, <1>2, <1>3, <1>4, <1>5, <1>6, <1>7, <1>8, <1>9, QuietSteps

LEMMA HazardSeenStep == IInv /\ [Next]_vars => HazardSeen'
<1> SUFFICES ASSUME IInv, [Next]_vars, NEW g \in Threads, NEW u \in Threads,
                    pc'[g] = "incref", ptr'[g] \in retired'[u]
             PROVE  /\ pc'[u] = "scan" => node'[g] \in todo'[u] \/ ptr'[g] \in seen'[u]
                    /\ pc'[u] = "reclaim" => ptr'[g] \in seen'[u]
  BY DEF HazardSeen
<1>a. TypeOK /\ ThreadLocal /\ ProtectedOwned /\ HazardSeen /\ OwnedOnce
  BY DEF IInv
<1>b. /\ ptr'[g] = ptr[g] /\ node'[g] = node[g]
      /\ pc[g] = "incref" \/ (pc[g] = "validate" /\ map[key[g]] = ptr[g] /\ ProtectValidate(g))
  BY <1>a, IncrefFrame
<1>c. node[g] \in Slots /\ node[g] \in used /\ active[node[g]] /\ hazard[node[g]] = ptr[g]
  BY <1>a, <1>b DEF ThreadLocal, Up, TypeOK
<1>p. ptr[g] \in Handles
  BY <1>a, <1>b DEF ThreadLocal
<1> DEFINE Goal == /\ pc'[u] = "scan" => node[g] \in todo'[u] \/ ptr[g] \in seen'[u]
                   /\ pc'[u] = "reclaim" => ptr[g] \in seen'[u]
<1> SUFFICES Goal
  BY <1>b
\* The getter validates: its handle is in the map, hence not retired.
<1>1. CASE pc[g] = "validate"
  <2>1. InElement(ptr[g]) /\ UNCHANGED retired
    BY <1>a, <1>b, <1>1 DEF ThreadLocal, InElement, ProtectValidate, domain
  <2>2. ~InRetired(ptr[g])
    BY <1>a, <1>p, <2>1 DEF OwnedOnce, SoleOwner
  <2> QED
    BY <1>b, <2>1, <2>2 DEF InRetired
\* The handle has been retired before.
<1>2. CASE pc[g] = "incref" /\ ptr[g] \in retired[u]
  <2>a. /\ pc[u] = "scan" => node[g] \in todo[u] \/ ptr[g] \in seen[u]
        /\ pc[u] = "reclaim" => ptr[g] \in seen[u]
    BY <1>a, <1>2 DEF HazardSeen
  <2> USE <1>2, <1>a, <1>c, <2>a DEF TypeOK
  <2>1. ASSUME NEW t \in Threads, Continue(t) PROVE Goal
    <3>1. CASE Adopt(t) \/ PutExchange(t)
      <4>1. PICK h : Retires(t, h)
        BY <3>1, AdoptGoes, PushRetireGoes DEF PutExchange
      <4>2. todo' = todo
        BY <3>1 DEF Adopt, PutExchange
      <4> QED
        BY <4>1, <4>2 DEF Retires
    <3>a. CASE BeginWalk(t)
      BY <3>a DEF BeginWalk
    <3>2. CASE ScanSlot(t)
      <4>1. PICK s \in todo[t] :
              /\ todo' = [todo EXCEPT ![t] = @ \ {s}]
              /\ seen' = IF active[s] /\ hazard[s] # NULL
                         THEN [seen EXCEPT ![t] = @ \union {hazard[s]}]
                         ELSE seen
        BY <3>2 DEF ScanSlot
      <4>2. pc' = pc /\ pc[t] = "scan"
        BY <3>2 DEF ScanSlot
      <4>3. CASE t = u
        <5>1. CASE s = node[g]
          BY <1>p, <4>1, <4>2, <4>3, <5>1, DistinguishedValues
        <5>2. CASE s # node[g]
          BY <4>1, <4>2, <4>3, <5>2
        <5> QED
          BY <5>1, <5>2
      <4>4. CASE t # u
        BY <4>1, <4>2, <4>4
      <4> QED
        BY <4>3, <4>4
    <3>3. CASE EndScan(t)
      BY <3>3 DEF EndScan, domain
    <3>4. CASE Reclaim(t) \/ EndReclaim(t) \/ Release(t)
      BY <3>4 DEF Reclaim, EndReclaim, Release, Resume, domain
    <3>5. CASE ProtectLoad(t) \/ ProtectPublish(t) \/ ProtectValidate(t)
      BY <3>5 DEF ProtectLoad, ProtectPublish, ProtectValidate, domain
    <3>6. CASE Incref(t) \/ Unprotect(t) \/ PutInsert(t)
      BY <3>6 DEF Incref, Unprotect, PutInsert, domain
    <3> QED
      BY <2>1, <3>a, <3>1, <3>2, <3>3, <3>4, <3>5, <3>6 DEF Continue
  <2>2. ASSUME NEW t \in Threads, Choose(t) PROVE Goal
    BY <2>2 DEF Choose, ThreadStart, ThreadExit, GetMiss, GetCall, PutCall,
       BeginScan, Resume, domain
  <2>3. ASSUME \/ \E r \in Refs : Close(r)
               \/ \E dst, src \in Refs : MoveConstruct(dst, src) \/ MoveAssign(dst, src)
               \/ TeardownStore \/ TeardownDomain \/ UNCHANGED vars
        PROVE  UNCHANGED <<pc, todo, seen>>
    BY <2>3 DEF Close, MoveConstruct, MoveAssign, TeardownStore, TeardownDomain,
       vars, domain
  <2> QED
    BY <2>1, <2>2, <2>3 DEF Next, Terminated
\* The handle is retired by this step; a scan that begins now visits all slots.
<1>3. CASE pc[g] = "incref" /\ ptr[g] \notin retired[u]
  <2>1. PICK t \in Threads : \E h : Retires(t, h)
    <3>1. retired'[u] # retired[u] /\ ~(retired'[u] \subseteq retired[u])
      BY <1>b, <1>3
    <3>2. ~SameOwners
      BY <3>1 DEF SameOwners
    <3>3. ASSUME NEW t \in Threads,
                 Reclaim(t) \/ Release(t) \/ PutCall(t) \/ PutInsert(t)
          PROVE  retired'[u] \subseteq retired[u]
      BY <1>a, <3>3 DEF Reclaim, Release, PutCall, PutInsert, domain, TypeOK
    <3>4. ~TeardownStore /\ ~TeardownDomain
      BY <3>1 DEF TeardownStore, TeardownDomain, domain
    <3>5. PICK t \in Threads : \/ Adopt(t) \/ Reclaim(t) \/ Release(t)
                                \/ PutCall(t) \/ PutInsert(t) \/ PutExchange(t)
      BY <1>a, <3>2, <3>4, QuietSteps
    <3>6. Adopt(t) \/ PutExchange(t)
      BY <3>1, <3>3, <3>5
    <3> QED
      BY <1>a, <3>6, AdoptGoes, PushRetireGoes DEF PutExchange
  <2>2. t = u
    BY <1>a, <1>b, <1>3, <2>1 DEF Retires, TypeOK
  <2> QED
    BY <1>c, <2>1, <2>2 DEF Retires
<1> QED
  BY <1>b, <1>1, <1>2, <1>3

(***************************************************************************)
(* Garbage                                                                 *)
(***************************************************************************)

LEMMA WithdrawnStep == IInv /\ [Next]_vars => Withdrawn'
<1> SUFFICES ASSUME IInv, [Next]_vars PROVE Withdrawn'
  OBVIOUS
<1> USE DistinguishedValues DEF TypeOK, IInv, ThreadLocal, SlotsOwnedOnce, Withdrawn, Up, Getting
<1>1. ASSUME NEW t \in Threads, Continue(t) PROVE Withdrawn'
  <2> USE <1>1 DEF shared, domain, locals
  <2>1. CASE Adopt(t)
    <3>1. PICK h \in orphaned[node[t]] : Retires(t, h)
      BY <2>1, AdoptGoes
    <3>2. pc[t] = "adopt" /\ UNCHANGED <<hazard, active, node>>
      BY <2>1 DEF Adopt
    <3> QED
      BY <3>1, <3>2 DEF Retires
  <2>2. CASE BeginWalk(t) \/ ScanSlot(t)
    BY <2>2 DEF BeginWalk, ScanSlot
  <2>3. CASE EndScan(t)
    BY <2>3 DEF EndScan
  <2>4. CASE Reclaim(t)
    BY <2>4 DEF Reclaim
  <2>5. CASE EndReclaim(t)
    BY <2>5 DEF EndReclaim, Resume
  <2>6. CASE Release(t)
    BY <2>6 DEF Release
  <2>7. CASE ProtectLoad(t)
    BY <2>7 DEF ProtectLoad
  <2>8. CASE ProtectPublish(t)
    BY <2>8 DEF ProtectPublish
  <2>9. CASE ProtectValidate(t)
    BY <2>9 DEF ProtectValidate
  <2>10. CASE Incref(t)
    BY <2>10 DEF Incref
  <2>11. CASE Unprotect(t)
    BY <2>11 DEF Unprotect
  <2>12. CASE PutInsert(t)
    BY <2>12 DEF PutInsert, Publish
  <2>13. CASE PutExchange(t)
    BY <2>13, PushRetireGoes DEF PutExchange, Publish, Retires
  <2> QED
    BY <2>1, <2>2, <2>3, <2>4, <2>5, <2>6, <2>7, <2>8, <2>9, <2>10, <2>11,
       <2>12, <2>13 DEF Continue
<1>2. ASSUME NEW t \in Threads, Choose(t) PROVE Withdrawn'
  <2> USE <1>2 DEF shared, domain, locals
  <2>1. CASE ThreadStart(t)
    BY <2>1 DEF ThreadStart, Resume
  <2>2. CASE ThreadExit(t)
    BY <2>2 DEF ThreadExit, BeginScan
  <2>3. CASE GetMiss(t)
    BY <2>3 DEF GetMiss
  <2>4. CASE GetCall(t)
    BY <2>4 DEF GetCall
  <2>5. CASE PutCall(t)
    BY <2>5 DEF PutCall
  <2> QED
    BY <2>1, <2>2, <2>3, <2>4, <2>5 DEF Choose
<1>3. ASSUME \/ \E r \in Refs : Close(r)
             \/ \E dst, src \in Refs : MoveConstruct(dst, src) \/ MoveAssign(dst, src)
             \/ TeardownStore \/ TeardownDomain \/ UNCHANGED vars
      PROVE  UNCHANGED <<hazard, active, node, pc>>
  BY <1>3 DEF Close, MoveConstruct, MoveAssign, TeardownStore, TeardownDomain, vars, shared,
     domain
<1> QED
  BY <1>1, <1>2, <1>3 DEF Next, Terminated

\* What decides how much garbage there is, and a step that leaves it alone.
Working == Getting \union {"idle", "put"}

SameGarbage ==
    /\ UNCHANGED <<retired, counter, leaving, node, seen, todo, orphaned, active>>
    /\ \A t \in Threads : pc'[t] = pc[t] \/ (pc[t] \in Working /\ pc'[t] \in Working)

LEMMA SameGarbageSteps ==
  ASSUME TypeOK, [Next]_vars
  PROVE  \/ SameGarbage
         \/ \E t \in Threads :
              \/ Adopt(t) \/ BeginWalk(t) \/ ScanSlot(t) \/ EndScan(t) \/ Reclaim(t)
              \/ EndReclaim(t) \/ Release(t) \/ PutExchange(t) \/ ThreadStart(t)
              \/ ThreadExit(t)
         \/ TeardownDomain
<1> USE DEF SameGarbage, Working, Getting, TypeOK, shared, domain, locals
<1>1. ASSUME NEW t \in Threads,
             \/ ProtectLoad(t) \/ ProtectPublish(t) \/ ProtectValidate(t) \/ Incref(t)
             \/ Unprotect(t) \/ PutInsert(t)
      PROVE  SameGarbage
  BY <1>1 DEF ProtectLoad, ProtectPublish, ProtectValidate, Incref, Unprotect, PutInsert
<1>2. ASSUME NEW t \in Threads, GetMiss(t) \/ GetCall(t) \/ PutCall(t) PROVE SameGarbage
  BY <1>2 DEF GetMiss, GetCall, PutCall
<1>3. ASSUME \/ \E r \in Refs : Close(r)
             \/ \E dst, src \in Refs : MoveConstruct(dst, src) \/ MoveAssign(dst, src)
             \/ TeardownStore \/ UNCHANGED vars
      PROVE  SameGarbage
  BY <1>3 DEF Close, MoveConstruct, MoveAssign, TeardownStore, vars
<1> QED
  BY <1>1, <1>2, <1>3 DEF Next, Continue, Choose, Terminated

\* push_retire with the rest of its effect: it scans, or goes on as Resume says.
LEMMA PushRetireCounts ==
  ASSUME TypeOK, NEW t \in Threads, NEW h \in Handles, NEW orphans,
         PushRetire(t, h, orphans)
  PROVE  /\ retired' = [retired EXCEPT ![t] = @ \union {h}]
         /\ \A u \in Threads :
              u # t => pc'[u] = pc[u] /\ seen'[u] = seen[u] /\ counter'[u] = counter[u]
         /\ \/ /\ pc'[t] = "collect"
               /\ seen'[t] = {}
               /\ counter[t] + 1 = SCAN_THRESHOLD
            \/ /\ pc'[t] = Resume(t, orphans)
               /\ counter'[t] = counter[t] + 1
<1> USE ThresholdAssumption DEF TypeOK
<1>1. CASE counter[t] + 1 >= SCAN_THRESHOLD
  <2>1. BeginScan(t) /\ counter' = [counter EXCEPT ![t] = 0]
    BY <1>1 DEF PushRetire
  <2> QED
    BY <1>1, <2>1 DEF PushRetire, BeginScan
<1>2. CASE ~(counter[t] + 1 >= SCAN_THRESHOLD)
  <2>1. /\ counter' = [counter EXCEPT ![t] = @ + 1]
        /\ pc' = [pc EXCEPT ![t] = Resume(t, orphans)]
        /\ UNCHANGED seen
    BY <1>2 DEF PushRetire
  <2> QED
    BY <2>1 DEF PushRetire
<1> QED
  BY <1>1, <1>2

LEMMA OrphansAdoptedStep == IInv /\ [Next]_vars => OrphansAdopted'
<1> SUFFICES ASSUME IInv, [Next]_vars PROVE OrphansAdopted'
  OBVIOUS
<1> USE DistinguishedValues DEF TypeOK, IInv, ThreadLocal, SlotsOwnedOnce, OrphansAdopted, Up,
    shared, domain, locals
<1>1. CASE SameGarbage
  BY <1>1 DEF SameGarbage, Working, Getting
<1>2. ASSUME NEW t \in Threads, Adopt(t) PROVE OrphansAdopted'
  <2>1. PICK h \in orphaned[node[t]] :
          /\ orphaned' = [orphaned EXCEPT ![node[t]] = @ \ {h}]
          /\ PushRetire(t, h, orphaned[node[t]] \ {h})
    BY <1>2 DEF Adopt
  <2>2. pc[t] = "adopt" /\ UNCHANGED <<node, leaving>>
    BY <1>2 DEF Adopt
  <2>h. h \in Handles
    BY <2>2
  <2>3. /\ \A u \in Threads : u # t => pc'[u] = pc[u]
        /\ \/ pc'[t] = "collect"
           \/ pc'[t] = "adopt"
           \/ pc'[t] = "idle" /\ orphaned[node[t]] \ {h} = {}
    <3> DEFINE rest == orphaned[node[t]] \ {h}
    <3>1. PushRetire(t, h, rest) /\ TypeOK
      BY <2>1
    <3>2. ~leaving[t]
      BY <2>2
    <3> HIDE DEF rest
    <3>3. /\ \A u \in Threads : u # t => pc'[u] = pc[u]
          /\ pc'[t] = "collect" \/ pc'[t] = Resume(t, rest)
      BY ONLY <2>h, <3>1, PushRetireCounts, t \in Threads
    <3>4. Resume(t, rest) = "adopt" \/ (Resume(t, rest) = "idle" /\ rest = {})
      BY <3>2 DEF Resume
    <3> QED
      BY <3>3, <3>4 DEF rest
  <2> QED
    BY <2>1, <2>2, <2>3
<1>3. ASSUME NEW t \in Threads, BeginWalk(t) \/ ScanSlot(t) \/ EndScan(t) \/ Reclaim(t)
      PROVE  OrphansAdopted'
  BY <1>3 DEF BeginWalk, ScanSlot, EndScan, Reclaim
<1>4. ASSUME NEW t \in Threads, EndReclaim(t) PROVE OrphansAdopted'
  BY <1>4 DEF EndReclaim, Resume
<1>5. ASSUME NEW t \in Threads, Release(t) PROVE OrphansAdopted'
  BY <1>5 DEF Release
<1>6. ASSUME NEW t \in Threads, PutExchange(t) PROVE OrphansAdopted'
  <2>1. /\ pc[t] = "put" /\ PushRetire(t, map[key[t]], {})
        /\ UNCHANGED <<node, leaving, orphaned>>
    BY <1>6 DEF PutExchange
  <2>2. map[key[t]] \in Handles
    BY <1>6 DEF PutExchange
  <2>3. /\ \A u \in Threads : u # t => pc'[u] = pc[u]
        /\ pc'[t] \in {"collect", "idle"}
    BY <2>1, <2>2, PushRetireCounts DEF Resume
  <2> QED
    BY <2>1, <2>3
<1>7. ASSUME NEW t \in Threads, ThreadStart(t) PROVE OrphansAdopted'
  BY <1>7 DEF ThreadStart, Resume
<1>8. ASSUME NEW t \in Threads, ThreadExit(t) PROVE OrphansAdopted'
  BY <1>8 DEF ThreadExit, BeginScan
<1>9. CASE TeardownDomain
  BY <1>9 DEF TeardownDomain
<1> QED
  BY <1>1, <1>2, <1>3, <1>4, <1>5, <1>6, <1>7, <1>8, <1>9, SameGarbageSteps

\* One element more or less.
LEMMA AddOne ==
  \A S, x : IsFiniteSet(S) =>
    /\ IsFiniteSet(S \union {x})
    /\ Cardinality(S) \in Nat /\ Cardinality(S \union {x}) \in Nat
    /\ Cardinality(S \union {x}) <= Cardinality(S) + 1
<1> SUFFICES ASSUME NEW S, NEW x, IsFiniteSet(S)
             PROVE  /\ IsFiniteSet(S \union {x})
                    /\ Cardinality(S) \in Nat /\ Cardinality(S \union {x}) \in Nat
                    /\ Cardinality(S \union {x}) <= Cardinality(S) + 1
  OBVIOUS
<1>1. /\ IsFiniteSet(S \union {x})
      /\ Cardinality(S \union {x}) = IF x \in S THEN Cardinality(S) ELSE Cardinality(S) + 1
  BY FS_AddElement
<1>2. Cardinality(S) \in Nat
  BY FS_CardinalityType
<1> QED
  BY <1>1, <1>2

LEMMA DropOne ==
  \A S, x : IsFiniteSet(S) =>
    /\ IsFiniteSet(S \ {x})
    /\ Cardinality(S) \in Nat /\ Cardinality(S \ {x}) \in Nat
    /\ Cardinality(S \ {x}) <= Cardinality(S)
<1> SUFFICES ASSUME NEW S, NEW x, IsFiniteSet(S)
             PROVE  /\ IsFiniteSet(S \ {x})
                    /\ Cardinality(S) \in Nat /\ Cardinality(S \ {x}) \in Nat
                    /\ Cardinality(S \ {x}) <= Cardinality(S)
  OBVIOUS
<1>1. IsFiniteSet(S \ {x}) /\ Cardinality(S \ {x}) <= Cardinality(S)
  <2>1. S \ {x} \in SUBSET S
    OBVIOUS
  <2> QED
    BY <2>1, FS_Subset
<1>2. Cardinality(S) \in Nat /\ Cardinality(S \ {x}) \in Nat
  BY <1>1, FS_CardinalityType
<1> QED
  BY <1>1, <1>2

\* The other slots number one less than all of them.
LEMMA KeptType ==
  /\ Kept \in Nat
  /\ \A T \in SUBSET Slots : /\ IsFiniteSet(Slots \ T)
                             /\ Cardinality(Slots \ T) \in Nat
  /\ \A s \in Slots : Cardinality(Slots \ {s}) = Kept
<1>1. Cardinality(Slots) \in Nat /\ Cardinality(Slots) # 0
  BY FiniteInstance, FS_CardinalityType, FS_EmptySet
<1>2. \A T \in SUBSET Slots : IsFiniteSet(Slots \ T) /\ Cardinality(Slots \ T) \in Nat
  BY FiniteInstance, FS_Subset, FS_CardinalityType
<1>3. ASSUME NEW s \in Slots PROVE Cardinality(Slots \ {s}) = Kept
  BY FiniteInstance, FS_RemoveElement DEF Kept
<1> QED
  BY <1>1, <1>2, <1>3 DEF Kept

\* What a scan collected in the other slots is no more than there are of them.
LEMMA SeenBounded ==
  ASSUME IInv, NEW t \in Threads, Scanning(t)
  PROVE  /\ IsFiniteSet(seen[t])
         /\ Cardinality(seen[t]) \in Nat
         /\ Cardinality(seen[t]) <= Kept
<1>1. node[t] \in Slots /\ todo[t] \in SUBSET Slots
  BY DEF IInv, TypeOK, ThreadLocal, Scanning, Up
<1>2. Cardinality(Slots \ (todo[t] \union {node[t]})) <= Cardinality(Slots \ {node[t]})
  <2>1. Slots \ (todo[t] \union {node[t]}) \in SUBSET (Slots \ {node[t]})
    OBVIOUS
  <2>2. IsFiniteSet(Slots \ {node[t]})
    BY <1>1, KeptType
  <2> QED
    BY <2>1, <2>2, FS_Subset
<1>3. /\ IsFiniteSet(seen[t])
      /\ Cardinality(seen[t]) <= Cardinality(Slots \ (todo[t] \union {node[t]}))
  BY DEF IInv, GarbageCounted
<1>4. /\ Cardinality(seen[t]) \in Nat
      /\ Cardinality(Slots \ (todo[t] \union {node[t]})) \in Nat
  BY <1>1, <1>3, FS_CardinalityType, KeptType
<1> QED
  BY <1>1, <1>2, <1>3, <1>4, KeptType

\* The two halves of GarbageCounted, for one thread and for one slot.
CountedAt(t) ==
    /\ IsFiniteSet(retired[t])
    /\ Cardinality(retired[t]) <=
           Kept + IF Scanning(t) THEN SCAN_THRESHOLD
                  ELSE IF pc[t] = "release" THEN 0 ELSE counter[t]
    /\ pc[t] = "collect" => seen[t] = {}
    /\ Scanning(t) =>
           /\ IsFiniteSet(seen[t])
           /\ Cardinality(seen[t]) <= Cardinality(Slots \ (todo[t] \union {node[t]}))
OrphansAt(s) ==
    /\ IsFiniteSet(orphaned[s])
    /\ ~active[s] => Cardinality(orphaned[s]) <= Kept

\* A thread whose own variables do not change counts as before.
LEMMA CountedFrame ==
  ASSUME NEW u \in Threads, CountedAt(u),
         retired'[u] = retired[u], counter'[u] = counter[u], pc'[u] = pc[u],
         seen'[u] = seen[u], todo'[u] = todo[u], node'[u] = node[u]
  PROVE  CountedAt(u)'
BY DEF CountedAt, Scanning, Kept

\* push_retire adds one handle, which its counter counts.
LEMMA PushRetireCounted ==
  ASSUME IInv, NEW t \in Threads, NEW h \in Handles, NEW orphans, PushRetire(t, h, orphans),
         pc[t] \in {"adopt", "put"}, UNCHANGED <<todo, node>>
  PROVE  \A u \in Threads : CountedAt(u)'
<1> USE ThresholdAssumption DEF TypeOK
<1>1. TypeOK /\ \A u \in Threads : CountedAt(u)
  BY DEF IInv, GarbageCounted, CountedAt
<1>2. /\ retired' = [retired EXCEPT ![t] = @ \union {h}]
      /\ \A u \in Threads :
           u # t => pc'[u] = pc[u] /\ seen'[u] = seen[u] /\ counter'[u] = counter[u]
      /\ \/ /\ pc'[t] = "collect"
            /\ seen'[t] = {}
            /\ counter[t] + 1 = SCAN_THRESHOLD
         \/ /\ pc'[t] = Resume(t, orphans)
            /\ counter'[t] = counter[t] + 1
  BY <1>1, PushRetireCounts
<1>3. ASSUME NEW u \in Threads, u # t PROVE CountedAt(u)'
  BY <1>1, <1>2, <1>3, CountedFrame
<1>4. CountedAt(t)'
  <2>1. IsFiniteSet(retired[t]) /\ Cardinality(retired[t]) <= Kept + counter[t]
    BY <1>1 DEF CountedAt, Scanning
  <2>2. /\ IsFiniteSet(retired'[t])
        /\ Cardinality(retired'[t]) \in Nat
        /\ Cardinality(retired'[t]) <= Cardinality(retired[t]) + 1
        /\ Cardinality(retired[t]) \in Nat
    <3>1. retired'[t] = retired[t] \union {h}
      BY <1>1, <1>2
    <3>2. IsFiniteSet(retired[t])
      BY <2>1
    <3> QED
      BY ONLY <3>1, <3>2, AddOne
  <2>3. counter[t] \in Nat /\ Kept \in Nat /\ Kept' = Kept
    BY <1>1, KeptType DEF Kept
  <2>4. Cardinality(retired'[t]) <= Kept + (counter[t] + 1)
    BY <2>1, <2>2, <2>3
  <2>5. CASE pc'[t] = "collect" /\ seen'[t] = {} /\ counter[t] + 1 = SCAN_THRESHOLD
    <3>1. node[t] \in Slots /\ todo[t] \in SUBSET Slots
      BY <1>1 DEF IInv, ThreadLocal, Up
    <3>2. /\ IsFiniteSet(seen'[t]) /\ Cardinality(seen'[t]) = 0
          /\ Cardinality(Slots \ (todo[t] \union {node[t]})) \in Nat
      BY <2>5, <3>1, FS_EmptySet, KeptType
    <3>3. /\ IsFiniteSet(seen'[t])
          /\ Cardinality(seen'[t]) <= Cardinality(Slots \ (todo'[t] \union {node'[t]}))
      BY <3>2
    <3> QED
      BY <2>2, <2>3, <2>4, <2>5, <3>3 DEF CountedAt, Scanning
  <2>6. CASE pc'[t] = Resume(t, orphans) /\ counter'[t] = counter[t] + 1
    <3>1. pc'[t] \in {"adopt", "idle"}
      BY <2>6 DEF IInv, OrphansAdopted, Resume
    <3> QED
      BY <2>2, <2>3, <2>4, <2>6, <3>1 DEF CountedAt, Scanning
  <2> QED
    BY <1>2, <2>5, <2>6
<1> QED
  BY <1>3, <1>4

LEMMA GarbageCountedStep == IInv /\ [Next]_vars => GarbageCounted'
<1> SUFFICES ASSUME IInv, [Next]_vars
             PROVE  (\A t \in Threads : CountedAt(t)') /\ (\A s \in Slots : OrphansAt(s)')
  BY DEF GarbageCounted, CountedAt, OrphansAt
<1>t. TypeOK /\ ThreadLocal /\ (\A t \in Threads : CountedAt(t)) /\ \A s \in Slots : OrphansAt(s)
  BY DEF IInv, GarbageCounted, CountedAt, OrphansAt
<1>k. Kept' = Kept /\ Kept \in Nat
  BY KeptType DEF Kept
<1>s. ASSUME UNCHANGED <<orphaned, active>> PROVE \A s \in Slots : OrphansAt(s)'
  BY <1>t, <1>k, <1>s DEF OrphansAt
<1>n. ASSUME NEW t \in Threads, Up(t) PROVE node[t] \in Slots /\ active[node[t]]
  BY <1>t, <1>n DEF TypeOK, ThreadLocal, Up
<1> USE DEF shared, domain, locals
<1>1. CASE SameGarbage
  <2>1. ASSUME NEW t \in Threads PROVE CountedAt(t)'
    <3>1. /\ pc'[t] = pc[t] \/ (pc[t] \in Working /\ pc'[t] \in Working)
          /\ UNCHANGED <<retired, counter, seen, todo, node>>
      BY <1>1 DEF SameGarbage
    <3>2. CASE pc'[t] = pc[t]
      BY <1>t, <3>1, <3>2, CountedFrame
    <3>3. CASE pc[t] \in Working /\ pc'[t] \in Working
      <4>1. /\ pc'[t] \notin {"release", "collect"} /\ ~Scanning(t)'
            /\ pc[t] # "release" /\ ~Scanning(t)
        BY <3>3 DEF Working, Getting, Scanning
      <4> QED
        BY <1>t, <1>k, <3>1, <4>1 DEF CountedAt
    <3> QED
      BY <3>1, <3>2, <3>3
  <2> QED
    BY <1>1, <1>s, <2>1 DEF SameGarbage
<1>2. ASSUME NEW t \in Threads, Adopt(t)
      PROVE  (\A u \in Threads : CountedAt(u)') /\ (\A s \in Slots : OrphansAt(s)')
  <2>1. PICK h \in orphaned[node[t]] :
          /\ orphaned' = [orphaned EXCEPT ![node[t]] = @ \ {h}]
          /\ PushRetire(t, h, orphaned[node[t]] \ {h})
    BY <1>2 DEF Adopt
  <2>2. pc[t] = "adopt" /\ UNCHANGED <<node, todo, active>>
    BY <1>2 DEF Adopt
  <2>3. node[t] \in Slots /\ active[node[t]]
    BY <1>n, <2>2 DEF Up
  <2>4. h \in Handles
    BY <1>t, <2>3 DEF TypeOK
  <2>5. \A u \in Threads : CountedAt(u)'
    BY <2>1, <2>2, <2>4, PushRetireCounted
  <2>6. ASSUME NEW s \in Slots PROVE OrphansAt(s)'
    <3>1. CASE s = node[t]
      <4>1. orphaned'[s] = orphaned[s] \ {h}
        BY <1>t, <2>1, <3>1 DEF TypeOK
      <4>2. IsFiniteSet(orphaned'[s])
        BY <1>t, <4>1, DropOne DEF OrphansAt
      <4> QED
        BY <2>2, <2>3, <3>1, <4>2 DEF OrphansAt
    <3>2. CASE s # node[t]
      BY <1>t, <1>k, <2>1, <2>2, <3>2 DEF OrphansAt, TypeOK
    <3> QED
      BY <3>1, <3>2
  <2> QED
    BY <2>5, <2>6
<1>3. ASSUME NEW t \in Threads, BeginWalk(t)
      PROVE  (\A u \in Threads : CountedAt(u)') /\ (\A s \in Slots : OrphansAt(s)')
  <2>1. /\ pc[t] = "collect" /\ pc' = [pc EXCEPT ![t] = "scan"]
        /\ todo' = [todo EXCEPT ![t] = used]
        /\ UNCHANGED <<retired, counter, seen, node, orphaned, active>>
    BY <1>3 DEF BeginWalk
  <2>2. ASSUME NEW u \in Threads, u # t PROVE CountedAt(u)'
    BY <1>t, <2>1, <2>2, CountedFrame DEF TypeOK
  <2>3. CountedAt(t)'
    <3>1. seen[t] = {}
      BY <1>t, <2>1 DEF CountedAt
    <3>2. node[t] \in Slots /\ used \in SUBSET Slots
      BY <1>n, <1>t, <2>1 DEF Up, TypeOK
    <3>3. pc'[t] = "scan" /\ todo'[t] = used
      BY <1>t, <2>1 DEF TypeOK
    <3>4. /\ IsFiniteSet(seen'[t])
          /\ Cardinality(seen'[t]) <= Cardinality(Slots \ (todo'[t] \union {node'[t]}))
      <4>1. Cardinality(Slots \ (used \union {node[t]})) \in Nat
        BY <3>2, KeptType
      <4> QED
        BY <2>1, <3>1, <3>3, <4>1, FS_EmptySet
    <3> QED
      BY <1>t, <1>k, <2>1, <3>3, <3>4 DEF CountedAt, Scanning
  <2> QED
    BY <1>s, <2>1, <2>2, <2>3
<1>4. ASSUME NEW t \in Threads, ScanSlot(t)
      PROVE  (\A u \in Threads : CountedAt(u)') /\ (\A s \in Slots : OrphansAt(s)')
  <2>1. PICK s \in todo[t] :
          /\ todo' = [todo EXCEPT ![t] = @ \ {s}]
          /\ seen' = IF active[s] /\ hazard[s] # NULL
                     THEN [seen EXCEPT ![t] = @ \union {hazard[s]}]
                     ELSE seen
    BY <1>4 DEF ScanSlot
  <2>2. pc[t] = "scan" /\ UNCHANGED <<pc, retired, counter, node, orphaned, active>>
    BY <1>4 DEF ScanSlot
  <2>3. ASSUME NEW u \in Threads, u # t PROVE CountedAt(u)'
    <3>1. todo'[u] = todo[u] /\ seen'[u] = seen[u]
      BY <1>t, <2>1, <2>3 DEF TypeOK
    <3> QED
      BY <1>t, <2>2, <2>3, <3>1, CountedFrame
  <2>4. CountedAt(t)'
    <3>1. node[t] \in Slots /\ todo[t] \in SUBSET Slots /\ s \in Slots
      BY <1>n, <1>t, <2>2 DEF Up, TypeOK
    <3>2. todo'[t] = todo[t] \ {s}
      BY <1>t, <2>1 DEF TypeOK
    <3> DEFINE Left == Slots \ (todo[t] \union {node[t]})
    <3>3. /\ IsFiniteSet(Left) /\ Cardinality(Left) \in Nat
          /\ IsFiniteSet(seen[t]) /\ Cardinality(seen[t]) \in Nat
          /\ Cardinality(seen[t]) <= Cardinality(Left)
      <4>1. todo[t] \union {node[t]} \in SUBSET Slots
        BY <3>1
      <4> QED
        BY <1>t, <2>2, <4>1, KeptType, FS_CardinalityType DEF CountedAt, Scanning
    <3>4. /\ IsFiniteSet(seen'[t])
          /\ Cardinality(seen'[t]) <= Cardinality(Slots \ (todo'[t] \union {node'[t]}))
      <4>1. CASE s = node[t]
        <5>1. hazard[s] = NULL
          BY <2>2, <4>1 DEF IInv, Withdrawn, Up, Getting
        <5>2. seen' = seen
          BY <2>1, <5>1
        <5>3. Slots \ (todo'[t] \union {node'[t]}) = Left
          BY <2>2, <3>2, <4>1
        <5> QED
          BY <3>3, <5>2, <5>3
      <4>2. CASE s # node[t]
        <5>1. Slots \ (todo'[t] \union {node'[t]}) = Left \union {s} /\ s \notin Left
          BY <2>2, <3>1, <3>2, <4>2
        <5>2. Cardinality(Left \union {s}) = Cardinality(Left) + 1
          BY <3>3, <5>1, FS_AddElement
        <5>3. /\ IsFiniteSet(seen'[t])
              /\ Cardinality(seen'[t]) \in Nat
              /\ Cardinality(seen'[t]) <= Cardinality(seen[t]) + 1
          <6>1. CASE seen'[t] = seen[t]
            BY <3>3, <6>1
          <6>2. CASE seen'[t] = seen[t] \union {hazard[s]}
            <7>1. IsFiniteSet(seen[t])
              BY <3>3
            <7> QED
              BY <6>2, <7>1, AddOne
          <6> QED
            BY <1>t, <2>1, <6>1, <6>2 DEF TypeOK
        <5> QED
          BY <3>3, <5>1, <5>2, <5>3
      <4> QED
        BY <4>1, <4>2
    <3> QED
      BY <1>t, <1>k, <2>2, <3>4 DEF CountedAt, Scanning
  <2> QED
    BY <1>s, <2>2, <2>3, <2>4
<1>5. ASSUME NEW t \in Threads, EndScan(t)
      PROVE  (\A u \in Threads : CountedAt(u)') /\ (\A s \in Slots : OrphansAt(s)')
  <2>1. /\ pc[t] = "scan" /\ pc' = [pc EXCEPT ![t] = "reclaim"]
        /\ UNCHANGED <<retired, counter, seen, todo, node, orphaned, active>>
    BY <1>5 DEF EndScan
  <2>2. ASSUME NEW u \in Threads PROVE CountedAt(u)'
    BY <1>t, <1>k, <2>1 DEF CountedAt, Scanning, TypeOK
  <2> QED
    BY <1>s, <2>1, <2>2
<1>6. ASSUME NEW t \in Threads, Reclaim(t)
      PROVE  (\A u \in Threads : CountedAt(u)') /\ (\A s \in Slots : OrphansAt(s)')
  <2>1. PICK h \in retired[t] : retired' = [retired EXCEPT ![t] = @ \ {h}]
    BY <1>6 DEF Reclaim
  <2>2. UNCHANGED <<pc, counter, seen, todo, node, orphaned, active>> /\ pc[t] = "reclaim"
    BY <1>6 DEF Reclaim
  <2>3. ASSUME NEW u \in Threads, u # t PROVE CountedAt(u)'
    BY <1>t, <2>1, <2>2, <2>3, CountedFrame DEF TypeOK
  <2>4. CountedAt(t)'
    <3>1. retired'[t] = retired[t] \ {h}
      BY <1>t, <2>1 DEF TypeOK
    <3>2. /\ IsFiniteSet(retired'[t])
          /\ Cardinality(retired'[t]) \in Nat
          /\ Cardinality(retired[t]) \in Nat
          /\ Cardinality(retired'[t]) <= Cardinality(retired[t])
      BY <1>t, <3>1, DropOne DEF CountedAt
    <3>3. /\ Scanning(t) /\ Scanning(t)'
          /\ Cardinality(retired[t]) <= Kept + SCAN_THRESHOLD
      BY <1>t, <2>2 DEF CountedAt, Scanning
    <3>4. Cardinality(retired'[t]) <= Kept + SCAN_THRESHOLD
      BY <1>k, <3>2, <3>3, ThresholdAssumption
    <3> QED
      BY <1>t, <1>k, <2>2, <3>2, <3>3, <3>4 DEF CountedAt
  <2> QED
    BY <1>s, <2>2, <2>3, <2>4
<1>7. ASSUME NEW t \in Threads, EndReclaim(t)
      PROVE  (\A u \in Threads : CountedAt(u)') /\ (\A s \in Slots : OrphansAt(s)')
  <2>1. /\ pc[t] = "reclaim" /\ retired[t] \subseteq seen[t]
        /\ pc' = [pc EXCEPT ![t] = Resume(t, orphaned[node[t]])]
        /\ UNCHANGED <<retired, counter, seen, todo, node, orphaned, active>>
    BY <1>7 DEF EndReclaim
  <2>2. ASSUME NEW u \in Threads, u # t PROVE CountedAt(u)'
    BY <1>t, <2>1, <2>2, CountedFrame DEF TypeOK
  <2>3. CountedAt(t)'
    <3>1. /\ IsFiniteSet(seen[t]) /\ Cardinality(seen[t]) \in Nat
          /\ Cardinality(seen[t]) <= Kept
      BY <2>1, SeenBounded DEF Scanning
    <3>2. /\ IsFiniteSet(retired[t]) /\ Cardinality(retired[t]) \in Nat
          /\ Cardinality(retired[t]) <= Cardinality(seen[t])
      BY <2>1, <3>1, FS_Subset, FS_CardinalityType
    <3>3. Cardinality(retired'[t]) <= Kept
      BY <1>k, <2>1, <3>1, <3>2
    <3>4. pc'[t] \in {"release", "adopt", "idle"} /\ counter[t] \in Nat
      BY <1>t, <2>1, ThresholdAssumption DEF TypeOK, Resume
    <3>5. ~Scanning(t)' /\ IsFiniteSet(retired'[t])
      BY <2>1, <3>2, <3>4 DEF Scanning
    <3>6. Cardinality(retired'[t]) <= Kept + counter[t]
      BY <1>k, <2>1, <3>2, <3>3, <3>4
    <3>7. Cardinality(retired'[t]) <= Kept + 0
      BY <1>k, <3>3
    <3> QED
      BY <1>k, <2>1, <3>4, <3>5, <3>6, <3>7 DEF CountedAt
  <2> QED
    BY <1>s, <2>1, <2>2, <2>3
<1>8. ASSUME NEW t \in Threads, Release(t)
      PROVE  (\A u \in Threads : CountedAt(u)') /\ (\A s \in Slots : OrphansAt(s)')
  <2>1. /\ pc[t] = "release" /\ Up(t) /\ pc' = [pc EXCEPT ![t] = "down"]
        /\ orphaned' = [orphaned EXCEPT ![node[t]] = @ \union retired[t]]
        /\ active' = [active EXCEPT ![node[t]] = FALSE]
        /\ node' = [node EXCEPT ![t] = NULL]
        /\ retired' = [retired EXCEPT ![t] = {}]
        /\ counter' = [counter EXCEPT ![t] = 0]
        /\ seen' = [seen EXCEPT ![t] = {}]
        /\ UNCHANGED todo
    BY <1>8 DEF Release, Up
  <2>2. ASSUME NEW u \in Threads, u # t PROVE CountedAt(u)'
    BY <1>t, <2>1, <2>2, CountedFrame DEF TypeOK
  <2>3. CountedAt(t)'
    <3>1. retired'[t] = {} /\ pc'[t] = "down" /\ counter'[t] = 0
      BY <1>t, <2>1 DEF TypeOK
    <3>2. IsFiniteSet(retired'[t]) /\ Cardinality(retired'[t]) = 0
      BY <3>1, FS_EmptySet
    <3> QED
      BY <1>k, <3>1, <3>2 DEF CountedAt, Scanning
  <2>4. ASSUME NEW s \in Slots PROVE OrphansAt(s)'
    <3>1. CASE s = node[t]
      <4>1. orphaned[s] = {}
        BY <2>1, <3>1 DEF IInv, OrphansAdopted
      <4>2. orphaned'[s] = retired[t]
        BY <1>t, <2>1, <3>1, <4>1 DEF TypeOK
      <4>3. IsFiniteSet(retired[t]) /\ Cardinality(retired[t]) <= Kept + 0
        BY <1>t, <2>1 DEF CountedAt, Scanning
      <4>4. Cardinality(retired[t]) <= Kept
        BY <1>k, <4>3
      <4> QED
        BY <1>k, <4>2, <4>3, <4>4 DEF OrphansAt
    <3>2. CASE s # node[t]
      BY <1>t, <1>k, <2>1, <3>2 DEF OrphansAt, TypeOK
    <3> QED
      BY <3>1, <3>2
  <2> QED
    BY <2>2, <2>3, <2>4
<1>9. ASSUME NEW t \in Threads, PutExchange(t)
      PROVE  (\A u \in Threads : CountedAt(u)') /\ (\A s \in Slots : OrphansAt(s)')
  <2>1. /\ pc[t] = "put" /\ PushRetire(t, map[key[t]], {})
        /\ map[key[t]] # NULL
        /\ UNCHANGED <<node, todo, orphaned, active>>
    BY <1>9 DEF PutExchange
  <2>2. map[key[t]] \in Handles
    BY <1>t, <2>1 DEF TypeOK, ThreadLocal
  <2> QED
    BY <1>s, <2>1, <2>2, PushRetireCounted
<1>10. ASSUME NEW t \in Threads, ThreadStart(t)
       PROVE  (\A u \in Threads : CountedAt(u)') /\ (\A s \in Slots : OrphansAt(s)')
  <2>1. PICK q \in Slots :
          /\ active' = [active EXCEPT ![q] = TRUE]
          /\ node' = [node EXCEPT ![t] = q]
          /\ pc' = [pc EXCEPT ![t] = Resume(t, orphaned[q])]
    BY <1>10 DEF ThreadStart
  <2>2. pc[t] = "down" /\ UNCHANGED <<retired, counter, seen, todo, orphaned>>
    BY <1>10 DEF ThreadStart
  <2>3. ASSUME NEW u \in Threads, u # t PROVE CountedAt(u)'
    BY <1>t, <2>1, <2>2, <2>3, CountedFrame DEF TypeOK
  <2>4. CountedAt(t)'
    <3>1. pc'[t] \in {"adopt", "idle"}
      BY <1>t, <2>1, <2>2 DEF IInv, OrphansAdopted, Resume, TypeOK
    <3> QED
      BY <1>t, <1>k, <2>2, <3>1 DEF CountedAt, Scanning
  <2>5. ASSUME NEW s \in Slots PROVE OrphansAt(s)'
    <3>1. active'[s] = active[s] \/ active'[s]
      BY <1>t, <2>1 DEF TypeOK
    <3> QED
      BY <1>t, <1>k, <2>2, <3>1 DEF OrphansAt
  <2> QED
    BY <2>3, <2>4, <2>5
<1>11. ASSUME NEW t \in Threads, ThreadExit(t)
       PROVE  (\A u \in Threads : CountedAt(u)') /\ (\A s \in Slots : OrphansAt(s)')
  <2>1. /\ pc[t] = "idle" /\ pc' = [pc EXCEPT ![t] = "collect"]
        /\ seen' = [seen EXCEPT ![t] = {}]
        /\ UNCHANGED <<retired, counter, todo, node, orphaned, active>>
    BY <1>11 DEF ThreadExit, BeginScan
  <2>2. ASSUME NEW u \in Threads, u # t PROVE CountedAt(u)'
    BY <1>t, <2>1, <2>2, CountedFrame DEF TypeOK
  <2>3. CountedAt(t)'
    <3>1. pc'[t] = "collect" /\ seen'[t] = {}
      BY <1>t, <2>1 DEF TypeOK
    <3>2. node[t] \in Slots /\ todo[t] \in SUBSET Slots
      BY <1>n, <1>t, <2>1 DEF Up, TypeOK
    <3>3. /\ IsFiniteSet(seen'[t])
          /\ Cardinality(seen'[t]) <= Cardinality(Slots \ (todo'[t] \union {node'[t]}))
      <4>1. Cardinality(Slots \ (todo[t] \union {node[t]})) \in Nat
        BY <3>2, KeptType
      <4> QED
        BY <2>1, <3>1, <4>1, FS_EmptySet
    <3>4. /\ IsFiniteSet(retired[t]) /\ Cardinality(retired[t]) \in Nat
          /\ Cardinality(retired[t]) <= Kept + counter[t]
      BY <1>t, <2>1, FS_CardinalityType DEF CountedAt, Scanning
    <3>5. Cardinality(retired[t]) <= Kept + SCAN_THRESHOLD
      BY <1>t, <1>k, <3>4, ThresholdAssumption DEF TypeOK
    <3> QED
      BY <1>k, <2>1, <3>1, <3>3, <3>4, <3>5 DEF CountedAt, Scanning
  <2> QED
    BY <1>s, <2>1, <2>2, <2>3
<1>12. CASE TeardownDomain
  <2>1. /\ orphaned' = [s \in Slots |-> {}]
        /\ UNCHANGED <<pc, retired, counter, seen, todo, node, active>>
    BY <1>12 DEF TeardownDomain
  <2>2. \A s \in Slots : OrphansAt(s)'
    BY <1>k, <2>1, FS_EmptySet DEF OrphansAt
  <2> QED
    BY <1>t, <2>1, <2>2, CountedFrame
<1> QED
  BY <1>1, <1>2, <1>3, <1>4, <1>5, <1>6, <1>7, <1>8, <1>9, <1>10, <1>11, <1>12, <1>t,
     SameGarbageSteps

(***************************************************************************)
(* Theorems                                                                *)
(***************************************************************************)

LEMMA InitIInv == Init => IInv
<1> SUFFICES ASSUME Init PROVE IInv
  OBVIOUS
<1> USE DistinguishedValues, ThresholdAssumption DEF Init
<1>1. TypeOK
  BY DEF TypeOK, PCs
<1>2. ThreadLocal /\ SlotsOwnedOnce /\ DestReserved /\ ProtectedOwned /\ HazardSeen
  BY DEF ThreadLocal, SlotsOwnedOnce, DestReserved, ProtectedOwned, HazardSeen,
     Up, Getting
<1>3. \A h \in Handles : ~InElement(h) /\ ~InPut(h) /\ ~InRetired(h) /\ ~InOrphans(h)
  BY DEF InElement, InPut, InRetired, InOrphans
<1>4. OwnedOnce
  BY <1>3 DEF OwnedOnce, SoleOwner, InElement, InPut, InRetired, InOrphans
<1>5. CountExact
  <2>1. \A h \in Handles : Holders(h) = {}
    BY DEF Holders
  <2>2. \A h \in Handles : Cardinality(Holders(h)) = 0
    BY <2>1, FS_EmptySet
  <2>3. \A h \in Handles : ~Owned(h) /\ refcount[h] = 0
    BY <1>3 DEF Owned
  <2> QED
    BY <2>2, <2>3 DEF CountExact
<1>6. Withdrawn /\ OrphansAdopted
  BY DEF Withdrawn, OrphansAdopted, Up
<1>7. GarbageCounted
  <2>1. /\ \A t \in Threads : IsFiniteSet(retired[t]) /\ Cardinality(retired[t]) = 0
        /\ \A s \in Slots : IsFiniteSet(orphaned[s]) /\ Cardinality(orphaned[s]) = 0
    BY FS_EmptySet
  <2> QED
    BY <2>1, KeptType DEF GarbageCounted, Scanning
<1> QED
  BY <1>1, <1>2, <1>4, <1>5, <1>6, <1>7 DEF IInv

\* The invariant is inductive.
THEOREM Inductive == Spec => []IInv
<1>1. IInv /\ [Next]_vars => IInv'
  BY TypeStep, ThreadLocalStep, SlotsOwnedOnceStep, DestReservedStep, OwnedOnceStep,
     CountExactStep, ProtectedOwnedStep, HazardSeenStep, WithdrawnStep, OrphansAdoptedStep,
     GarbageCountedStep DEF IInv
<1> QED
  BY InitIInv, <1>1, PTL DEF Spec

\* Every variable keeps its type.
THEOREM TypeCorrect == Spec => []TypeOK
<1>1. IInv => TypeOK
  BY DEF IInv
<1> QED
  BY Inductive, <1>1, PTL

\* Memory safety: a get counts a reference to a handle that exists, and every
\* handle that a client reference holds exists.
THEOREM MemorySafe == Spec => []NoUseAfterFree
<1>1. IInv => NoUseAfterFree
  <2> SUFFICES ASSUME IInv PROVE NoUseAfterFree
    OBVIOUS
  <2>1. \A t \in Threads : pc[t] = "incref" => refcount[ptr[t]] > 0
    <3> SUFFICES ASSUME NEW t \in Threads, pc[t] = "incref" PROVE refcount[ptr[t]] > 0
      OBVIOUS
    <3>1. ptr[t] \in Handles /\ Owned(ptr[t])
      BY DEF IInv, ThreadLocal, ProtectedOwned, Owned
    <3> QED
      BY <3>1, HoldersFinite DEF IInv, CountExact
  <2>2. \A r \in Refs : ref[r] \in Handles => refcount[ref[r]] > 0
    <3> SUFFICES ASSUME NEW r \in Refs, ref[r] \in Handles PROVE refcount[ref[r]] > 0
      OBVIOUS
    <3>1. Cardinality(Holders(ref[r])) > 0
      <4>1. Holders(ref[r]) # {}
        BY DEF Holders
      <4> QED
        BY <4>1, HoldersFinite, FS_EmptySet
    <3> QED
      BY <3>1, HoldersFinite DEF IInv, CountExact
  <2> QED
    BY <2>1, <2>2 DEF NoUseAfterFree
<1> QED
  BY Inductive, <1>1, PTL

\* Exact counting: one reference per client reference and one for the store's
\* single owner, so that no handle is dropped twice and none is forgotten.
THEOREM CountsExact == Spec => []RefcountExact
<1>1. IInv => RefcountExact
  <2> SUFFICES ASSUME IInv, NEW h \in Handles
               PROVE  /\ \A a, b \in Owners(h) : a = b
                      /\ refcount[h] = Cardinality(Holders(h))
                                         + (IF Owners(h) = {} THEN 0 ELSE 1)
    BY DEF RefcountExact
  <2>1. SoleOwner(h)
    BY DEF IInv, OwnedOnce
  <2>2. Owners(h) = {} <=> ~Owned(h)
    <3>1. ASSUME Owners(h) = {} PROVE ~Owned(h)
      <4>1. /\ \A k \in Keys : map[k] = h => <<"element", k>> \in Owners(h)
            /\ \A t \in Threads : pc[t] = "put" /\ ptr[t] = h => <<"put", t>> \in Owners(h)
        BY DEF Owners
      <4>2. /\ \A t \in Threads : h \in retired[t] => <<"retired", t>> \in Owners(h)
            /\ \A s \in Slots : h \in orphaned[s] => <<"orphan", s>> \in Owners(h)
        BY DEF Owners
      <4> QED
        BY <3>1, <4>1, <4>2 DEF Owned, InElement, InPut, InRetired, InOrphans
    <3>2. ASSUME ~Owned(h) PROVE Owners(h) = {}
      BY <3>2 DEF Owners, Owned, InElement, InPut, InRetired, InOrphans
    <3> QED
      BY <3>1, <3>2
  <2>3. \A a, b \in Owners(h) : a = b
    BY <2>1 DEF Owners, SoleOwner, InElement, InPut, InRetired, InOrphans
  <2> QED
    BY <2>2, <2>3 DEF IInv, CountExact
<1> QED
  BY Inductive, <1>1, PTL

\* The argument of hazard pointers, for any number of scans under way.
THEOREM HazardsSeen == Spec => []HazardSeen
<1>1. IInv => HazardSeen
  BY DEF IInv
<1> QED
  BY Inductive, <1>1, PTL

\* However long a get keeps its hazard, the garbage of a thread and what it
\* leaves to its slot stay bounded.
THEOREM GarbageBounded == Spec => []BoundedGarbage
<1>1. IInv => BoundedGarbage
  <2> SUFFICES ASSUME IInv PROVE BoundedGarbage
    OBVIOUS
  <2>1. ASSUME NEW t \in Threads
        PROVE  Cardinality(retired[t]) <=
                   Kept + IF Scanning(t) THEN SCAN_THRESHOLD ELSE counter[t]
    <3>1. Cardinality(retired[t]) \in Nat /\ counter[t] \in Nat
      <4>1. IsFiniteSet(retired[t])
        BY DEF IInv, GarbageCounted
      <4>2. counter[t] \in 0..(SCAN_THRESHOLD - 1)
        BY DEF IInv, TypeOK
      <4> QED
        BY <4>1, <4>2, FS_CardinalityType, ThresholdAssumption
    <3>2. pc[t] = "release" => ~Scanning(t)
      BY DEF Scanning
    <3>3. Cardinality(retired[t]) <=
              Kept + IF Scanning(t) THEN SCAN_THRESHOLD
                     ELSE IF pc[t] = "release" THEN 0 ELSE counter[t]
      BY DEF IInv, GarbageCounted
    <3>4. CASE pc[t] = "release"
      BY <3>1, <3>2, <3>3, <3>4, KeptType
    <3>5. CASE pc[t] # "release"
      BY <3>3, <3>5
    <3> QED
      BY <3>4, <3>5
  <2> QED
    BY <2>1 DEF IInv, GarbageCounted, BoundedGarbage
<1> QED
  BY Inductive, <1>1, PTL

\* What the destructors of store and domain leave behind in their own state.
Gone ==
    /\ phase # "open" => \A k \in Keys : map[k] = NULL
    /\ phase = "domain_reset" => \A s \in Slots : orphaned[s] = {}

\* After the join no thread takes a step any more.
LEMMA GoneStep == TypeOK /\ ThreadLocal /\ Gone /\ [Next]_vars => Gone'
<1> SUFFICES ASSUME TypeOK, ThreadLocal, Gone, [Next]_vars PROVE Gone'
  OBVIOUS
<1>1. ASSUME NEW t \in Threads, Continue(t) \/ Choose(t) PROVE phase = "open" /\ phase' = phase
  <2>1. phase' = phase /\ (Up(t) \/ phase = "open")
    BY <1>1 DEF Continue, Choose, Adopt, BeginWalk, ScanSlot, EndScan, Reclaim, EndReclaim,
       Release, ProtectLoad, ProtectPublish, ProtectValidate, Incref, Unprotect, PutInsert,
       PutExchange, ThreadStart, ThreadExit, GetMiss, GetCall, PutCall, Up
  <2> QED
    BY <2>1 DEF ThreadLocal
<1>2. ASSUME \/ \E r \in Refs : Close(r)
             \/ \E dst, src \in Refs : MoveConstruct(dst, src) \/ MoveAssign(dst, src)
             \/ UNCHANGED vars
      PROVE  UNCHANGED <<map, orphaned, phase>>
  BY <1>2 DEF Close, MoveConstruct, MoveAssign, vars, shared
<1>3. CASE TeardownStore
  BY <1>3 DEF TeardownStore, Gone
<1>4. CASE TeardownDomain
  BY <1>4 DEF TeardownDomain, Gone
<1> QED
  BY <1>1, <1>2, <1>3, <1>4 DEF Next, Terminated, Gone

\* When the host is done, only what a client still refers to is left.
THEOREM NoLeaks == Spec => []NothingLeaked
<1>1. Init => Gone
  BY DEF Init, Gone
<1>2. IInv /\ Gone /\ [Next]_vars => Gone'
  BY GoneStep DEF IInv
<1>3. IInv /\ Gone => NothingLeaked
  <2> SUFFICES ASSUME IInv, Gone, phase = "domain_reset", NEW h \in Handles, refcount[h] > 0
               PROVE  \E r \in Refs : ref[r] = h
    BY DEF NothingLeaked
  <2>1. \A t \in Threads : pc[t] = "down" /\ retired[t] = {}
    BY DEF IInv, ThreadLocal, Up
  <2>2. ~Owned(h)
    BY <2>1, DistinguishedValues DEF Gone, Owned, InElement, InPut, InRetired, InOrphans
  <2>3. Cardinality(Holders(h)) > 0
    BY <2>2, HoldersFinite DEF IInv, CountExact
  <2>4. Holders(h) # {}
    BY <2>3, FS_EmptySet
  <2> QED
    BY <2>4 DEF Holders
<1> QED
  BY Inductive, <1>1, <1>2, <1>3, PTL DEF Spec

(***************************************************************************)
(* Refinement of the object store                                          *)
(***************************************************************************)

\* What the mapping makes of a reference.
Counting(t, r) == pc[t] = "incref" /\ dest[t] = r

RefMapped ==
    /\ RefBar \in [Refs -> Handles \union {NULL, Unborn}]
    /\ \A r \in Refs :
         /\ \A t \in Threads : Counting(t, r) => RefBar[r] = ptr[t]
         /\ (\A t \in Threads : ~Counting(t, r)) => RefBar[r] = ref[r]

LEMMA RefMappedHolds == IInv => RefMapped
<1> SUFFICES ASSUME IInv PROVE RefMapped
  OBVIOUS
<1>1. ASSUME NEW r \in Refs
      PROVE  /\ RefBar[r] \in Handles \union {NULL, Unborn}
             /\ \A t \in Threads : Counting(t, r) => RefBar[r] = ptr[t]
             /\ (\A t \in Threads : ~Counting(t, r)) => RefBar[r] = ref[r]
  <2>1. CASE \E t \in Threads : Counting(t, r)
    <3> DEFINE c == CHOOSE t \in Threads : pc[t] = "incref" /\ dest[t] = r
    <3>1. c \in Threads /\ Counting(c, r)
      BY <2>1 DEF Counting
    <3>2. RefBar[r] = ptr[c]
      BY <3>1 DEF RefBar, Counting
    <3>3. \A t \in Threads : Counting(t, r) => t = c
      BY <3>1 DEF IInv, DestReserved, Counting
    <3>4. ptr[c] \in Handles
      BY <3>1 DEF IInv, ThreadLocal, Counting
    <3> QED
      BY <3>1, <3>2, <3>3, <3>4
  <2>2. CASE \A t \in Threads : ~Counting(t, r)
    BY <2>2 DEF RefBar, Counting, IInv, TypeOK
  <2> QED
    BY <2>1, <2>2
<1> QED
  BY <1>1 DEF RefMapped, RefBar

\* A handle with no count is out of reach, and one in the map has a count.
CountMatters ==
    \A h \in Handles :
        /\ refcount[h] \in Nat
        /\ refcount[h] = 0 => ~Store!Reachable(h) /\ ~Owned(h)
        /\ Owned(h) => refcount[h] > 0
        /\ \A r \in Refs : RefBar[r] = h => refcount[h] > 0

LEMMA CountMattersHolds == IInv => CountMatters
<1> SUFFICES ASSUME IInv, NEW h \in Handles
             PROVE  /\ refcount[h] \in Nat
                    /\ refcount[h] = 0 => ~Store!Reachable(h) /\ ~Owned(h)
                    /\ Owned(h) => refcount[h] > 0
                    /\ \A r \in Refs : RefBar[r] = h => refcount[h] > 0
  BY DEF CountMatters
<1>1. refcount[h] \in Nat
  BY HoldersFinite DEF IInv, CountExact
<1>2. Owned(h) => refcount[h] > 0
  BY HoldersFinite DEF IInv, CountExact
<1>3. ASSUME NEW r \in Refs, RefBar[r] = h PROVE refcount[h] > 0
  <2>1. CASE \E t \in Threads : Counting(t, r)
    <3>1. PICK t \in Threads : Counting(t, r)
      BY <2>1
    <3>2. ptr[t] = h
      BY <1>3, <3>1, RefMappedHolds DEF RefMapped
    <3> QED
      BY <1>2, <3>1, <3>2 DEF IInv, ProtectedOwned, Counting, Owned
  <2>2. CASE \A t \in Threads : ~Counting(t, r)
    <3>1. r \in Holders(h)
      BY <1>3, <2>2, RefMappedHolds DEF RefMapped, Holders
    <3>2. Cardinality(Holders(h)) # 0
      BY <3>1, HoldersFinite, FS_EmptySet
    <3> QED
      BY <3>2, HoldersFinite DEF IInv, CountExact
  <2> QED
    BY <2>1, <2>2
<1>4. \A k \in Keys : map[k] = h => refcount[h] > 0
  BY <1>2 DEF Owned, InElement
<1> QED
  BY <1>1, <1>2, <1>3, <1>4 DEF Store!Reachable

\* What every step may assume of the states before and after it.
Facts == IInv /\ RefMapped /\ CountMatters

LEMMA FactsHold == IInv => Facts
BY RefMappedHolds, CountMattersHolds DEF Facts

(***************************************************************************)
(* Frames                                                                  *)
(***************************************************************************)

SameCounting ==
    \A t \in Threads : /\ pc'[t] = "incref" <=> pc[t] = "incref"
                       /\ pc[t] = "incref" => ptr'[t] = ptr[t] /\ dest'[t] = dest[t]

SamePuts ==
    \A t \in Threads : /\ pc'[t] = "put" <=> pc[t] = "put"
                       /\ pc[t] = "put" => ptr'[t] = ptr[t]

\* One reference, before and after a step that leaves the getters alone.
LEMMA RefBarFollows ==
  ASSUME Facts, Facts', SameCounting, NEW r \in Refs
  PROVE  /\ ref'[r] = ref[r] => RefBar'[r] = RefBar[r]
         /\ (\A t \in Threads : ~Counting(t, r)) =>
                RefBar[r] = ref[r] /\ RefBar'[r] = ref'[r]
<1>1. RefMapped /\ RefMapped'
  BY DEF Facts
<1>2. CASE \E t \in Threads : Counting(t, r)
  <2>1. PICK t \in Threads : Counting(t, r)
    BY <1>2
  <2>2. RefBar[r] = ptr[t]
    BY <1>1, <2>1 DEF RefMapped
  <2>3. Counting(t, r)' /\ ptr'[t] = ptr[t]
    BY <2>1 DEF SameCounting, Counting
  <2>4. RefBar'[r] = ptr'[t]
    BY <1>1, <2>3 DEF RefMapped
  <2> QED
    BY <2>1, <2>2, <2>3, <2>4
<1>3. CASE \A t \in Threads : ~Counting(t, r)
  <2>1. RefBar[r] = ref[r]
    BY <1>1, <1>3 DEF RefMapped
  <2>2. \A t \in Threads : ~Counting(t, r)'
    BY <1>3 DEF SameCounting, Counting
  <2>3. RefBar'[r] = ref'[r]
    BY <1>1, <2>2 DEF RefMapped
  <2> QED
    BY <2>1, <2>3
<1> QED
  BY <1>2, <1>3

LEMMA RefBarSame ==
  ASSUME Facts, Facts', SameCounting, UNCHANGED ref
  PROVE  RefBar' = RefBar
<1>1. \A r \in Refs : RefBar'[r] = RefBar[r]
  BY RefBarFollows
<1>2. RefBar \in [Refs -> Handles \union {NULL, Unborn}]
      /\ RefBar' \in [Refs -> Handles \union {NULL, Unborn}]
  BY DEF Facts, RefMapped
<1> QED
  BY <1>1, <1>2

\* Counts that stay positive or stay zero leave the set of live handles alone.
LEMMA AliveSame ==
  ASSUME SamePuts, \A h \in Handles : refcount'[h] > 0 <=> refcount[h] > 0
  PROVE  AliveBar' = AliveBar
BY DEF AliveBar, SamePuts

\* Counts that only fall destroy only what is out of reach.
LEMMA CollectsUnreachable ==
  ASSUME Facts, Facts', SamePuts, \A h \in Handles : refcount'[h] <= refcount[h]
  PROVE  Store!Collects
<1>1. \A h \in Handles : refcount[h] \in Nat /\ refcount'[h] \in Nat
  BY DEF Facts, CountMatters
<1>2. AliveBar' \in SUBSET AliveBar
  BY <1>1 DEF AliveBar, SamePuts
<1>3. ASSUME NEW h \in AliveBar \ AliveBar' PROVE ~Store!Reachable(h)'
  <2>1. h \in Handles /\ refcount'[h] = 0
    BY <1>1, <1>3 DEF AliveBar, SamePuts
  <2> QED
    BY <2>1 DEF Facts, CountMatters
<1> QED
  BY <1>2, <1>3 DEF Store!Collects

(***************************************************************************)
(* Steps                                                                   *)
(***************************************************************************)

\* Everything up to the operations' linearization points, and the work of
\* the reclamation scheme that touches no count, is invisible.
LEMMA InvisibleSteps ==
  ASSUME Facts, Facts', NEW t \in Threads,
         \/ Adopt(t) \/ BeginWalk(t) \/ ScanSlot(t) \/ EndScan(t) \/ EndReclaim(t) \/ Release(t)
         \/ ProtectLoad(t) \/ ProtectPublish(t) \/ Unprotect(t)
         \/ (ProtectValidate(t) /\ map[key[t]] # ptr[t])
         \/ ThreadStart(t) \/ ThreadExit(t) \/ GetCall(t)
  PROVE  UNCHANGED Store!vars
<1>a. TypeOK
  BY DEF Facts, IInv
<1>1. UNCHANGED <<map, refcount, ref, phase>>
  BY DEF Adopt, BeginWalk, ScanSlot, EndScan, EndReclaim, Release, ProtectLoad, ProtectPublish,
     Unprotect, ProtectValidate, ThreadStart, ThreadExit, GetCall, shared
<1>2. SameCounting /\ SamePuts
  <2>1. CASE Adopt(t)
    BY <1>a, <2>1, AdoptGoes DEF Adopt, Retires, SameCounting, SamePuts, locals
  <2>2. CASE BeginWalk(t) \/ ScanSlot(t) \/ EndScan(t) \/ EndReclaim(t) \/ Release(t)
    BY <1>a, <2>2
    DEF TypeOK, BeginWalk, ScanSlot, EndScan, EndReclaim, Release, Resume, SameCounting, SamePuts, locals
  <2>3. CASE \/ ProtectLoad(t) \/ ProtectPublish(t) \/ Unprotect(t)
             \/ (ProtectValidate(t) /\ map[key[t]] # ptr[t])
    BY <1>a, <2>3
    DEF TypeOK, ProtectLoad, ProtectPublish, Unprotect, ProtectValidate,
        SameCounting, SamePuts, locals
  <2>4. CASE ThreadStart(t) \/ ThreadExit(t) \/ GetCall(t)
    BY <1>a, <2>4
    DEF TypeOK, ThreadStart, ThreadExit, GetCall, BeginScan, Resume,
        SameCounting, SamePuts, locals
  <2> QED
    BY <2>1, <2>2, <2>3, <2>4
<1> QED
  BY <1>1, <1>2, RefBarSame, AliveSame DEF Store!vars

\* A get that validates has got what the key maps to at that moment.
LEMMA ValidateGets ==
  ASSUME Facts, Facts', NEW t \in Threads, ProtectValidate(t), map[key[t]] = ptr[t]
  PROVE  Store!Get(dest[t], key[t]) /\ dest[t] \in Refs /\ key[t] \in Keys
<1>a. TypeOK /\ ThreadLocal /\ DestReserved /\ RefMapped /\ RefMapped'
  BY DEF Facts, IInv
<1>1. /\ pc[t] = "validate" /\ pc' = [pc EXCEPT ![t] = "incref"]
      /\ UNCHANGED <<map, refcount, ref, ptr, dest, phase>>
  BY DEF ProtectValidate, shared, locals
<1>p. phase = "open"
  BY <1>a, <1>1 DEF ThreadLocal, Up
<1>2. dest[t] \in Refs /\ key[t] \in Keys /\ ref[dest[t]] = Unborn
  BY <1>a, <1>1 DEF ThreadLocal, DestReserved, Getting
<1>3. \A u \in Threads, r \in Refs :
        Counting(u, r)' <=> Counting(u, r) \/ (u = t /\ r = dest[t])
  BY <1>a, <1>1 DEF Counting, TypeOK
<1>4. \A u \in Threads : ~Counting(u, dest[t])
  BY <1>a, <1>1, <1>2 DEF Counting, DestReserved
<1>5. RefBar[dest[t]] = Unborn
  BY <1>a, <1>2, <1>4 DEF RefMapped
<1>6. RefBar'[dest[t]] = map[key[t]]
  BY <1>a, <1>1, <1>2, <1>3 DEF RefMapped
<1>7. ASSUME NEW r \in Refs, r # dest[t] PROVE RefBar'[r] = RefBar[r]
  <2>1. CASE \E u \in Threads : Counting(u, r)
    BY <1>a, <1>1, <1>3, <2>1 DEF RefMapped
  <2>2. CASE \A u \in Threads : ~Counting(u, r)
    BY <1>a, <1>1, <1>3, <1>7, <2>2 DEF RefMapped
  <2> QED
    BY <2>1, <2>2
<1>8. RefBar' = [RefBar EXCEPT ![dest[t]] = map[key[t]]]
  BY <1>a, <1>6, <1>7 DEF RefMapped
<1>9. AliveBar' = AliveBar
  BY <1>a, <1>1, AliveSame DEF SamePuts, TypeOK
<1> QED
  BY <1>1, <1>p, <1>2, <1>5, <1>8, <1>9 DEF Store!Get

\* A get that finds no element returns nullptr for an absent key.
LEMMA MissGets ==
  ASSUME Facts, Facts', NEW t \in Threads, GetMiss(t)
  PROVE  \E r \in Refs, k \in Keys : Store!Get(r, k)
<1>a. TypeOK /\ DestReserved /\ RefMapped /\ RefMapped'
  BY DEF Facts, IInv
<1>1. PICK r \in Refs, k \in Keys :
        Available(r) /\ map[k] = NULL /\ ref' = [ref EXCEPT ![r] = NULL]
  BY DEF GetMiss
<1>2. UNCHANGED <<map, refcount, pc, ptr, dest, phase>> /\ phase = "open"
  BY DEF GetMiss, locals, Facts, IInv, ThreadLocal, Up
<1>3. SameCounting /\ SamePuts
  BY <1>2 DEF SameCounting, SamePuts
<1>4. \A u \in Threads : ~Counting(u, r)
  BY <1>1 DEF Available, Counting
<1>5. RefBar[r] = Unborn /\ RefBar'[r] = NULL
  BY <1>a, <1>1, <1>3, <1>4, RefBarFollows DEF Available, TypeOK
<1>6. \A q \in Refs : q # r => RefBar'[q] = RefBar[q]
  BY <1>a, <1>1, <1>3, RefBarFollows DEF TypeOK
<1>7. RefBar' = [RefBar EXCEPT ![r] = map[k]]
  BY <1>a, <1>1, <1>5, <1>6 DEF RefMapped
<1>8. AliveBar' = AliveBar
  BY <1>2, <1>3, AliveSame
<1> QED
  BY <1>2, <1>5, <1>7, <1>8 DEF Store!Get

\* Allocating a handle and adding a reference that was announced at the
\* validation are invisible too.
LEMMA AllocationInvisible ==
  ASSUME Facts, Facts', NEW t \in Threads, PutCall(t)
  PROVE  UNCHANGED Store!vars
<1>a. TypeOK
  BY DEF Facts, IInv
<1>1. PICK h \in Handles : /\ refcount[h] = 0 /\ refcount' = [refcount EXCEPT ![h] = 1]
                           /\ ptr' = [ptr EXCEPT ![t] = h]
  BY DEF PutCall
<1>2. pc[t] = "idle" /\ pc' = [pc EXCEPT ![t] = "put"] /\ UNCHANGED <<map, ref, dest, phase>>
  BY DEF PutCall
<1>3. SameCounting
  BY <1>a, <1>1, <1>2 DEF SameCounting, TypeOK
<1>4. AliveBar' = AliveBar
  <2>1. h \notin AliveBar /\ h \notin AliveBar'
    BY <1>a, <1>1, <1>2 DEF AliveBar, TypeOK
  <2>2. ASSUME NEW g \in Handles, g # h PROVE g \in AliveBar' <=> g \in AliveBar
    BY <1>a, <1>1, <1>2, <2>2 DEF AliveBar, TypeOK
  <2> QED
    BY <2>1, <2>2 DEF AliveBar
<1> QED
  BY <1>2, <1>3, <1>4, RefBarSame DEF Store!vars

LEMMA IncrefInvisible ==
  ASSUME Facts, Facts', NEW t \in Threads, Incref(t)
  PROVE  UNCHANGED Store!vars
<1>a. TypeOK /\ ThreadLocal /\ DestReserved /\ RefMapped /\ RefMapped' /\ CountMatters
  BY DEF Facts, IInv
<1>1. /\ pc[t] = "incref" /\ pc' = [pc EXCEPT ![t] = "unprotect"]
      /\ refcount' = [refcount EXCEPT ![ptr[t]] = @ + 1]
      /\ ref' = [ref EXCEPT ![dest[t]] = ptr[t]]
      /\ UNCHANGED <<map, ptr, dest, phase>>
  BY DEF Incref, locals
<1>2. ptr[t] \in Handles /\ dest[t] \in Refs /\ Counting(t, dest[t])
  BY <1>a, <1>1 DEF ThreadLocal, DestReserved, Getting, Counting
<1>3. RefBar[dest[t]] = ptr[t]
  BY <1>a, <1>2 DEF RefMapped
<1>4. refcount[ptr[t]] > 0
  BY <1>a, <1>2, <1>3 DEF CountMatters
<1>5. AliveBar' = AliveBar
  <2>1. SamePuts
    BY <1>a, <1>1 DEF SamePuts, TypeOK
  <2>2. \A h \in Handles : refcount'[h] > 0 <=> refcount[h] > 0
    BY <1>a, <1>1, <1>2, <1>4 DEF TypeOK
  <2> QED
    BY <2>1, <2>2, AliveSame
<1>6. ASSUME NEW r \in Refs PROVE RefBar'[r] = RefBar[r]
  <2>1. CASE r = dest[t]
    <3>1. \A u \in Threads : ~Counting(u, r)'
      BY <1>a, <1>1, <1>2, <2>1 DEF Counting, DestReserved, TypeOK
    <3>2. RefBar'[r] = ref'[r]
      BY <1>a, <3>1 DEF RefMapped
    <3> QED
      BY <1>a, <1>1, <1>2, <1>3, <2>1, <3>2 DEF TypeOK
  <2>2. CASE r # dest[t]
    <3>1. \A u \in Threads : Counting(u, r)' <=> Counting(u, r)
      BY <1>a, <1>1, <2>2 DEF Counting, TypeOK
    <3>2. ref'[r] = ref[r]
      BY <1>a, <1>1, <2>2 DEF TypeOK
    <3>3. CASE \E u \in Threads : Counting(u, r)
      BY <1>a, <1>1, <3>1, <3>3 DEF RefMapped
    <3>4. CASE \A u \in Threads : ~Counting(u, r)
      BY <1>a, <3>1, <3>2, <3>4 DEF RefMapped
    <3> QED
      BY <3>3, <3>4
  <2> QED
    BY <2>1, <2>2
<1>7. RefBar' = RefBar
  BY <1>a, <1>6 DEF RefMapped
<1> QED
  BY <1>1, <1>5, <1>7 DEF Store!vars

\* A put takes effect where the element gets the new handle.
LEMMA PublishPuts ==
  ASSUME Facts, Facts', NEW t \in Threads, PutInsert(t) \/ PutExchange(t)
  PROVE  \E k \in Keys, h \in Handles : Store!Put(k, h)
<1>a. TypeOK /\ ThreadLocal /\ CountMatters
  BY DEF Facts, IInv
<1>1. /\ pc[t] = "put"
      /\ map' = [map EXCEPT ![key[t]] = ptr[t]]
      /\ ptr' = [ptr EXCEPT ![t] = NULL]
      /\ UNCHANGED <<refcount, ref, dest, phase>>
  BY DEF PutInsert, PutExchange, Publish
<1>2. key[t] \in Keys /\ ptr[t] \in Handles /\ phase = "open"
  BY <1>a, <1>1 DEF ThreadLocal, Up
<1>3. /\ pc'[t] \notin {"put", "incref"}
      /\ \A u \in Threads : u # t => pc'[u] = pc[u] /\ ptr'[u] = ptr[u]
  <2>1. CASE PutInsert(t)
    BY <1>a, <1>1, <2>1 DEF PutInsert, TypeOK
  <2>2. CASE PutExchange(t)
    BY <1>a, <1>1, <2>2, PushRetireGoes DEF PutExchange, Retires, TypeOK
  <2> QED
    BY <2>1, <2>2
<1>4. RefBar' = RefBar
  BY <1>1, <1>3, RefBarSame DEF SameCounting
<1>5. ptr[t] \notin AliveBar
  BY <1>1 DEF AliveBar
<1>6. refcount[ptr[t]] > 0
  BY <1>a, <1>1, <1>2 DEF CountMatters, Owned, InPut
<1>7. SoleOwner(ptr[t])
  BY <1>2 DEF Facts, IInv, OwnedOnce
<1>8. AliveBar' = AliveBar \union {ptr[t]}
  <2>1. \A u \in Threads : ~(pc'[u] = "put" /\ ptr'[u] = ptr[t])
    BY <1>1, <1>3, <1>7 DEF SoleOwner
  <2>2. ptr[t] \in AliveBar'
    BY <1>1, <1>2, <1>6, <2>1 DEF AliveBar
  <2>3. ASSUME NEW h \in Handles, h # ptr[t] PROVE h \in AliveBar' <=> h \in AliveBar
    BY <1>1, <1>3, <2>3 DEF AliveBar
  <2> QED
    BY <1>2, <2>2, <2>3 DEF AliveBar
<1> QED
  BY <1>1, <1>2, <1>4, <1>5, <1>8 DEF Store!Put

\* Reclaiming and resetting the domain destroy what no client can reach.
LEMMA ReclaimDestroys ==
  ASSUME Facts, Facts', (\E t \in Threads : Reclaim(t)) \/ TeardownDomain
  PROVE  Store!Destroy
<1>a. TypeOK
  BY DEF Facts, IInv
<1>1. /\ UNCHANGED <<map, ref, pc, ptr, dest>> /\ (phase' = "open" <=> phase = "open")
      /\ \A h \in Handles : refcount'[h] <= refcount[h]
  <2>1. CASE \E t \in Threads : Reclaim(t)
    <3>1. PICK t \in Threads : Reclaim(t)
      BY <2>1
    <3>2. PICK h \in retired[t] : DropHandle(h)
      BY <3>1 DEF Reclaim
    <3>3. \A g \in Handles : refcount'[g] <= refcount[g]
      BY <1>a, <3>2 DEF DropHandle, TypeOK
    <3> QED
      BY <3>1, <3>3 DEF Reclaim, locals
  <2>2. CASE TeardownDomain
    BY <1>a, <2>2 DEF TeardownDomain, TypeOK, locals
  <2> QED
    BY <2>1, <2>2
<1>2. SameCounting /\ SamePuts
  BY <1>1 DEF SameCounting, SamePuts
<1> QED
  BY <1>1, <1>2, RefBarSame, CollectsUnreachable DEF Store!Destroy

\* Resetting the store empties the map.
LEMMA TeardownShutsDown ==
  ASSUME Facts, Facts', TeardownStore
  PROVE  Store!Shutdown
<1>a. TypeOK
  BY DEF Facts, IInv
<1>1. /\ UNCHANGED <<ref, pc, ptr, dest>> /\ phase = "open" /\ phase' # "open"
      /\ map' = [k \in Keys |-> NULL]
      /\ \A h \in Handles : refcount'[h] <= refcount[h]
  BY <1>a DEF TeardownStore, TypeOK, locals
<1>2. SameCounting /\ SamePuts
  BY <1>1 DEF SameCounting, SamePuts
<1> QED
  BY <1>1, <1>2, RefBarSame, CollectsUnreachable DEF Store!Shutdown

(***************************************************************************)
(* References                                                              *)
(***************************************************************************)

LEMMA CloseCloses ==
  ASSUME Facts, Facts', NEW r \in Refs, Close(r)
  PROVE  Store!Close(r)
<1>a. TypeOK /\ RefMapped /\ RefMapped'
  BY DEF Facts, IInv
<1>1. /\ Settled(r) /\ DropHandle(ref[r])
      /\ ref' = [ref EXCEPT ![r] = Unborn]
      /\ UNCHANGED <<map, pc, ptr, dest, phase>>
  BY DEF Close, locals
<1>2. SameCounting /\ SamePuts
  BY <1>1 DEF SameCounting, SamePuts
<1>3. \A u \in Threads : ~Counting(u, r)
  BY <1>1 DEF Settled, Counting
<1>4. RefBar[r] # Unborn /\ RefBar'[r] = Unborn
  BY <1>a, <1>1, <1>2, <1>3, RefBarFollows DEF Settled, TypeOK
<1>5. \A q \in Refs : q # r => RefBar'[q] = RefBar[q]
  BY <1>a, <1>1, <1>2, RefBarFollows DEF TypeOK
<1>6. RefBar' = [RefBar EXCEPT ![r] = Unborn]
  BY <1>a, <1>4, <1>5 DEF RefMapped
<1>7. \A h \in Handles : refcount'[h] <= refcount[h]
  BY <1>a, <1>1 DEF DropHandle, TypeOK
<1> QED
  BY <1>1, <1>2, <1>4, <1>6, <1>7, CollectsUnreachable DEF Store!Close

\* Both kinds of move, seen through the mapping.
LEMMA MoveMapped ==
  ASSUME Facts, Facts', SameCounting, NEW dst \in Refs, NEW src \in Refs, dst # src,
         \A u \in Threads : ~Counting(u, dst) /\ ~Counting(u, src),
         ref' = [ref EXCEPT ![dst] = ref[src], ![src] = NULL]
  PROVE  /\ RefBar[dst] = ref[dst] /\ RefBar[src] = ref[src]
         /\ RefBar' = [RefBar EXCEPT ![dst] = RefBar[src], ![src] = NULL]
<1>a. TypeOK /\ RefMapped /\ RefMapped'
  BY DEF Facts, IInv
<1>1. /\ RefBar[dst] = ref[dst] /\ RefBar'[dst] = ref'[dst]
      /\ RefBar[src] = ref[src] /\ RefBar'[src] = ref'[src]
  BY RefBarFollows
<1>2. \A q \in Refs : q # dst /\ q # src => RefBar'[q] = RefBar[q]
  BY <1>a, RefBarFollows DEF TypeOK
<1>3. ref'[dst] = ref[src] /\ ref'[src] = NULL
  BY <1>a DEF TypeOK
<1> QED
  BY <1>a, <1>1, <1>2, <1>3 DEF RefMapped

LEMMA MoveConstructMoves ==
  ASSUME Facts, Facts', NEW dst \in Refs, NEW src \in Refs, MoveConstruct(dst, src)
  PROVE  Store!MoveConstruct(dst, src)
<1>1. /\ Available(dst) /\ Settled(src)
      /\ ref' = [ref EXCEPT ![dst] = ref[src], ![src] = NULL]
      /\ UNCHANGED <<map, refcount, pc, ptr, dest, phase>>
  BY DEF MoveConstruct, shared, locals
<1>2. SameCounting /\ SamePuts
  BY <1>1 DEF SameCounting, SamePuts
<1>3. /\ dst # src /\ ref[dst] = Unborn /\ ref[src] # Unborn
      /\ \A u \in Threads : ~Counting(u, dst) /\ ~Counting(u, src)
  BY <1>1 DEF Available, Settled, Counting
<1>4. /\ RefBar[dst] = ref[dst] /\ RefBar[src] = ref[src]
      /\ RefBar' = [RefBar EXCEPT ![dst] = RefBar[src], ![src] = NULL]
  BY <1>1, <1>2, <1>3, MoveMapped
<1>5. AliveBar' = AliveBar
  BY <1>1, <1>2, AliveSame
<1> QED
  BY <1>1, <1>3, <1>4, <1>5 DEF Store!MoveConstruct

LEMMA MoveAssignMoves ==
  ASSUME Facts, Facts', NEW dst \in Refs, NEW src \in Refs, MoveAssign(dst, src)
  PROVE  Store!MoveAssign(dst, src)
<1>a. TypeOK
  BY DEF Facts, IInv
<1>1. /\ dst # src /\ Settled(dst) /\ Settled(src) /\ DropHandle(ref[dst])
      /\ ref' = [ref EXCEPT ![dst] = ref[src], ![src] = NULL]
      /\ UNCHANGED <<map, pc, ptr, dest, phase>>
  BY DEF MoveAssign, locals
<1>2. SameCounting /\ SamePuts
  BY <1>1 DEF SameCounting, SamePuts
<1>3. /\ ref[dst] # Unborn /\ ref[src] # Unborn
      /\ \A u \in Threads : ~Counting(u, dst) /\ ~Counting(u, src)
  BY <1>1 DEF Settled, Counting
<1>4. /\ RefBar[dst] = ref[dst] /\ RefBar[src] = ref[src]
      /\ RefBar' = [RefBar EXCEPT ![dst] = RefBar[src], ![src] = NULL]
  BY <1>1, <1>2, <1>3, MoveMapped
<1>5. \A h \in Handles : refcount'[h] <= refcount[h]
  BY <1>a, <1>1 DEF DropHandle, TypeOK
<1> QED
  BY <1>1, <1>2, <1>3, <1>4, <1>5, CollectsUnreachable DEF Store!MoveAssign

(***************************************************************************)
(* The theorem                                                             *)
(***************************************************************************)

LEMMA InitMaps == Init => Store!Init
<1> SUFFICES ASSUME Init PROVE Store!Init
  OBVIOUS
<1>1. RefBar = [r \in Refs |-> Unborn]
  BY DEF RefBar, Init
<1>2. AliveBar = {}
  BY DEF AliveBar, Init
<1> QED
  BY <1>1, <1>2 DEF Init, Store!Init

LEMMA StepMaps == Facts /\ Facts' /\ [Next]_vars => [Store!Next]_(Store!vars)
<1> SUFFICES ASSUME Facts, Facts', [Next]_vars PROVE [Store!Next]_(Store!vars)
  OBVIOUS
<1>1. ASSUME NEW t \in Threads, Continue(t) PROVE [Store!Next]_(Store!vars)
  <2>1. CASE \/ Adopt(t) \/ BeginWalk(t) \/ ScanSlot(t) \/ EndScan(t) \/ EndReclaim(t) \/ Release(t)
             \/ ProtectLoad(t) \/ ProtectPublish(t) \/ Unprotect(t)
             \/ (ProtectValidate(t) /\ map[key[t]] # ptr[t])
    BY <2>1, InvisibleSteps
  <2>2. CASE ProtectValidate(t) /\ map[key[t]] = ptr[t]
    BY <2>2, ValidateGets DEF Store!Next
  <2>3. CASE Incref(t)
    BY <2>3, IncrefInvisible
  <2>4. CASE PutInsert(t) \/ PutExchange(t)
    BY <2>4, PublishPuts DEF Store!Next
  <2>5. CASE Reclaim(t)
    BY <2>5, ReclaimDestroys DEF Store!Next
  <2> QED
    BY <1>1, <2>1, <2>2, <2>3, <2>4, <2>5 DEF Continue
<1>2. ASSUME NEW t \in Threads, Choose(t) PROVE [Store!Next]_(Store!vars)
  <2>1. CASE ThreadStart(t) \/ ThreadExit(t) \/ GetCall(t)
    BY <2>1, InvisibleSteps
  <2>2. CASE GetMiss(t)
    BY <2>2, MissGets DEF Store!Next
  <2>3. CASE PutCall(t)
    BY <2>3, AllocationInvisible
  <2> QED
    BY <1>2, <2>1, <2>2, <2>3 DEF Choose
<1>3. ASSUME NEW r \in Refs, Close(r) PROVE Store!Next
  BY <1>3, CloseCloses DEF Store!Next
<1>4. ASSUME NEW dst \in Refs, NEW src \in Refs,
             MoveConstruct(dst, src) \/ MoveAssign(dst, src)
      PROVE  Store!Next
  BY <1>4, MoveConstructMoves, MoveAssignMoves DEF Store!Next
<1>5. CASE TeardownStore
  BY <1>5, TeardownShutsDown DEF Store!Next
<1>6. CASE TeardownDomain
  BY <1>6, ReclaimDestroys DEF Store!Next
<1>7. CASE UNCHANGED vars
  <2>1. SameCounting /\ SamePuts /\ UNCHANGED <<map, refcount, ref, phase>>
    BY <1>7 DEF vars, shared, domain, locals, SameCounting, SamePuts
  <2> QED
    BY <2>1, RefBarSame, AliveSame DEF Store!vars
<1> QED
  BY <1>1, <1>2, <1>3, <1>4, <1>5, <1>6, <1>7 DEF Next, Terminated

\* The hybrid store is a linearizable object store: its puts and gets take
\* effect atomically, and no step of its reclamation destroys a handle that a
\* client can still reach.
THEOREM Refinement == Spec => ImplementsObjectStore
<1>1. Spec => []Facts
  BY Inductive, FactsHold, PTL
<1> QED
  BY <1>1, InitMaps, StepMaps, PTL DEF ImplementsObjectStore, Spec, Store!Spec

============================================================================
