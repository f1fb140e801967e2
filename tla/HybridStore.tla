---------------------------- MODULE HybridStore ----------------------------
(***************************************************************************)
(* The default backend: hybrid_store (hash_tables/hybrid.h), a concurrent  *)
(* flat map whose elements are atomic handle pointers, with the hazard     *)
(* pointer domain (hash_tables/hazard.h and .cpp) that decides when a      *)
(* replaced handle may be dropped, the reference count of handle.cpp and   *)
(* the RAII references of client.h.                                        *)
(*                                                                         *)
(* One action is one access to memory that another thread can write, taken *)
(* together with the private work around it.  Accesses are sequentially    *)
(* consistent.  The flat map is external: an element is created once, is   *)
(* never erased, and its visitors run concurrently with each other.        *)
(* The slots of a hazard_domain are the nodes of SlotTable.tla, reduced    *)
(* here to what acquire and release give: a slot has at most one owner.    *)
(***************************************************************************)
EXTENDS Integers, FiniteSets

CONSTANTS
    Keys,            \* keys of the flat map
    Handles,         \* addresses at which an object_handle can be allocated
    Refs,            \* client variables of type sas::ref<T>
    Threads,         \* client threads; one that has exited may start again
    Slots,           \* nodes of the hazard domain's slot table
    SCAN_THRESHOLD,  \* calls of push_retire between two scans
    NULL,            \* nullptr
    Unborn           \* a ref variable outside its lifetime

ASSUME DistinguishedValues ==
    /\ NULL \notin Handles \union Slots \union Refs \union Keys
    /\ Unborn \notin Handles \union {NULL}
ASSUME FiniteInstance == IsFiniteSet(Refs) /\ IsFiniteSet(Slots) /\ Slots # {}
ASSUME ThresholdAssumption == SCAN_THRESHOLD \in Nat \ {0}

VARIABLES
    map,       \* map_: the handle in each element, NULL where there is none
    refcount,  \* object_handle::refcount; 0 at an address that holds no
               \* handle: destroyed, in a pool, or never allocated
    ref,       \* ref::h_ of each client reference
    hazard,    \* hazard_node::ptrs[0] of each slot
    active,    \* hazard_node::active of each slot
    used,      \* the slots that the slot table has handed out at least once
    orphaned,  \* hazard_node::orphaned: left behind by a slot's last owner
    pc,        \* where each thread is
    node,      \* hazard_thread_state::node_
    retired,   \* hazard_thread_state::retired_
    counter,   \* hazard_thread_state::retire_counter_
    leaving,   \* the thread is in ~hazard_thread_state
    todo,      \* slots that the scan under way has not visited yet
    seen,      \* hazard_thread_state::active_, the hazards collected so far
    key,       \* argument of the get or put under way
    dest,      \* the reference that the get under way initialises
    ptr,       \* get: result;  put: new_h
    phase      \* what the host has torn down

shared == <<map, refcount, hazard, active, used, orphaned>>
domain == <<node, retired, counter, leaving, todo, seen>>
locals == <<key, dest, ptr>>
vars == <<shared, ref, pc, domain, locals, phase>>

Up(t) == pc[t] # "down"
Scanning(t) == pc[t] \in {"collect", "scan", "reclaim"}

Init ==
    /\ map = [k \in Keys |-> NULL]
    /\ refcount = [h \in Handles |-> 0]
    /\ ref = [r \in Refs |-> Unborn]
    /\ hazard = [s \in Slots |-> NULL]
    /\ active = [s \in Slots |-> FALSE]
    /\ used = {}
    /\ orphaned = [s \in Slots |-> {}]
    /\ pc = [t \in Threads |-> "down"]
    /\ node = [t \in Threads |-> NULL]
    /\ retired = [t \in Threads |-> {}]
    /\ counter = [t \in Threads |-> 0]
    /\ leaving = [t \in Threads |-> FALSE]
    /\ todo = [t \in Threads |-> {}]
    /\ seen = [t \in Threads |-> {}]
    /\ key = [t \in Threads |-> NULL]
    /\ dest = [t \in Threads |-> NULL]
    /\ ptr = [t \in Threads |-> NULL]
    /\ phase = "open"

(***************************************************************************)
(* handle.cpp                                                              *)
(***************************************************************************)

\* drop_handle: the last reference runs the destructor and gives the address
\* back.  Dropping nullptr, which ~ref does not do, changes nothing.
DropHandle(h) ==
    refcount' = IF h \in Handles THEN [refcount EXCEPT ![h] = @ - 1] ELSE refcount

(***************************************************************************)
(* hazard.cpp: retiring, scanning, reclaiming                              *)
(***************************************************************************)

\* scan_and_reclaim begins: the collected set is cleared.
BeginScan(t) ==
    /\ pc' = [pc EXCEPT ![t] = "collect"]
    /\ seen' = [seen EXCEPT ![t] = {}]

\* Mutant: the exiting thread takes up work again after its scan.
ResumeForgettingExit(t, orphans) == IF orphans # {} THEN "adopt" ELSE "idle"

\* Where a thread goes on that has nothing left to scan; orphans are those
\* of its slot that its constructor has still to adopt.
Resume(t, orphans) ==
    IF leaving[t] THEN "release" ELSE IF orphans # {} THEN "adopt" ELSE "idle"

\* Mutant: the counter is not reset when the scan begins.
PushRetireNoReset(t, h, orphans) ==
    /\ retired' = [retired EXCEPT ![t] = @ \union {h}]
    /\ counter' = [counter EXCEPT ![t] = @ + 1]
    /\ IF counter[t] + 1 >= SCAN_THRESHOLD
       THEN BeginScan(t)
       ELSE pc' = [pc EXCEPT ![t] = Resume(t, orphans)] /\ UNCHANGED seen

\* push_retire: every SCAN_THRESHOLD-th call scans.
PushRetire(t, h, orphans) ==
    /\ retired' = [retired EXCEPT ![t] = @ \union {h}]
    /\ \/ /\ counter[t] + 1 >= SCAN_THRESHOLD
          /\ counter' = [counter EXCEPT ![t] = 0]
          /\ BeginScan(t)
       \/ /\ counter[t] + 1 < SCAN_THRESHOLD
          /\ counter' = [counter EXCEPT ![t] = @ + 1]
          /\ pc' = [pc EXCEPT ![t] = Resume(t, orphans)]
          /\ UNCHANGED seen

\* for_each_active begins: the slots that exist now will be visited.
BeginWalk(t) ==
    /\ pc[t] = "collect"
    /\ todo' = [todo EXCEPT ![t] = used]
    /\ pc' = [pc EXCEPT ![t] = "scan"]
    /\ UNCHANGED <<shared, ref, node, retired, counter, leaving, seen, locals, phase>>

\* One slot is read: an inactive one is skipped.
ScanSlot(t) ==
    /\ pc[t] = "scan"
    /\ \E s \in todo[t] :
         /\ todo' = [todo EXCEPT ![t] = @ \ {s}]
         /\ seen' = IF active[s] /\ hazard[s] # NULL
                    THEN [seen EXCEPT ![t] = @ \union {hazard[s]}]
                    ELSE seen
    /\ UNCHANGED <<shared, ref, pc, node, retired, counter, leaving, locals, phase>>

\* Mutant: the scan starts over until it has seen no hazard at all.
EndScanWaiting(t) ==
    /\ pc[t] = "scan"
    /\ todo[t] = {}
    /\ IF seen[t] = {} THEN pc' = [pc EXCEPT ![t] = "reclaim"] /\ UNCHANGED seen
                       ELSE BeginScan(t)
    /\ UNCHANGED <<shared, ref, node, retired, counter, leaving, todo, locals, phase>>

\* Every slot has been read; the reclaiming loop begins.
EndScan(t) ==
    /\ pc[t] = "scan"
    /\ todo[t] = {}
    /\ pc' = [pc EXCEPT ![t] = "reclaim"]
    /\ UNCHANGED <<shared, ref, domain, locals, phase>>

\* A retired handle that no hazard was seen to protect is dropped.
Reclaim(t) ==
    /\ pc[t] = "reclaim"
    /\ \E h \in retired[t] \ seen[t] :
         /\ DropHandle(h)
         /\ retired' = [retired EXCEPT ![t] = @ \ {h}]
    /\ UNCHANGED <<map, hazard, active, used, orphaned, ref, pc, node, counter,
                   leaving, todo, seen, locals, phase>>

\* Mutant: the reclaiming loop may stop before the end of the list.
EndReclaimEarly(t) ==
    /\ pc[t] = "reclaim"
    /\ pc' = [pc EXCEPT ![t] = Resume(t, orphaned[node[t]])]
    /\ UNCHANGED <<shared, ref, domain, locals, phase>>

\* The rest is kept for the next scan.
EndReclaim(t) ==
    /\ pc[t] = "reclaim"
    /\ retired[t] \subseteq seen[t]
    /\ pc' = [pc EXCEPT ![t] = Resume(t, orphaned[node[t]])]
    /\ UNCHANGED <<shared, ref, domain, locals, phase>>

(***************************************************************************)
(* hazard.cpp: the lifetime of hazard_thread_state                         *)
(***************************************************************************)

\* Mutant: the slot is taken without looking at its active flag.
ThreadStartUnchecked(t) ==
    /\ pc[t] = "down"
    /\ phase = "open"
    /\ \E s \in Slots :
         /\ active' = [active EXCEPT ![s] = TRUE]
         /\ used' = used \union {s}
         /\ node' = [node EXCEPT ![t] = s]
         /\ pc' = [pc EXCEPT ![t] = Resume(t, orphaned[s])]
    /\ UNCHANGED <<map, refcount, hazard, orphaned, ref, retired, counter, leaving,
                   todo, seen, locals, phase>>

\* First use of the store by a thread: acquire_node, then adopt what the
\* last owner of the slot left.
ThreadStart(t) ==
    /\ pc[t] = "down"
    /\ phase = "open"
    /\ \E s \in Slots :
         /\ ~active[s]
         /\ active' = [active EXCEPT ![s] = TRUE]
         /\ used' = used \union {s}
         /\ node' = [node EXCEPT ![t] = s]
         /\ pc' = [pc EXCEPT ![t] = Resume(t, orphaned[s])]
    /\ UNCHANGED <<map, refcount, hazard, orphaned, ref, retired, counter, leaving,
                   todo, seen, locals, phase>>

\* One round of the constructor's loop over node_->orphaned.
Adopt(t) ==
    /\ pc[t] = "adopt"
    /\ \E h \in orphaned[node[t]] :
         /\ orphaned' = [orphaned EXCEPT ![node[t]] = @ \ {h}]
         /\ PushRetire(t, h, orphaned[node[t]] \ {h})
    /\ UNCHANGED <<map, refcount, hazard, active, used, ref, node, leaving, todo, locals,
                   phase>>

\* The thread exits: ~hazard_thread_state clears the hazard and scans.
ThreadExit(t) ==
    /\ pc[t] = "idle"
    /\ hazard' = [hazard EXCEPT ![node[t]] = NULL]
    /\ leaving' = [leaving EXCEPT ![t] = TRUE]
    /\ BeginScan(t)
    /\ UNCHANGED <<map, refcount, active, used, orphaned, ref, node, retired, counter,
                   todo, locals, phase>>

\* What the last scan kept becomes orphaned and the slot is released.
Release(t) ==
    /\ pc[t] = "release"
    /\ orphaned' = [orphaned EXCEPT ![node[t]] = @ \union retired[t]]
    /\ active' = [active EXCEPT ![node[t]] = FALSE]
    /\ pc' = [pc EXCEPT ![t] = "down"]
    /\ node' = [node EXCEPT ![t] = NULL]
    /\ retired' = [retired EXCEPT ![t] = {}]
    /\ counter' = [counter EXCEPT ![t] = 0]
    /\ leaving' = [leaving EXCEPT ![t] = FALSE]
    /\ seen' = [seen EXCEPT ![t] = {}]
    /\ UNCHANGED <<map, refcount, hazard, used, ref, todo, locals, phase>>

(***************************************************************************)
(* hybrid.h: get                                                           *)
(***************************************************************************)

\* A variable that no get is about to initialise.
Available(r) == ref[r] = Unborn /\ \A t \in Threads : dest[t] # r

\* The key is absent: cvisit calls nothing and get returns nullptr.
GetMiss(t) ==
    /\ pc[t] = "idle"
    /\ \E r \in Refs, k \in Keys :
         /\ Available(r)
         /\ map[k] = NULL
         /\ ref' = [ref EXCEPT ![r] = NULL]
    /\ hazard' = [hazard EXCEPT ![node[t]] = NULL]
    /\ UNCHANGED <<map, refcount, active, used, orphaned, pc, domain, locals, phase>>

\* The key is present: cvisit enters protect with the element's pointer.
GetCall(t) ==
    /\ pc[t] = "idle"
    /\ \E r \in Refs, k \in Keys :
         /\ Available(r)
         /\ map[k] # NULL
         /\ key' = [key EXCEPT ![t] = k]
         /\ dest' = [dest EXCEPT ![t] = r]
    /\ pc' = [pc EXCEPT ![t] = "load"]
    /\ UNCHANGED <<shared, ref, domain, ptr, phase>>

\* protect: load the pointer (an element never holds nullptr) ...
ProtectLoad(t) ==
    /\ pc[t] = "load"
    /\ ptr' = [ptr EXCEPT ![t] = map[key[t]]]
    /\ pc' = [pc EXCEPT ![t] = "publish"]
    /\ UNCHANGED <<shared, ref, domain, key, dest, phase>>

\* Mutant: nothing is announced.
ProtectUnannounced(t) ==
    /\ pc[t] = "publish"
    /\ pc' = [pc EXCEPT ![t] = "validate"]
    /\ UNCHANGED <<shared, ref, domain, locals, phase>>

\* ... announce it ...
ProtectPublish(t) ==
    /\ pc[t] = "publish"
    /\ hazard' = [hazard EXCEPT ![node[t]] = ptr[t]]
    /\ pc' = [pc EXCEPT ![t] = "validate"]
    /\ UNCHANGED <<map, refcount, active, used, orphaned, ref, domain, locals, phase>>

\* Mutant: the announcement is not validated.
ProtectUnvalidated(t) ==
    /\ pc[t] = "validate"
    /\ pc' = [pc EXCEPT ![t] = "incref"]
    /\ UNCHANGED <<shared, ref, domain, locals, phase>>

\* Mutant: a failed validation announces the same pointer again.
ProtectWithoutReload(t) ==
    /\ pc[t] = "validate"
    /\ pc' = [pc EXCEPT ![t] = IF map[key[t]] = ptr[t] THEN "incref" ELSE "publish"]
    /\ UNCHANGED <<shared, ref, domain, locals, phase>>

\* ... and start again unless the element still holds it.
ProtectValidate(t) ==
    /\ pc[t] = "validate"
    /\ pc' = [pc EXCEPT ![t] = IF map[key[t]] = ptr[t] THEN "incref" ELSE "load"]
    /\ UNCHANGED <<shared, ref, domain, locals, phase>>

\* The visitor takes the caller's reference.
Incref(t) ==
    /\ pc[t] = "incref"
    /\ refcount' = [refcount EXCEPT ![ptr[t]] = @ + 1]
    /\ ref' = [ref EXCEPT ![dest[t]] = ptr[t]]
    /\ pc' = [pc EXCEPT ![t] = "unprotect"]
    /\ UNCHANGED <<map, hazard, active, used, orphaned, domain, locals, phase>>

\* get withdraws its hazard and returns.
Unprotect(t) ==
    /\ pc[t] = "unprotect"
    /\ hazard' = [hazard EXCEPT ![node[t]] = NULL]
    /\ pc' = [pc EXCEPT ![t] = "idle"]
    /\ key' = [key EXCEPT ![t] = NULL]
    /\ dest' = [dest EXCEPT ![t] = NULL]
    /\ ptr' = [ptr EXCEPT ![t] = NULL]
    /\ UNCHANGED <<map, refcount, active, used, orphaned, ref, domain, phase>>

(***************************************************************************)
(* hybrid.h: put                                                           *)
(***************************************************************************)

\* make_handle allocates at a free address, with one reference.
PutCall(t) ==
    /\ pc[t] = "idle"
    /\ \E k \in Keys, h \in Handles :
         /\ refcount[h] = 0
         /\ refcount' = [refcount EXCEPT ![h] = 1]
         /\ key' = [key EXCEPT ![t] = k]
         /\ ptr' = [ptr EXCEPT ![t] = h]
    /\ pc' = [pc EXCEPT ![t] = "put"]
    /\ UNCHANGED <<map, hazard, active, used, orphaned, ref, domain, dest, phase>>

\* Both outcomes of emplace_or_cvisit leave the new handle in the element.
Publish(t) ==
    /\ map' = [map EXCEPT ![key[t]] = ptr[t]]
    /\ key' = [key EXCEPT ![t] = NULL]
    /\ ptr' = [ptr EXCEPT ![t] = NULL]

\* The key was absent: the element is created.
PutInsert(t) ==
    /\ pc[t] = "put"
    /\ map[key[t]] = NULL
    /\ Publish(t)
    /\ pc' = [pc EXCEPT ![t] = "idle"]
    /\ UNCHANGED <<refcount, hazard, active, used, orphaned, ref, domain, dest, phase>>

\* Mutant: the replaced handle is dropped at once.
PutExchangeDropping(t) ==
    /\ pc[t] = "put"
    /\ map[key[t]] # NULL
    /\ Publish(t)
    /\ DropHandle(map[key[t]])
    /\ pc' = [pc EXCEPT ![t] = "idle"]
    /\ UNCHANGED <<hazard, active, used, orphaned, ref, domain, dest, phase>>

\* The key was present: exchange, then retire the handle that was replaced.
PutExchange(t) ==
    /\ pc[t] = "put"
    /\ map[key[t]] # NULL
    /\ Publish(t)
    /\ PushRetire(t, map[key[t]], {})
    /\ UNCHANGED <<refcount, hazard, active, used, orphaned, ref, node, leaving, todo, dest,
                   phase>>

(***************************************************************************)
(* client.h: references.  No thread is named: closing and moving use no    *)
(* thread state, so any thread may do it, at any time, even after the host *)
(* has reset the store.  A client does not share a ref between threads     *)
(* while it is being changed, so the reference a get is about to return is *)
(* out of reach until the get has returned.                                *)
(***************************************************************************)

Settled(r) == ref[r] # Unborn /\ \A t \in Threads : dest[t] # r

\* ~ref
Close(r) ==
    /\ Settled(r)
    /\ DropHandle(ref[r])
    /\ ref' = [ref EXCEPT ![r] = Unborn]
    /\ UNCHANGED <<map, hazard, active, used, orphaned, pc, domain, locals, phase>>

\* Mutant: the source of a move keeps its handle.
MoveConstructCopying(dst, src) ==
    /\ Available(dst)
    /\ Settled(src)
    /\ ref' = [ref EXCEPT ![dst] = ref[src]]
    /\ UNCHANGED <<shared, pc, domain, locals, phase>>

\* ref(ref&&)
MoveConstruct(dst, src) ==
    /\ Available(dst)
    /\ Settled(src)
    /\ ref' = [ref EXCEPT ![dst] = ref[src], ![src] = NULL]
    /\ UNCHANGED <<shared, pc, domain, locals, phase>>

\* operator=(ref&&): self-assignment is ignored.
MoveAssign(dst, src) ==
    /\ dst # src
    /\ Settled(dst)
    /\ Settled(src)
    /\ DropHandle(ref[dst])
    /\ ref' = [ref EXCEPT ![dst] = ref[src], ![src] = NULL]
    /\ UNCHANGED <<map, hazard, active, used, orphaned, pc, domain, locals, phase>>

(***************************************************************************)
(* host_drivers.h: teardown, after host_runtime.h has joined every thread  *)
(***************************************************************************)

AllDown == \A t \in Threads : ~Up(t)

\* g_store.reset(): ~hybrid_store drops what the map still holds.
TeardownStore ==
    /\ phase = "open"
    /\ AllDown
    /\ phase' = "store_reset"
    /\ refcount' = [h \in Handles |->
                      IF \E k \in Keys : map[k] = h THEN refcount[h] - 1 ELSE refcount[h]]
    /\ map' = [k \in Keys |-> NULL]
    /\ UNCHANGED <<hazard, active, used, orphaned, ref, pc, domain, locals>>

\* Mutant: the domain goes away with its orphans.
TeardownDomainForgetting ==
    /\ phase = "store_reset"
    /\ phase' = "domain_reset"
    /\ orphaned' = [s \in Slots |-> {}]
    /\ UNCHANGED <<map, refcount, hazard, active, used, ref, pc, domain, locals>>

\* g_domain.reset(): ~hazard_domain drops every orphan of every slot.
TeardownDomain ==
    /\ phase = "store_reset"
    /\ phase' = "domain_reset"
    /\ refcount' = [h \in Handles |->
                      IF \E s \in Slots : h \in orphaned[s] THEN refcount[h] - 1
                                                            ELSE refcount[h]]
    /\ orphaned' = [s \in Slots |-> {}]
    /\ UNCHANGED <<map, hazard, active, used, ref, pc, domain, locals>>

\* The host has returned from main.
Terminated == phase = "domain_reset" /\ UNCHANGED vars

(***************************************************************************)
(* Specification                                                           *)
(***************************************************************************)

\* The steps a thread takes on its own once an operation is under way.
Continue(t) ==
    \/ Adopt(t) \/ BeginWalk(t) \/ ScanSlot(t) \/ EndScan(t) \/ Reclaim(t) \/ EndReclaim(t)
    \/ Release(t)
    \/ ProtectLoad(t) \/ ProtectPublish(t) \/ ProtectValidate(t) \/ Incref(t)
    \/ Unprotect(t)
    \/ PutInsert(t) \/ PutExchange(t)

\* The steps that are the client program's choice.
Choose(t) == ThreadStart(t) \/ ThreadExit(t) \/ GetMiss(t) \/ GetCall(t) \/ PutCall(t)

Next ==
    \/ \E t \in Threads : Continue(t) \/ Choose(t)
    \/ \E r \in Refs : Close(r)
    \/ \E dst, src \in Refs : MoveConstruct(dst, src) \/ MoveAssign(dst, src)
    \/ TeardownStore
    \/ TeardownDomain
    \/ Terminated

Spec == Init /\ [][Next]_vars

\* A thread inside an operation is a running OS thread: no lock, join or
\* condition stops it, so the scheduler keeps giving it steps.
FairSpec == Spec /\ \A t \in Threads : WF_vars(Continue(t))

(***************************************************************************)
(* Properties                                                              *)
(***************************************************************************)

PCs == {"down", "adopt", "idle", "load", "publish", "validate", "incref",
        "unprotect", "put", "collect", "scan", "reclaim", "release"}

\* The shape of the state.
TypeOK ==
    /\ map \in [Keys -> Handles \union {NULL}]
    /\ refcount \in [Handles -> Int]
    /\ ref \in [Refs -> Handles \union {NULL, Unborn}]
    /\ hazard \in [Slots -> Handles \union {NULL}]
    /\ active \in [Slots -> BOOLEAN]
    /\ used \in SUBSET Slots
    /\ orphaned \in [Slots -> SUBSET Handles]
    /\ pc \in [Threads -> PCs]
    /\ node \in [Threads -> Slots \union {NULL}]
    /\ retired \in [Threads -> SUBSET Handles]
    /\ counter \in [Threads -> 0..(SCAN_THRESHOLD - 1)]
    /\ leaving \in [Threads -> BOOLEAN]
    /\ todo \in [Threads -> SUBSET Slots]
    /\ seen \in [Threads -> SUBSET Handles]
    /\ key \in [Threads -> Keys \union {NULL}]
    /\ dest \in [Threads -> Refs \union {NULL}]
    /\ ptr \in [Threads -> Handles \union {NULL}]
    /\ phase \in {"open", "store_reset", "domain_reset"}

\* A get that is past protect adds its reference to a handle that still
\* exists (hybrid.h:61-64), and what a client reference holds exists: the
\* assertion of drop_handle (handle.cpp:31) and every sas_deref are safe.
NoUseAfterFree ==
    /\ \A t \in Threads : pc[t] = "incref" => refcount[ptr[t]] > 0
    /\ \A r \in Refs : ref[r] \in Handles => refcount[ref[r]] > 0

\* The store's own reference to a handle is in exactly one place: a map
\* element, the put that allocated it, a thread's retired list or the
\* orphans of a slot.
Owners(h) ==
    ({"element"} \X {k \in Keys : map[k] = h})
        \union ({"put"} \X {t \in Threads : pc[t] = "put" /\ ptr[t] = h})
        \union ({"retired"} \X {t \in Threads : h \in retired[t]})
        \union ({"orphan"} \X {s \in Slots : h \in orphaned[s]})

Holders(h) == {r \in Refs : ref[r] = h}

\* The count of a handle is the number of client references to it, plus one
\* while the store owns it, and two owners never share that one: a second
\* drop of the same replaced handle, a lost one (a leak) or a get that
\* counts nothing would break the equation.
RefcountExact ==
    \A h \in Handles :
        /\ \A a, b \in Owners(h) : a = b
        /\ refcount[h] = Cardinality(Holders(h)) + (IF Owners(h) = {} THEN 0 ELSE 1)

\* The hazard pointer argument: the handle a get is about to count may have
\* been retired meanwhile, but then the scan of whoever retired it has yet to
\* visit the getter's slot or has seen the hazard there.
HazardSeen ==
    \A t, u \in Threads :
        pc[t] = "incref" /\ ptr[t] \in retired[u] =>
            /\ pc[u] = "scan" => node[t] \in todo[u] \/ ptr[t] \in seen[u]
            /\ pc[u] = "reclaim" => ptr[t] \in seen[u]

\* Garbage is bounded: between two scans a thread keeps at most the handles
\* that the other threads protected at the last scan and those it has
\* retired since (hazard.cpp:38-46, 91-97).
Kept == Cardinality(Slots) - 1

BoundedGarbage ==
    /\ \A t \in Threads :
         Cardinality(retired[t]) <=
             Kept + IF Scanning(t) THEN SCAN_THRESHOLD ELSE counter[t]
    /\ \A s \in Slots : ~active[s] => Cardinality(orphaned[s]) <= Kept

(***************************************************************************)
(* The inductive invariant behind NoUseAfterFree, RefcountExact and        *)
(* BoundedGarbage                                                          *)
(***************************************************************************)

Getting == {"load", "publish", "validate", "incref", "unprotect"}

\* What a thread's program counter says of its private state.
ThreadLocal ==
    \A t \in Threads :
        /\ Up(t) => node[t] \in used /\ active[node[t]]
        /\ ~Up(t) => retired[t] = {}
        /\ phase # "open" => ~Up(t)
        /\ pc[t] \in {"load", "publish", "validate", "put"} => key[t] \in Keys
        /\ pc[t] \in {"publish", "validate", "incref", "unprotect", "put"} =>
               ptr[t] \in Handles
        /\ pc[t] \in {"validate", "incref"} => hazard[node[t]] = ptr[t]
        /\ pc[t] \in {"load", "publish", "validate"} => map[key[t]] \in Handles

\* Two threads never own the same slot (what SlotTable provides).
SlotsOwnedOnce ==
    \A t, u \in Threads : Up(t) /\ Up(u) /\ node[t] = node[u] => t = u

\* The reference a get will initialise belongs to that get alone.
DestReserved ==
    \A t \in Threads :
        /\ dest[t] \in Refs <=> pc[t] \in Getting
        /\ pc[t] \in Getting \ {"unprotect"} => ref[dest[t]] = Unborn
        /\ \A u \in Threads : dest[t] \in Refs /\ dest[t] = dest[u] => t = u

InElement(h) == \E k \in Keys : map[k] = h
InPut(h) == \E t \in Threads : pc[t] = "put" /\ ptr[t] = h
InRetired(h) == \E t \in Threads : h \in retired[t]
InOrphans(h) == \E s \in Slots : h \in orphaned[s]
Owned(h) == InElement(h) \/ InPut(h) \/ InRetired(h) \/ InOrphans(h)

\* At most one place owns a handle, kind by kind.
SoleOwner(h) ==
    /\ \A k, l \in Keys : map[k] = h /\ map[l] = h => k = l
    /\ \A t, u \in Threads :
         pc[t] = "put" /\ ptr[t] = h /\ pc[u] = "put" /\ ptr[u] = h => t = u
    /\ \A t, u \in Threads : h \in retired[t] /\ h \in retired[u] => t = u
    /\ \A r, s \in Slots : h \in orphaned[r] /\ h \in orphaned[s] => r = s
    /\ InElement(h) => ~InPut(h) /\ ~InRetired(h) /\ ~InOrphans(h)
    /\ InPut(h) => ~InRetired(h) /\ ~InOrphans(h)
    /\ InRetired(h) => ~InOrphans(h)

OwnedOnce == \A h \in Handles : SoleOwner(h)

\* The count is the number of references plus the store's own.
CountExact ==
    \A h \in Handles :
        refcount[h] = Cardinality(Holders(h)) + (IF Owned(h) THEN 1 ELSE 0)

\* A handle that a get is about to count has been published and is still
\* owned by the store, if only as garbage.
ProtectedOwned ==
    \A t \in Threads :
        pc[t] = "incref" =>
            InElement(ptr[t]) \/ InRetired(ptr[t]) \/ InOrphans(ptr[t])

\* Only a thread inside a get announces a hazard, so that a scan never sees
\* one in the slot of its own thread.
Withdrawn ==
    /\ \A s \in Slots : ~active[s] => hazard[s] = NULL
    /\ \A t \in Threads : Up(t) /\ pc[t] \notin Getting => hazard[node[t]] = NULL

\* A thread takes up work, or leaves, only when it has adopted every orphan
\* of its slot.
OrphansAdopted ==
    \A t \in Threads :
        /\ leaving[t] => pc[t] \in {"collect", "scan", "reclaim", "release"}
        /\ Up(t) /\ (leaving[t] \/ pc[t] \notin {"adopt", "collect", "scan", "reclaim"}) =>
               orphaned[node[t]] = {}

\* A scan begins with nothing and collects at most one hazard for each slot it
\* visits, its own slot excepted; what it keeps is among them.
GarbageCounted ==
    /\ \A t \in Threads :
         /\ IsFiniteSet(retired[t])
         /\ Cardinality(retired[t]) <=
                Kept + IF Scanning(t) THEN SCAN_THRESHOLD
                       ELSE IF pc[t] = "release" THEN 0 ELSE counter[t]
         /\ pc[t] = "collect" => seen[t] = {}
         /\ Scanning(t) =>
                /\ IsFiniteSet(seen[t])
                /\ Cardinality(seen[t]) <= Cardinality(Slots \ (todo[t] \union {node[t]}))
    /\ \A s \in Slots :
         /\ IsFiniteSet(orphaned[s])
         /\ ~active[s] => Cardinality(orphaned[s]) <= Kept

\* HazardSeen and BoundedGarbage are inductive only together with the rest.
IInv ==
    /\ TypeOK
    /\ ThreadLocal
    /\ SlotsOwnedOnce
    /\ DestReserved
    /\ OwnedOnce
    /\ CountExact
    /\ ProtectedOwned
    /\ HazardSeen
    /\ Withdrawn
    /\ OrphansAdopted
    /\ GarbageCounted

\* Once the host has reset store and domain (host_drivers.h:79-82), only what
\* a client still holds a reference to is left: every other destructor has
\* run, whatever the threads were doing when they exited.
NothingLeaked ==
    phase = "domain_reset" =>
        \A h \in Handles : refcount[h] > 0 => \E r \in Refs : ref[r] = h

(***************************************************************************)
(* The store as its clients see it.  A put takes effect at its exchange or *)
(* insertion and a get at the validation that succeeds: from then on the   *)
(* reference it will return counts, although the counter is still to be    *)
(* incremented.                                                            *)
(***************************************************************************)

RefBar ==
    [r \in Refs |->
        IF \E t \in Threads : pc[t] = "incref" /\ dest[t] = r
        THEN ptr[CHOOSE t \in Threads : pc[t] = "incref" /\ dest[t] = r]
        ELSE ref[r]]

AliveBar ==
    {h \in Handles : refcount[h] > 0 /\ \A t \in Threads : ~(pc[t] = "put" /\ ptr[t] = h)}

Store == INSTANCE ObjectStore
         WITH store <- map, ref <- RefBar, alive <- AliveBar, open <- (phase = "open")

\* hybrid_store is a linearizable object store that never destroys what a
\* client can reach.
ImplementsObjectStore == Store!Spec

(***************************************************************************)
(* Progress, under FairSpec                                                *)
(***************************************************************************)

\* A put returns in a number of its own steps that nobody can prolong: it has
\* no retry loop, and its scan visits the slots that existed at its start.
PutReturns == \A t \in Threads : pc[t] = "put" ~> pc[t] = "idle"

\* A thread that exits releases its slot, and one that starts gets going.
LifetimeEnds ==
    \A t \in Threads :
        /\ leaving[t] ~> pc[t] = "down"
        /\ pc[t] = "adopt" ~> pc[t] = "idle"

\* protect is lock-free: a get that retries for ever does so because puts
\* replace the handle for ever.
GetLockFree ==
    \A t \in Threads :
        []<>(pc[t] \notin {"load", "publish", "validate", "incref", "unprotect"})
            \/ []<><<\E u \in Threads : PutExchange(u)>>_vars

============================================================================
