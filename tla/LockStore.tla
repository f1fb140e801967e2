----------------------------- MODULE LockStore -----------------------------
(***************************************************************************)
(* The two baselines that need no reclamation scheme, because a get counts *)
(* the handle while it holds a lock that every put of the key takes too:   *)
(* spinlock_store (hash_tables/spinlock.h), one test-and-set lock for the  *)
(* whole map, and sharded_store (hash_tables/sharded.h), whose concurrent  *)
(* flat map runs a visitor with the lock of the key's group held.          *)
(* LockOf tells which lock a key needs; the two stores differ in nothing   *)
(* else that a client could see.                                           *)
(*                                                                         *)
(* One action is one access to memory that another thread can reach.       *)
(***************************************************************************)
EXTENDS Integers, FiniteSets

CONSTANTS
    Keys,      \* keys of the map
    Handles,   \* addresses at which an object_handle can be allocated
    Refs,      \* client variables of type sas::ref<T>
    Threads,   \* client threads
    Locks,     \* the spin lock, or the locks of the flat map's groups
    LockOf,    \* the lock that guards each key
    NULL,      \* nullptr
    Unborn     \* a ref variable outside its lifetime

ASSUME DistinguishedValues ==
    /\ NULL \notin Handles \union Keys \union Refs \union Threads
    /\ Unborn \notin Handles \union {NULL}
ASSUME FiniteInstance == IsFiniteSet(Refs)
ASSUME LockAssumption == LockOf \in [Keys -> Locks]

VARIABLES
    map,       \* map_: the handle of each key, NULL when it is absent
    refcount,  \* object_handle::refcount; 0 at an address that holds no handle
    ref,       \* ref::h_ of each client reference
    lock,      \* lock_: the thread that holds each lock, NULL when it is clear
    pc,        \* where each thread is
    key,       \* argument of the get or put under way
    dest,      \* the reference that the get under way initialises
    ptr,       \* get: result;  put: new_h, until it is released
    old,       \* put: old_h
    phase      \* whether the host has reset the store

locals == <<key, dest, ptr, old>>
vars == <<map, refcount, ref, lock, pc, locals, phase>>

Init ==
    /\ map = [k \in Keys |-> NULL]
    /\ refcount = [h \in Handles |-> 0]
    /\ ref = [r \in Refs |-> Unborn]
    /\ lock = [l \in Locks |-> NULL]
    /\ pc = [t \in Threads |-> "idle"]
    /\ key = [t \in Threads |-> NULL]
    /\ dest = [t \in Threads |-> NULL]
    /\ ptr = [t \in Threads |-> NULL]
    /\ old = [t \in Threads |-> NULL]
    /\ phase = "open"

(***************************************************************************)
(* Calls.  The lock is taken before the key is looked up.                  *)
(***************************************************************************)

\* drop_handle (handle.cpp); ~ref does not call it for nullptr.
DropHandle(h) ==
    refcount' = IF h \in Handles THEN [refcount EXCEPT ![h] = @ - 1] ELSE refcount

\* A variable that no get is about to initialise.
Available(r) == ref[r] = Unborn /\ \A t \in Threads : dest[t] # r

GetCall(t) ==
    /\ pc[t] = "idle"
    /\ phase = "open"
    /\ \E r \in Refs, k \in Keys :
         /\ Available(r)
         /\ key' = [key EXCEPT ![t] = k]
         /\ dest' = [dest EXCEPT ![t] = r]
    /\ pc' = [pc EXCEPT ![t] = "acquire"]
    /\ UNCHANGED <<map, refcount, ref, lock, ptr, old, phase>>

\* make_handle comes before the lock.
PutCall(t) ==
    /\ pc[t] = "idle"
    /\ phase = "open"
    /\ \E k \in Keys, h \in Handles :
         /\ refcount[h] = 0
         /\ refcount' = [refcount EXCEPT ![h] = 1]
         /\ key' = [key EXCEPT ![t] = k]
         /\ ptr' = [ptr EXCEPT ![t] = h]
    /\ pc' = [pc EXCEPT ![t] = "acquire"]
    /\ UNCHANGED <<map, ref, lock, dest, old, phase>>

\* Mutant: the lock is set without being tested.
AcquireBlindly(t) ==
    /\ pc[t] = "acquire"
    /\ lock' = [lock EXCEPT ![LockOf[key[t]]] = t]
    /\ pc' = [pc EXCEPT ![t] = IF dest[t] = NULL THEN "swap" ELSE "find"]
    /\ UNCHANGED <<map, refcount, ref, locals, phase>>

\* test_and_set finds the lock clear; until then the thread spins.
Acquire(t) ==
    /\ pc[t] = "acquire"
    /\ lock[LockOf[key[t]]] = NULL
    /\ lock' = [lock EXCEPT ![LockOf[key[t]]] = t]
    /\ pc' = [pc EXCEPT ![t] = IF dest[t] = NULL THEN "swap" ELSE "find"]
    /\ UNCHANGED <<map, refcount, ref, locals, phase>>

(***************************************************************************)
(* get, with the lock held                                                 *)
(***************************************************************************)

\* Mutant: a miss returns from the middle, with the lock held.
FindReturning(t) ==
    /\ pc[t] = "find"
    /\ ptr' = [ptr EXCEPT ![t] = map[key[t]]]
    /\ \/ /\ map[key[t]] # NULL
          /\ pc' = [pc EXCEPT ![t] = "incref"]
          /\ UNCHANGED <<ref, key, dest>>
       \/ /\ map[key[t]] = NULL
          /\ ref' = [ref EXCEPT ![dest[t]] = NULL]
          /\ key' = [key EXCEPT ![t] = NULL]
          /\ dest' = [dest EXCEPT ![t] = NULL]
          /\ pc' = [pc EXCEPT ![t] = "idle"]
    /\ UNCHANGED <<map, refcount, lock, old, phase>>

\* Look the key up; a miss will return nullptr.
Find(t) ==
    /\ pc[t] = "find"
    /\ ptr' = [ptr EXCEPT ![t] = map[key[t]]]
    /\ \/ /\ map[key[t]] # NULL
          /\ pc' = [pc EXCEPT ![t] = "incref"]
          /\ UNCHANGED ref
       \/ /\ map[key[t]] = NULL
          /\ ref' = [ref EXCEPT ![dest[t]] = NULL]
          /\ pc' = [pc EXCEPT ![t] = "unlock"]
    /\ UNCHANGED <<map, refcount, lock, key, dest, old, phase>>

Incref(t) ==
    /\ pc[t] = "incref"
    /\ refcount' = [refcount EXCEPT ![ptr[t]] = @ + 1]
    /\ ref' = [ref EXCEPT ![dest[t]] = ptr[t]]
    /\ pc' = [pc EXCEPT ![t] = "unlock"]
    /\ UNCHANGED <<map, lock, locals, phase>>

(***************************************************************************)
(* put, with the lock held                                                 *)
(***************************************************************************)

\* Remember what the key maps to now ...
LoadOld(t) ==
    /\ pc[t] = "swap"
    /\ old' = [old EXCEPT ![t] = map[key[t]]]
    /\ pc' = [pc EXCEPT ![t] = "store"]
    /\ UNCHANGED <<map, refcount, ref, lock, key, dest, ptr, phase>>

\* ... and replace it, or create the entry.
StoreNew(t) ==
    /\ pc[t] = "store"
    /\ map' = [map EXCEPT ![key[t]] = ptr[t]]
    /\ ptr' = [ptr EXCEPT ![t] = NULL]
    /\ pc' = [pc EXCEPT ![t] = "unlock"]
    /\ UNCHANGED <<refcount, ref, lock, key, dest, old, phase>>

(***************************************************************************)
(* Both                                                                    *)
(***************************************************************************)

\* Mutant: the replaced handle is forgotten.
ReleaseForgetting(t) ==
    /\ pc[t] = "unlock"
    /\ lock' = [lock EXCEPT ![LockOf[key[t]]] = NULL]
    /\ key' = [key EXCEPT ![t] = NULL]
    /\ dest' = [dest EXCEPT ![t] = NULL]
    /\ ptr' = [ptr EXCEPT ![t] = NULL]
    /\ old' = [old EXCEPT ![t] = NULL]
    /\ pc' = [pc EXCEPT ![t] = "idle"]
    /\ UNCHANGED <<map, refcount, ref, phase>>

\* The lock is cleared; a get returns, and so does a put that replaced nothing.
Release(t) ==
    /\ pc[t] = "unlock"
    /\ lock' = [lock EXCEPT ![LockOf[key[t]]] = NULL]
    /\ key' = [key EXCEPT ![t] = NULL]
    /\ dest' = [dest EXCEPT ![t] = NULL]
    /\ ptr' = [ptr EXCEPT ![t] = NULL]
    /\ pc' = [pc EXCEPT ![t] = IF old[t] = NULL THEN "idle" ELSE "drop"]
    /\ UNCHANGED <<map, refcount, ref, old, phase>>

\* The replaced handle is dropped outside the lock.
DropOld(t) ==
    /\ pc[t] = "drop"
    /\ DropHandle(old[t])
    /\ old' = [old EXCEPT ![t] = NULL]
    /\ pc' = [pc EXCEPT ![t] = "idle"]
    /\ UNCHANGED <<map, ref, lock, key, dest, ptr, phase>>

(***************************************************************************)
(* client.h: references, as in HybridStore                                 *)
(***************************************************************************)

Settled(r) == ref[r] # Unborn /\ \A t \in Threads : dest[t] # r

\* ~ref
Close(r) ==
    /\ Settled(r)
    /\ DropHandle(ref[r])
    /\ ref' = [ref EXCEPT ![r] = Unborn]
    /\ UNCHANGED <<map, lock, pc, locals, phase>>

\* Mutant: the target's old handle is overwritten.
MoveAssignLeaking(dst, src) ==
    /\ dst # src
    /\ Settled(dst)
    /\ Settled(src)
    /\ ref' = [ref EXCEPT ![dst] = ref[src], ![src] = NULL]
    /\ UNCHANGED <<map, refcount, lock, pc, locals, phase>>

\* operator=(ref&&): self-assignment is ignored.
MoveAssign(dst, src) ==
    /\ dst # src
    /\ Settled(dst)
    /\ Settled(src)
    /\ DropHandle(ref[dst])
    /\ ref' = [ref EXCEPT ![dst] = ref[src], ![src] = NULL]
    /\ UNCHANGED <<map, lock, pc, locals, phase>>

\* ref(ref&&)
MoveConstruct(dst, src) ==
    /\ Available(dst)
    /\ Settled(src)
    /\ ref' = [ref EXCEPT ![dst] = ref[src], ![src] = NULL]
    /\ UNCHANGED <<map, refcount, lock, pc, locals, phase>>

\* g_store.reset(), after every client thread has been joined.
Teardown ==
    /\ phase = "open"
    /\ \A t \in Threads : pc[t] = "idle"
    /\ phase' = "store_reset"
    /\ refcount' = [h \in Handles |->
                      IF \E k \in Keys : map[k] = h THEN refcount[h] - 1 ELSE refcount[h]]
    /\ map' = [k \in Keys |-> NULL]
    /\ UNCHANGED <<ref, lock, pc, locals>>

\* The host has returned from main.
Terminated == phase = "store_reset" /\ UNCHANGED vars

(***************************************************************************)
(* Specification                                                           *)
(***************************************************************************)

\* The steps a thread takes on its own once a call is under way.
Continue(t) ==
    \/ Acquire(t) \/ Find(t) \/ Incref(t) \/ LoadOld(t) \/ StoreNew(t)
    \/ Release(t) \/ DropOld(t)

Next ==
    \/ \E t \in Threads : Continue(t) \/ GetCall(t) \/ PutCall(t)
    \/ \E r \in Refs : Close(r)
    \/ \E dst, src \in Refs : MoveConstruct(dst, src) \/ MoveAssign(dst, src)
    \/ Teardown
    \/ Terminated

Spec == Init /\ [][Next]_vars

\* A thread inside a call is a running OS thread.  Weak fairness of Acquire
\* is all that a test-and-set loop gives: a try succeeds if the lock stays
\* clear, but nothing guarantees a try while it is clear for a moment.
FairSpec == Spec /\ \A t \in Threads : WF_vars(Continue(t))

(***************************************************************************)
(* Properties                                                              *)
(***************************************************************************)

\* The shape of the state; a count never falls below zero.
TypeOK ==
    /\ map \in [Keys -> Handles \union {NULL}]
    /\ refcount \in [Handles -> Nat]
    /\ ref \in [Refs -> Handles \union {NULL, Unborn}]
    /\ lock \in [Locks -> Threads \union {NULL}]
    /\ pc \in [Threads -> {"idle", "acquire", "find", "incref", "swap", "store",
                           "unlock", "drop"}]
    /\ key \in [Threads -> Keys \union {NULL}]
    /\ dest \in [Threads -> Refs \union {NULL}]
    /\ ptr \in [Threads -> Handles \union {NULL}]
    /\ old \in [Threads -> Handles \union {NULL}]
    /\ phase \in {"open", "store_reset"}

\* The handle that a put has allocated and not yet stored.
InPut(h) == \E t \in Threads : pc[t] \in {"acquire", "swap", "store"} /\ dest[t] = NULL /\ ptr[t] = h
InElement(h) == \E k \in Keys : map[k] = h
\* The handle that a put has replaced and not yet dropped.
InDrop(h) == \E t \in Threads : pc[t] \in {"unlock", "drop"} /\ old[t] = h
Owned(h) == InPut(h) \/ InElement(h) \/ InDrop(h)
Holders(h) == {r \in Refs : ref[r] = h}

\* The count of a handle is the number of references to it, plus one while
\* the map or a put owns it.  A put that remembered a handle which another
\* put had already replaced would drop it a second time.
RefcountExact ==
    \A h \in Handles :
        refcount[h] = Cardinality(Holders(h)) + (IF Owned(h) THEN 1 ELSE 0)

\* A handle that is being counted under the lock exists, and so does what a
\* reference holds: the assertion of drop_handle (handle.cpp:31) is safe.
NoUseAfterFree ==
    /\ \A t \in Threads : pc[t] = "incref" => refcount[ptr[t]] > 0
    /\ \A r \in Refs : ref[r] \in Handles => refcount[ref[r]] > 0

\* What a thread's locals are worth where it is.
ThreadLocal ==
    \A t \in Threads :
        /\ phase # "open" => pc[t] = "idle"
        /\ pc[t] \in {"idle", "drop"} => key[t] = NULL /\ dest[t] = NULL /\ ptr[t] = NULL
        /\ pc[t] \notin {"idle", "drop"} => key[t] \in Keys
        /\ pc[t] = "acquire" => (dest[t] = NULL <=> ptr[t] # NULL)
        /\ pc[t] \in {"find", "incref"} => dest[t] # NULL
        /\ pc[t] \in {"swap", "store"} => dest[t] = NULL
        /\ pc[t] \in {"incref", "swap", "store"} => ptr[t] # NULL
        /\ old[t] # NULL => pc[t] \in {"store", "unlock", "drop"} /\ dest[t] = NULL
        /\ pc[t] = "drop" => old[t] # NULL

\* The thread that looks a key up or replaces it holds the key's lock, so
\* that what it has read of the map is still true.
Locked ==
    \A t \in Threads :
        /\ pc[t] \in {"find", "incref", "swap", "store", "unlock"} => lock[LockOf[key[t]]] = t
        /\ pc[t] = "incref" => map[key[t]] = ptr[t]
        /\ pc[t] = "store" => map[key[t]] = old[t]

\* The reference a get will initialise belongs to that get alone.
DestReserved ==
    \A t \in Threads : dest[t] # NULL =>
        /\ pc[t] # "unlock" => ref[dest[t]] = Unborn
        /\ \A u \in Threads : dest[u] = dest[t] => u = t

\* At most one place owns a handle, kind by kind.
SoleOwner(h) ==
    /\ \A k, l \in Keys : map[k] = h /\ map[l] = h => k = l
    /\ \A t, u \in Threads :
         /\ pc[t] \in {"acquire", "swap", "store"} /\ dest[t] = NULL /\ ptr[t] = h
         /\ pc[u] \in {"acquire", "swap", "store"} /\ dest[u] = NULL /\ ptr[u] = h
         => t = u
    /\ \A t, u \in Threads :
         /\ pc[t] \in {"unlock", "drop"} /\ old[t] = h
         /\ pc[u] \in {"unlock", "drop"} /\ old[u] = h
         => t = u
    /\ InElement(h) => ~InPut(h) /\ ~InDrop(h)
    /\ InPut(h) => ~InDrop(h)

OwnedOnce == \A h \in Handles : SoleOwner(h)

\* The counts are exact because the lock makes owners exclusive.
IInv ==
    /\ TypeOK
    /\ ThreadLocal
    /\ Locked
    /\ DestReserved
    /\ OwnedOnce
    /\ RefcountExact

\* Thread u takes the lock that thread t is waiting for.
Overtakes(u, t) ==
    /\ pc[t] = "acquire"
    /\ Acquire(u)
    /\ LockOf[key[u]] = LockOf[key[t]]

\* A call returns, unless other calls take the lock that it waits for again and
\* again: nobody waits for a thread that has returned, or in a circle.
WaitsForOthersOnly ==
    \A t \in Threads :
        []<>(pc[t] = "idle") \/ []<><<\E u \in Threads \ {t} : Overtakes(u, t)>>_vars

(***************************************************************************)
(* The store as its clients see it: a put takes effect when it replaces    *)
(* the entry, a get when it counts the handle or misses.                   *)
(***************************************************************************)

AliveBar == {h \in Handles : refcount[h] > 0 /\ ~InPut(h)}

Store == INSTANCE ObjectStore
         WITH store <- map, ref <- ref, alive <- AliveBar, open <- (phase = "open")

ImplementsObjectStore == Store!Spec

============================================================================
