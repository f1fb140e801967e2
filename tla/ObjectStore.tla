---------------------------- MODULE ObjectStore ----------------------------
(***************************************************************************)
(* What every backend of the shared address space object store promises a  *)
(* client of client.h: a map from keys to handles whose puts and gets are  *)
(* atomic, RAII references that keep the handle they hold alive, and a     *)
(* destructor that runs only once nothing can reach the handle any more.   *)
(*                                                                         *)
(* A handle stands for one live allocation of object_handle; its address   *)
(* may be reused once it has been destroyed.  How a backend finds out that *)
(* a handle is unreachable (hazard pointers, epochs, locks) and when it    *)
(* destroys it are not visible here.                                       *)
(***************************************************************************)

CONSTANTS
    Keys,     \* names under which objects are published
    Handles,  \* addresses of object_handle allocations
    Refs,     \* client variables of type sas::ref<T>
    NULL,     \* nullptr
    Unborn    \* a ref variable outside its lifetime

\* What the constants of an instance must satisfy.
DistinguishedValues ==
    /\ NULL \notin Handles
    /\ Unborn \notin Handles \union {NULL}

VARIABLES
    store,    \* the handle each key maps to, NULL when the key is absent
    ref,      \* what each client reference holds
    alive,    \* the handles whose destructor has not run
    open      \* clients are running: the host has not reset the store yet

vars == <<store, ref, alive, open>>

RefValues == Handles \union {NULL, Unborn}

\* Everything a client can still reach: through a key or through a reference.
Reachable(h) == (\E k \in Keys : store[k] = h) \/ (\E r \in Refs : ref[r] = h)

Init ==
    /\ store = [k \in Keys |-> NULL]
    /\ ref = [r \in Refs |-> Unborn]
    /\ alive = {}
    /\ open = TRUE

\* Destruction may accompany any step, but never of a handle that the state
\* after the step can still reach.
Collects == alive' \in SUBSET alive /\ \A h \in alive \ alive' : ~Reachable(h)'

\* sas::put, sas::publish: the key maps to a new handle from now on.
Put(k, h) ==
    /\ open
    /\ h \notin alive
    /\ store' = [store EXCEPT ![k] = h]
    /\ alive' = alive \union {h}
    /\ UNCHANGED <<ref, open>>

\* sas::get, sas::poll: a new reference to what the key maps to right now.
Get(r, k) ==
    /\ open
    /\ ref[r] = Unborn
    /\ ref' = [ref EXCEPT ![r] = store[k]]
    /\ UNCHANGED <<store, alive, open>>

\* ~ref
Close(r) ==
    /\ ref[r] # Unborn
    /\ ref' = [ref EXCEPT ![r] = Unborn]
    /\ UNCHANGED <<store, open>>
    /\ Collects

\* ref(ref&&): the source keeps existing and holds nothing.
MoveConstruct(dst, src) ==
    /\ ref[dst] = Unborn
    /\ ref[src] # Unborn
    /\ ref' = [ref EXCEPT ![dst] = ref[src], ![src] = NULL]
    /\ UNCHANGED <<store, alive, open>>

\* operator=(ref&&): what the target held is given up.
MoveAssign(dst, src) ==
    /\ dst # src
    /\ ref[dst] # Unborn
    /\ ref[src] # Unborn
    /\ ref' = [ref EXCEPT ![dst] = ref[src], ![src] = NULL]
    /\ UNCHANGED <<store, open>>
    /\ Collects

\* The backend destroys handles at a moment of its own choosing.
Destroy == UNCHANGED <<store, ref, open>> /\ Collects

\* The host resets the store once every client thread has returned: no put or
\* get follows.
Shutdown ==
    /\ open
    /\ open' = FALSE
    /\ store' = [k \in Keys |-> NULL]
    /\ UNCHANGED ref
    /\ Collects

Next ==
    \/ \E k \in Keys, h \in Handles : Put(k, h)
    \/ \E r \in Refs, k \in Keys : Get(r, k)
    \/ \E r \in Refs : Close(r)
    \/ \E dst, src \in Refs : MoveConstruct(dst, src) \/ MoveAssign(dst, src)
    \/ Destroy
    \/ Shutdown

Spec == Init /\ [][Next]_vars

(***************************************************************************)
(* Properties                                                              *)
(***************************************************************************)

TypeOK ==
    /\ store \in [Keys -> Handles \union {NULL}]
    /\ ref \in [Refs -> RefValues]
    /\ alive \subseteq Handles
    /\ open \in BOOLEAN

\* Whatever a key or a reference leads to has not been destroyed: sas_deref
\* (host.cpp) of a reference that is not null is always defined.
NoDangling == \A h \in Handles : Reachable(h) => h \in alive

============================================================================
