------------------------------ MODULE EbrStore ------------------------------
(***************************************************************************)
(* The epoch backend: get, put and close of object_store                   *)
(* (hash_tables/ebr_store.cpp) over a table that is not being resized, and *)
(* the domain that decides when a replaced handle may be dropped           *)
(* (hash_tables/ebr.h and ebr.cpp).                                        *)
(*                                                                         *)
(* One action is one access to memory that another thread can write, taken *)
(* together with the private work around it.  Accesses are sequentially    *)
(* consistent.  The table is reduced to the handle of each key: without a  *)
(* resize a node is linked once and never unlinked, and here every key has *)
(* a bucket of its own.                                                    *)
(***************************************************************************)
EXTENDS Integers, FiniteSets

CONSTANTS
    Keys,          \* keys of the table
    Handles,       \* addresses at which an object_handle can be allocated
    Refs,          \* client variables of type sas::ref<T>
    Threads,       \* client threads; one that has exited may start again
    Slots,         \* thread_states of the domain's slot table
    RETIRE_BATCH,  \* retired entries that make a call scan
    MaxEpoch,      \* bound of the model: no call or thread starts from this
                   \* epoch on; those under way finish
    INACTIVE,      \* INACTIVE_EPOCH
    NULL,          \* nullptr
    Unborn         \* a ref variable outside its lifetime

ASSUME DistinguishedValues ==
    /\ NULL \notin Handles \union Slots \union Refs \union Keys
    /\ Unborn \notin Handles \union {NULL}
    /\ INACTIVE \notin Nat
ASSUME FiniteInstance == IsFiniteSet(Refs)
ASSUME EpochAssumption == RETIRE_BATCH \in Nat \ {0} /\ MaxEpoch \in Nat

VARIABLES
    map,         \* the handle in each key's node, NULL where there is none
    refcount,    \* object_handle::refcount; 0 at an address without a handle
    ref,         \* ref::h_ of each client reference
    epoch,       \* epoch_
    min_active,  \* min_active_
    announced,   \* thread_state::announced
    active,      \* thread_state::active
    cached,      \* thread_state::cached_epoch
    retired,     \* thread_state::retired; it outlives the slot's owner
    used,        \* the slots that have been handed out at least once
    pc,          \* where each thread is
    node,        \* ebr_thread_state::state_
    leaving,     \* the thread is in ~ebr_thread_state
    global, hint, cutoff, todo,   \* locals of scan_and_reclaim; hint is also
                                  \* prev, and todo the slots still to visit
    key,         \* argument of the get or put under way
    dest,        \* the reference that the get under way initialises
    ptr,         \* get: result;  put: new_handle
    old,         \* put: old_handle
    phase,       \* what the host has torn down
    stale        \* history: some thread has announced an epoch that had passed

epochs == <<epoch, min_active>>
states == <<announced, active, cached, used>>
scan == <<global, hint, cutoff, todo>>
locals == <<key, dest, ptr, old>>
vars == <<map, refcount, ref, epochs, states, retired, pc, node, leaving, scan,
          locals, phase, stale>>

Up(t) == pc[t] # "down"
My(f, t) == f[node[t]]

Init ==
    /\ map = [k \in Keys |-> NULL]
    /\ refcount = [h \in Handles |-> 0]
    /\ ref = [r \in Refs |-> Unborn]
    /\ epoch = 0
    /\ min_active = 0
    /\ announced = [s \in Slots |-> INACTIVE]
    /\ active = [s \in Slots |-> FALSE]
    /\ cached = [s \in Slots |-> 0]
    /\ retired = [s \in Slots |-> {}]
    /\ used = {}
    /\ pc = [t \in Threads |-> "down"]
    /\ node = [t \in Threads |-> NULL]
    /\ leaving = [t \in Threads |-> FALSE]
    /\ global = [t \in Threads |-> 0]
    /\ hint = [t \in Threads |-> 0]
    /\ cutoff = [t \in Threads |-> 0]
    /\ todo = [t \in Threads |-> {}]
    /\ key = [t \in Threads |-> NULL]
    /\ dest = [t \in Threads |-> NULL]
    /\ ptr = [t \in Threads |-> NULL]
    /\ old = [t \in Threads |-> NULL]
    /\ phase = "open"
    /\ stale = FALSE

\* drop_handle (handle.cpp); ~ref does not call it for nullptr.
DropHandle(h) ==
    refcount' = IF h \in Handles THEN [refcount EXCEPT ![h] = @ - 1] ELSE refcount

(***************************************************************************)
(* ebr.cpp: entering and leaving a critical section                        *)
(***************************************************************************)

\* enter, first half: the epoch is read ...
Enter(t) ==
    /\ epoch < MaxEpoch
    /\ cached' = [cached EXCEPT ![node[t]] = epoch]
    /\ pc' = [pc EXCEPT ![t] = "announce"]

\* Mutant: the epoch to come is announced.
AnnounceNext(t) ==
    /\ pc[t] = "announce"
    /\ announced' = [announced EXCEPT ![node[t]] = My(cached, t) + 1]
    /\ stale' = (stale \/ My(cached, t) # epoch)
    /\ pc' = [pc EXCEPT ![t] = IF dest[t] = NULL THEN "find" ELSE "load"]
    /\ UNCHANGED <<map, refcount, ref, epochs, active, cached, used, retired, node,
                   leaving, scan, locals, phase>>

\* ... second half: and announced.  It may have advanced in between.
Announce(t) ==
    /\ pc[t] = "announce"
    /\ announced' = [announced EXCEPT ![node[t]] = My(cached, t)]
    /\ stale' = (stale \/ My(cached, t) # epoch)
    /\ pc' = [pc EXCEPT ![t] = IF dest[t] = NULL THEN "find" ELSE "load"]
    /\ UNCHANGED <<map, refcount, ref, epochs, active, cached, used, retired, node,
                   leaving, scan, locals, phase>>

\* exit, then maybe_scan; the call is over unless a scan is due.
Exit(t) ==
    /\ pc[t] = "exit"
    /\ announced' = [announced EXCEPT ![node[t]] = INACTIVE]
    /\ pc' = [pc EXCEPT ![t] = IF Cardinality(My(retired, t)) >= RETIRE_BATCH
                               THEN "scan" ELSE "idle"]
    /\ key' = [key EXCEPT ![t] = NULL]
    /\ dest' = [dest EXCEPT ![t] = NULL]
    /\ ptr' = [ptr EXCEPT ![t] = NULL]
    /\ UNCHANGED <<map, refcount, ref, epochs, active, cached, used, retired, node,
                   leaving, scan, old, phase, stale>>

(***************************************************************************)
(* ebr.cpp: scan_and_reclaim                                               *)
(***************************************************************************)

LoadGlobal(t) ==
    /\ pc[t] = "scan"
    /\ global' = [global EXCEPT ![t] = epoch]
    /\ pc' = [pc EXCEPT ![t] = "hint"]
    /\ UNCHANGED <<map, refcount, ref, epochs, states, retired, node, leaving, hint,
                   cutoff, todo, locals, phase, stale>>

\* If the hint is as good as it can get, no slot is looked at.
LoadHint(t) ==
    /\ pc[t] = "hint"
    /\ hint' = [hint EXCEPT ![t] = min_active]
    /\ cutoff' = [cutoff EXCEPT ![t] = global[t]]
    /\ pc' = [pc EXCEPT ![t] = IF min_active = global[t] THEN "advance" ELSE "collect"]
    /\ UNCHANGED <<map, refcount, ref, epochs, states, retired, node, leaving, global,
                   todo, locals, phase, stale>>

\* for_each_active begins: the slots that exist now will be visited, but for
\* the thread's own.
BeginWalk(t) ==
    /\ pc[t] = "collect"
    /\ todo' = [todo EXCEPT ![t] = used \ {node[t]}]
    /\ pc' = [pc EXCEPT ![t] = "walk"]
    /\ UNCHANGED <<map, refcount, ref, epochs, states, retired, node, leaving, global,
                   hint, cutoff, locals, phase, stale>>

\* Mutant: the announcements are not compared with the cutoff.
ScanSlotIgnoring(t) ==
    /\ pc[t] = "walk"
    /\ \E s \in todo[t] : todo' = [todo EXCEPT ![t] = @ \ {s}]
    /\ UNCHANGED <<map, refcount, ref, epochs, states, retired, pc, node, leaving,
                   global, hint, cutoff, locals, phase, stale>>

\* The cutoff sinks to the smallest epoch that is announced.
ScanSlot(t) ==
    /\ pc[t] = "walk"
    /\ \E s \in todo[t] :
         /\ todo' = [todo EXCEPT ![t] = @ \ {s}]
         /\ cutoff' = IF active[s] /\ announced[s] # INACTIVE /\ announced[s] < cutoff[t]
                      THEN [cutoff EXCEPT ![t] = announced[s]]
                      ELSE cutoff
    /\ UNCHANGED <<map, refcount, ref, epochs, states, retired, pc, node, leaving,
                   global, hint, locals, phase, stale>>

\* Only if everybody has reached the epoch that was read can it be over.
EndWalk(t) ==
    /\ pc[t] = "walk"
    /\ todo[t] = {}
    /\ pc' = [pc EXCEPT ![t] = IF cutoff[t] = global[t] THEN "advance" ELSE "raise"]
    /\ UNCHANGED <<map, refcount, ref, epochs, states, retired, node, leaving, scan,
                   locals, phase, stale>>

\* From here on only the cutoff matters.
ToReclaim(t) ==
    /\ pc' = [pc EXCEPT ![t] = "reclaim"]
    /\ global' = [global EXCEPT ![t] = 0]
    /\ hint' = [hint EXCEPT ![t] = 0]

\* Mutant: the epoch is stored without comparing.
AdvanceStoring(t) ==
    /\ pc[t] = "advance"
    /\ epoch' = global[t] + 1
    /\ \/ hint[t] = global[t] /\ ToReclaim(t)
       \/ /\ hint[t] # global[t]
          /\ pc' = [pc EXCEPT ![t] = "raise"]
          /\ UNCHANGED <<global, hint>>
    /\ UNCHANGED <<map, refcount, ref, min_active, states, retired, node, leaving,
                   cutoff, todo, locals, phase, stale>>

\* compare_exchange on epoch_; of the scans of one epoch one succeeds.
Advance(t) ==
    /\ pc[t] = "advance"
    /\ epoch' = IF epoch = global[t] THEN epoch + 1 ELSE epoch
    /\ \/ hint[t] = global[t] /\ ToReclaim(t)
       \/ /\ hint[t] # global[t]
          /\ pc' = [pc EXCEPT ![t] = "raise"]
          /\ UNCHANGED <<global, hint>>
    /\ UNCHANGED <<map, refcount, ref, min_active, states, retired, node, leaving,
                   cutoff, todo, locals, phase, stale>>

\* Mutant: a failed compare-exchange does not reload what it compares with.
RaiseWithoutReload(t) ==
    /\ pc[t] = "raise"
    /\ \/ /\ hint[t] >= cutoff[t] \/ min_active = hint[t]
          /\ min_active' = IF hint[t] < cutoff[t] THEN cutoff[t] ELSE min_active
          /\ ToReclaim(t)
       \/ /\ hint[t] < cutoff[t]
          /\ min_active # hint[t]
          /\ UNCHANGED <<min_active, pc, global, hint>>
    /\ UNCHANGED <<map, refcount, ref, epoch, states, retired, node, leaving, cutoff,
                   todo, locals, phase, stale>>

\* One round of the loop that raises min_active_ to the cutoff.  (A spurious
\* failure of compare_exchange_weak changes nothing.)
Raise(t) ==
    /\ pc[t] = "raise"
    /\ \/ /\ hint[t] >= cutoff[t]
          /\ ToReclaim(t)
          /\ UNCHANGED min_active
       \/ /\ hint[t] < cutoff[t]
          /\ min_active = hint[t]
          /\ min_active' = cutoff[t]
          /\ ToReclaim(t)
       \/ /\ hint[t] < cutoff[t]
          /\ min_active # hint[t]
          /\ hint' = [hint EXCEPT ![t] = min_active]
          /\ UNCHANGED <<min_active, pc, global>>
    /\ UNCHANGED <<map, refcount, ref, epoch, states, retired, node, leaving, cutoff,
                   todo, locals, phase, stale>>

\* Mutant: one epoch of distance is thought to be enough.
FreeableEarly(t) == {e \in My(retired, t) : cutoff[t] >= 2 /\ e.epoch < cutoff[t]}

\* What a cutoff lets go: entries at least two epochs older.
Freeable(t) == {e \in My(retired, t) : cutoff[t] >= 2 /\ e.epoch + 1 < cutoff[t]}

\* Mutant: the entries stay in the list.
ReclaimKeeping(t) ==
    /\ pc[t] = "reclaim"
    /\ \E e \in Freeable(t) : DropHandle(e.ptr)
    /\ pc' = [pc EXCEPT ![t] = IF leaving[t] THEN "release" ELSE "idle"]
    /\ UNCHANGED <<map, ref, epochs, states, retired, node, leaving, scan, locals,
                   phase, stale>>

\* The deleter of one entry runs.
Reclaim(t) ==
    /\ pc[t] = "reclaim"
    /\ \E e \in Freeable(t) :
         /\ DropHandle(e.ptr)
         /\ retired' = [retired EXCEPT ![node[t]] = @ \ {e}]
    /\ UNCHANGED <<map, ref, epochs, states, pc, node, leaving, scan, locals, phase,
                   stale>>

\* The scan is over, and so is the call or the thread that made it.
EndReclaim(t) ==
    /\ pc[t] = "reclaim"
    /\ Freeable(t) = {}
    /\ cutoff' = [cutoff EXCEPT ![t] = 0]
    /\ pc' = [pc EXCEPT ![t] = IF leaving[t] THEN "release" ELSE "idle"]
    /\ UNCHANGED <<map, refcount, ref, epochs, states, retired, node, leaving, global,
                   hint, todo, locals, phase, stale>>

(***************************************************************************)
(* ebr.cpp: the lifetime of ebr_thread_state                               *)
(***************************************************************************)

\* First use of the store by a thread.  What the slot's last owner retired
\* is the new owner's to reclaim.
ThreadStart(t) ==
    /\ pc[t] = "down"
    /\ phase = "open"
    /\ epoch < MaxEpoch
    /\ \E s \in Slots :
         /\ ~active[s]
         /\ active' = [active EXCEPT ![s] = TRUE]
         /\ used' = used \union {s}
         /\ node' = [node EXCEPT ![t] = s]
    /\ pc' = [pc EXCEPT ![t] = "idle"]
    /\ UNCHANGED <<map, refcount, ref, epochs, announced, cached, retired, leaving,
                   scan, locals, phase, stale>>

\* The thread exits: ~ebr_thread_state scans unconditionally ...
ThreadExit(t) ==
    /\ pc[t] = "idle"
    /\ announced' = [announced EXCEPT ![node[t]] = INACTIVE]
    /\ leaving' = [leaving EXCEPT ![t] = TRUE]
    /\ pc' = [pc EXCEPT ![t] = "scan"]
    /\ UNCHANGED <<map, refcount, ref, epochs, active, cached, used, retired, node,
                   scan, locals, phase, stale>>

\* Mutant: the list is cleared with the slot.
ReleaseClearing(t) ==
    /\ pc[t] = "release"
    /\ active' = [active EXCEPT ![node[t]] = FALSE]
    /\ retired' = [retired EXCEPT ![node[t]] = {}]
    /\ node' = [node EXCEPT ![t] = NULL]
    /\ leaving' = [leaving EXCEPT ![t] = FALSE]
    /\ pc' = [pc EXCEPT ![t] = "down"]
    /\ UNCHANGED <<map, refcount, ref, epochs, announced, cached, used, scan,
                   locals, phase, stale>>

\* ... and releases the slot with what is left in it.
Release(t) ==
    /\ pc[t] = "release"
    /\ active' = [active EXCEPT ![node[t]] = FALSE]
    /\ node' = [node EXCEPT ![t] = NULL]
    /\ leaving' = [leaving EXCEPT ![t] = FALSE]
    /\ pc' = [pc EXCEPT ![t] = "down"]
    /\ UNCHANGED <<map, refcount, ref, epochs, announced, cached, used, retired, scan,
                   locals, phase, stale>>

(***************************************************************************)
(* ebr_store.cpp: get                                                      *)
(***************************************************************************)

\* A variable that no get is about to initialise.
Available(r) == ref[r] = Unborn /\ \A t \in Threads : dest[t] # r

GetCall(t) ==
    /\ pc[t] = "idle"
    /\ \E r \in Refs, k \in Keys :
         /\ Available(r)
         /\ key' = [key EXCEPT ![t] = k]
         /\ dest' = [dest EXCEPT ![t] = r]
    /\ Enter(t)
    /\ UNCHANGED <<map, refcount, ref, epochs, announced, active, used, retired, node,
                   leaving, scan, ptr, old, phase, stale>>

\* The node's handle is read; a miss is settled here.
GetLoad(t) ==
    /\ pc[t] = "load"
    /\ ptr' = [ptr EXCEPT ![t] = map[key[t]]]
    /\ \/ /\ map[key[t]] # NULL
          /\ pc' = [pc EXCEPT ![t] = "incref"]
          /\ UNCHANGED ref
       \/ /\ map[key[t]] = NULL
          /\ ref' = [ref EXCEPT ![dest[t]] = NULL]
          /\ pc' = [pc EXCEPT ![t] = "exit"]
    /\ UNCHANGED <<map, refcount, epochs, states, retired, node, leaving, scan, key,
                   dest, old, phase, stale>>

\* The caller's reference is counted.
Incref(t) ==
    /\ pc[t] = "incref"
    /\ refcount' = [refcount EXCEPT ![ptr[t]] = @ + 1]
    /\ ref' = [ref EXCEPT ![dest[t]] = ptr[t]]
    /\ pc' = [pc EXCEPT ![t] = "exit"]
    /\ UNCHANGED <<map, epochs, states, retired, node, leaving, scan, locals, phase,
                   stale>>

(***************************************************************************)
(* ebr_store.cpp: put                                                      *)
(***************************************************************************)

\* make_handle allocates at a free address, with one reference.
PutCall(t) ==
    /\ pc[t] = "idle"
    /\ \E k \in Keys, h \in Handles :
         /\ refcount[h] = 0
         /\ refcount' = [refcount EXCEPT ![h] = 1]
         /\ key' = [key EXCEPT ![t] = k]
         /\ ptr' = [ptr EXCEPT ![t] = h]
    /\ Enter(t)
    /\ UNCHANGED <<map, ref, epochs, announced, active, used, retired, node, leaving,
                   scan, dest, old, phase, stale>>

\* The key is looked for; NULL stands for an empty bucket.
PutFind(t) ==
    /\ pc[t] = "find"
    /\ old' = [old EXCEPT ![t] = map[key[t]]]
    /\ pc' = [pc EXCEPT ![t] = "swap"]
    /\ UNCHANGED <<map, refcount, ref, epochs, states, retired, node, leaving, scan,
                   key, dest, ptr, phase, stale>>

\* retire: stamped with the epoch that enter read.
Retire(t, h) ==
    retired' = [retired EXCEPT ![node[t]] = @ \union {[ptr |-> h, epoch |-> My(cached, t)]}]

\* Mutant: what is replaced is dropped at once.
PutReplaceDropping(t) ==
    /\ pc[t] = "swap"
    /\ old[t] # NULL
    /\ map[key[t]] = old[t]
    /\ map' = [map EXCEPT ![key[t]] = ptr[t]]
    /\ DropHandle(old[t])
    /\ ptr' = [ptr EXCEPT ![t] = NULL]
    /\ old' = [old EXCEPT ![t] = NULL]
    /\ pc' = [pc EXCEPT ![t] = "exit"]
    /\ UNCHANGED <<ref, epochs, states, retired, node, leaving, scan, key, dest, phase,
                   stale>>

\* compare_exchange on the node's handle succeeds; the old one is retired.
PutReplace(t) ==
    /\ pc[t] = "swap"
    /\ old[t] # NULL
    /\ map[key[t]] = old[t]
    /\ map' = [map EXCEPT ![key[t]] = ptr[t]]
    /\ Retire(t, old[t])
    /\ ptr' = [ptr EXCEPT ![t] = NULL]
    /\ old' = [old EXCEPT ![t] = NULL]
    /\ pc' = [pc EXCEPT ![t] = "exit"]
    /\ UNCHANGED <<refcount, ref, epochs, states, node, leaving, scan, key, dest, phase,
                   stale>>

\* compare_exchange on the bucket succeeds: the key has a node.
PutInsert(t) ==
    /\ pc[t] = "swap"
    /\ old[t] = NULL
    /\ map[key[t]] = NULL
    /\ map' = [map EXCEPT ![key[t]] = ptr[t]]
    /\ ptr' = [ptr EXCEPT ![t] = NULL]
    /\ pc' = [pc EXCEPT ![t] = "exit"]
    /\ UNCHANGED <<refcount, ref, epochs, states, retired, node, leaving, scan, key,
                   dest, old, phase, stale>>

\* A compare_exchange fails: the handle's hands back the current one, the
\* bucket's makes put look for the key again.
PutRetry(t) ==
    /\ pc[t] = "swap"
    /\ map[key[t]] # old[t]
    /\ \/ /\ old[t] # NULL
          /\ old' = [old EXCEPT ![t] = map[key[t]]]
          /\ UNCHANGED pc
       \/ /\ old[t] = NULL
          /\ pc' = [pc EXCEPT ![t] = "find"]
          /\ UNCHANGED old
    /\ UNCHANGED <<map, refcount, ref, epochs, states, retired, node, leaving, scan,
                   key, dest, ptr, phase, stale>>

(***************************************************************************)
(* client.h: references.  Moving them, which HybridStore models, changes   *)
(* no count or closes one first: the domain cannot tell.                   *)
(***************************************************************************)

Settled(r) == ref[r] # Unborn /\ \A t \in Threads : dest[t] # r

\* ~ref
Close(r) ==
    /\ Settled(r)
    /\ DropHandle(ref[r])
    /\ ref' = [ref EXCEPT ![r] = Unborn]
    /\ UNCHANGED <<map, epochs, states, retired, pc, node, leaving, scan, locals, phase,
                   stale>>

(***************************************************************************)
(* host_drivers.h: teardown, after host_runtime.h has joined every thread  *)
(***************************************************************************)

\* g_store.reset(): ~object_store drops what the table still holds.
TeardownStore ==
    /\ phase = "open"
    /\ \A t \in Threads : ~Up(t)
    /\ phase' = "store_reset"
    /\ refcount' = [h \in Handles |->
                      IF \E k \in Keys : map[k] = h THEN refcount[h] - 1 ELSE refcount[h]]
    /\ map' = [k \in Keys |-> NULL]
    /\ UNCHANGED <<ref, epochs, states, retired, pc, node, leaving, scan, locals, stale>>

\* g_domain.reset(): ~ebr_domain runs every deleter that is left.
TeardownDomain ==
    /\ phase = "store_reset"
    /\ phase' = "domain_reset"
    /\ refcount' = [h \in Handles |->
                      IF \E s \in Slots : \E e \in retired[s] : e.ptr = h
                      THEN refcount[h] - 1 ELSE refcount[h]]
    /\ retired' = [s \in Slots |-> {}]
    /\ UNCHANGED <<map, ref, epochs, states, pc, node, leaving, scan, locals, stale>>

\* The host has returned from main.
Terminated == phase = "domain_reset" /\ UNCHANGED vars

(***************************************************************************)
(* Specification                                                           *)
(***************************************************************************)

\* The steps a thread takes on its own once an operation is under way.
Continue(t) ==
    \/ Announce(t) \/ Exit(t)
    \/ LoadGlobal(t) \/ LoadHint(t) \/ BeginWalk(t) \/ ScanSlot(t) \/ EndWalk(t)
    \/ Advance(t) \/ Raise(t) \/ Reclaim(t) \/ EndReclaim(t) \/ Release(t)
    \/ GetLoad(t) \/ Incref(t)
    \/ PutFind(t) \/ PutReplace(t) \/ PutInsert(t) \/ PutRetry(t)

\* The steps that are the client program's choice.
Choose(t) == ThreadStart(t) \/ ThreadExit(t) \/ GetCall(t) \/ PutCall(t)

Next ==
    \/ \E t \in Threads : Continue(t) \/ Choose(t)
    \/ \E r \in Refs : Close(r)
    \/ TeardownStore
    \/ TeardownDomain
    \/ Terminated

Spec == Init /\ [][Next]_vars

\* The behaviours in which every thread announces the epoch that is current
\* at that moment.  enter does not ensure it: the epoch may advance between
\* its two accesses.  The run ebr_stale_entry shows what can happen then.
TimelySpec == Init /\ [][Next /\ ~stale']_vars

\* A thread inside an operation is a running OS thread: nothing blocks it.
FairSpec == Spec /\ \A t \in Threads : WF_vars(Continue(t))

(***************************************************************************)
(* Properties                                                              *)
(***************************************************************************)

PCs == {"down", "idle", "announce", "load", "incref", "find", "swap", "exit", "scan",
        "hint", "collect", "walk", "advance", "raise", "reclaim", "release"}

Entries == [ptr : Handles, epoch : 0..epoch]

\* The shape of the state: no epoch that anybody remembers lies ahead.
TypeOK ==
    /\ map \in [Keys -> Handles \union {NULL}]
    /\ refcount \in [Handles -> Int]
    /\ ref \in [Refs -> Handles \union {NULL, Unborn}]
    /\ epoch \in Nat
    /\ min_active \in 0..epoch
    /\ announced \in [Slots -> 0..epoch \union {INACTIVE}]
    /\ active \in [Slots -> BOOLEAN]
    /\ cached \in [Slots -> 0..epoch]
    /\ retired \in [Slots -> SUBSET Entries]
    /\ used \in SUBSET Slots
    /\ pc \in [Threads -> PCs]
    /\ node \in [Threads -> Slots \union {NULL}]
    /\ leaving \in [Threads -> BOOLEAN]
    /\ global \in [Threads -> 0..epoch]
    /\ hint \in [Threads -> 0..epoch]
    /\ cutoff \in [Threads -> 0..epoch]
    /\ todo \in [Threads -> SUBSET Slots]
    /\ key \in [Threads -> Keys \union {NULL}]
    /\ dest \in [Threads -> Refs \union {NULL}]
    /\ ptr \in [Threads -> Handles \union {NULL}]
    /\ old \in [Threads -> Handles \union {NULL}]
    /\ phase \in {"open", "store_reset", "domain_reset"}
    /\ stale \in BOOLEAN

\* A get counts a handle that still exists (ebr_store.cpp:74-75), and what a
\* reference holds exists: the assertion of drop_handle (handle.cpp:31) and
\* every sas_deref are safe.
NoUseAfterFree ==
    /\ \A t \in Threads : pc[t] = "incref" => refcount[ptr[t]] > 0
    /\ \A r \in Refs : ref[r] \in Handles => refcount[ref[r]] > 0

Inside == {"load", "incref", "find", "swap", "exit"}

\* A thread inside a critical section holds the epoch back: it advances once
\* past the announcement and no further, whatever scans were under way and
\* whatever they remember (presentation/main.tex:282-285).
EpochLag == \A t \in Threads : pc[t] \in Inside => epoch <= My(announced, t) + 1

\* The store's own reference to a handle is in the table, in the put that
\* allocated it, or in a retired list.
InElement(h) == \E k \in Keys : map[k] = h
Putting(t, h) == pc[t] \in {"announce", "find", "swap"} /\ dest[t] = NULL /\ ptr[t] = h
InPut(h) == \E t \in Threads : Putting(t, h)
InRetired(h) == \E s \in Slots : \E e \in retired[s] : e.ptr = h
Owned(h) == InElement(h) \/ InPut(h) \/ InRetired(h)
Holders(h) == {r \in Refs : ref[r] = h}

\* The count of a handle is the number of references to it, plus one while
\* the store owns it.  A handle that two puts retire is dropped twice, one
\* that none retires is leaked.
RefcountExact ==
    \A h \in Handles :
        refcount[h] = Cardinality(Holders(h)) + (IF Owned(h) THEN 1 ELSE 0)

\* A retired list is sorted: a slot's new owner never enters an epoch older
\* than what the last one retired in.  (lower_bound, ebr.cpp:97, needs it.)
ListSorted == \A s \in Slots : \A e \in retired[s] : e.epoch <= cached[s]

(***************************************************************************)
(* The inductive invariant behind NoUseAfterFree and RefcountExact, for    *)
(* behaviours without stale announcements                                  *)
(***************************************************************************)

\* What a thread's program counter says of its private state and its slot.
ThreadLocal ==
    \A t \in Threads :
        /\ Up(t) => node[t] \in used /\ active[node[t]]
        /\ phase # "open" => ~Up(t)
        /\ pc[t] \in {"announce", "load", "find", "swap"} => key[t] \in Keys
        /\ pc[t] \in {"find", "swap"} => dest[t] = NULL /\ ptr[t] \in Handles
        /\ pc[t] \in {"load", "incref"} => dest[t] # NULL
        /\ pc[t] = "announce" /\ dest[t] = NULL => ptr[t] \in Handles
        /\ pc[t] = "incref" => ptr[t] \in Handles
        /\ dest[t] # NULL => pc[t] \in {"announce", "load", "incref", "exit"}
        /\ pc[t] # "swap" => old[t] = NULL
        /\ pc[t] \in Inside => My(announced, t) = My(cached, t)
        /\ Up(t) /\ pc[t] \notin Inside => My(announced, t) = INACTIVE

\* Two threads never own the same slot; a slot without owner is INACTIVE.
SlotsOwned ==
    /\ \A t, u \in Threads : Up(t) /\ Up(u) /\ node[t] = node[u] => t = u
    /\ \A s \in Slots : ~active[s] => announced[s] = INACTIVE

\* The reference a get will initialise belongs to that get alone.
DestReserved ==
    \A t \in Threads :
        /\ dest[t] # NULL /\ pc[t] # "exit" => ref[dest[t]] = Unborn
        /\ \A u \in Threads : dest[t] # NULL /\ dest[t] = dest[u] => t = u

\* At most one place owns a handle, kind by kind.
SoleOwner(h) ==
    /\ \A k, l \in Keys : map[k] = h /\ map[l] = h => k = l
    /\ \A t, u \in Threads : Putting(t, h) /\ Putting(u, h) => t = u
    /\ \A r, s \in Slots : \A d \in retired[r], e \in retired[s] :
         d.ptr = h /\ e.ptr = h => r = s /\ d = e
    /\ InElement(h) => ~InPut(h) /\ ~InRetired(h)
    /\ InPut(h) => ~InRetired(h)

OwnedOnce == \A h \in Handles : SoleOwner(h)

\* The hint trails every thread inside, and so does the cutoff of a scan that
\* has looked at the thread's slot, or that began before the thread entered.
CutoffBehind ==
    \A u \in Threads : pc[u] \in Inside =>
        /\ min_active <= My(announced, u)
        /\ \A t \in Threads :
             /\ pc[t] = "walk" => node[u] \in todo[t] \/ cutoff[t] <= My(announced, u)
             /\ pc[t] \in {"advance", "raise", "reclaim"} => cutoff[t] <= My(announced, u)

\* The cutoff starts at the epoch that was read and only sinks.
CutoffOfScan ==
    \A t \in Threads :
        /\ pc[t] \in {"collect", "advance"} => cutoff[t] = global[t]
        /\ pc[t] = "walk" => cutoff[t] <= global[t]

\* What a get is about to count is owned, if only as garbage that is not yet
\* two epochs older than the get.
Guarded ==
    \A t \in Threads : pc[t] = "incref" =>
        /\ InElement(ptr[t]) \/ InRetired(ptr[t])
        /\ \A s \in Slots : \A e \in retired[s] :
             e.ptr = ptr[t] => My(announced, t) <= e.epoch + 1

IInv ==
    /\ TypeOK
    /\ ThreadLocal
    /\ SlotsOwned
    /\ DestReserved
    /\ OwnedOnce
    /\ RefcountExact
    /\ EpochLag
    /\ CutoffBehind
    /\ CutoffOfScan
    /\ Guarded
    /\ ListSorted

\* Once the host has reset store and domain, only what a client still holds
\* a reference to is left.
NothingLeaked ==
    phase = "domain_reset" =>
        \A h \in Handles : refcount[h] > 0 => \E r \in Refs : ref[r] = h

(***************************************************************************)
(* The store as its clients see it.  A get takes effect when it reads the  *)
(* handle, a put when its compare-exchange succeeds.                       *)
(***************************************************************************)

RefBar ==
    [r \in Refs |->
        IF \E t \in Threads : pc[t] = "incref" /\ dest[t] = r
        THEN ptr[CHOOSE t \in Threads : pc[t] = "incref" /\ dest[t] = r]
        ELSE ref[r]]

AliveBar == {h \in Handles : refcount[h] > 0 /\ ~InPut(h)}

Store == INSTANCE ObjectStore
         WITH store <- map, ref <- RefBar, alive <- AliveBar, open <- (phase = "open")

\* The epoch backend without resizes is a linearizable object store that
\* never destroys what a client can reach.
ImplementsObjectStore == Store!Spec

\* Every operation returns: a put retries only after another put has gone
\* through, a scan raises min_active_ in finitely many rounds, and the calls
\* of the model are finitely many.
CallsReturn == \A t \in Threads : pc[t] \notin {"idle", "down"} ~> pc[t] \in {"idle", "down"}

=============================================================================
