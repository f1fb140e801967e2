# TLA+ verification of the SAS object store

The program is an in-process object store: client libraries are loaded into one
host process, each runs on a thread of its own, and all of them publish and
fetch C++ objects by key through `sas::put` and `sas::get` (`client.h`).
Objects are not copied. A `sas::ref<T>` holds a counted handle, and the store
destroys an object when no key and no reference leads to it any more. Five
backends implement the map; the default one is `hybrid_store`, a concurrent flat
map whose elements are atomic handle pointers, with hazard pointers deciding
when a replaced handle may be dropped.

Paths below are relative to `src/wolfiej-k/src/`.

## Inventory

| component | state | operations | hard behaviour | what makes it correct |
|---|---|---|---|---|
| client API, `client.h`, `host.cpp` | `h_` of each `ref` | get, put, publish, poll, move, move-assign, destroy | references outlive threads and the store itself | every `sas_deref` hits a live handle; every handle is closed exactly once |
| handles, `handle.h/.cpp` | `refcount`, a thread-local free list | `make_handle`, `drop_handle`, `free_handle` | an address is reused right after it was freed | count = references + the store's own one |
| hybrid store, `hash_tables/hybrid.h` | `map_`, one atomic pointer per key | get, put, close, destructor | counting a handle happens after finding it | gets and puts are atomic; no freed handle is touched |
| hazard domain, `hazard.h/.cpp` | two hazards per slot, `orphaned`; per thread `retired_`, `retire_counter_`, `active_` | protect, unprotect, retire, scan, thread start and exit | hazards published behind the scan; threads that exit with garbage | what a get has validated is not freed; garbage is bounded and in the end freed |
| slot table, `slot_table.h` | chunk list, `used` per chunk, `active` per slot | acquire, append, release, walks | lock-free appends while others walk | one owner per slot; walks miss no owned slot |
| hash table, `hash_table.h`, `common.h` | buckets, frozen bits, `next_table`, migration counters | freeze, migrate, help, trigger and complete a resize | several helpers move buckets while gets and puts go on | every key is found, in exactly one table |
| HP store, `hp_store.cpp` | `table_` | get, put, close, destructor | protection of handles and of tables | as hybrid store, across resizes |
| epoch domain, `ebr.h/.cpp` | `epoch_`, `min_active_`, announcements, retire lists | enter, exit, retire, scan | the epoch advances between its load and its announcement | nothing is freed that an entered thread can reach |
| epoch store, `ebr_store.cpp` | `table_`, a cached node per thread | get, put, close, destructor | frozen handles during a migration | as HP store |
| spinlock and sharded stores | a map behind a lock or bucket locks | get, put, close, destructor | the replaced handle is dropped after the unlock | as hybrid store |
| memory pools, `memory_pool.h` | a bounded array of free objects per thread | acquire, release, prefill | objects are freed by other threads than they came from | an object is in one pool or in use |
| host, `host_runtime.h`, `host_drivers.h` | list of clients, the two globals `g_store`, `g_domain` | load, run, join, tear down, unload | static references of a client live until `dlclose`, after the store is gone | store before domain; nothing is freed twice or forgotten |
| benchmarks, YCSB driver, tests, examples, vendored headers | none the store depends on | | | not modelled, but for what `tests/resize.cpp` asserts |

How they interact. A client's call goes through `host.cpp` to the store. The
store calls `hazard_thread_state::get()`, whose first use on a thread takes a
slot from the slot table and adopts what its last owner left. `get` protects the
element's pointer, counts it, and withdraws the hazard. `put` exchanges the pointer
and retires the old one; every `SCAN_THRESHOLD`-th retirement walks over all
active slots and drops what nobody protects. A thread's exit scans once more,
leaves the rest in its slot and releases it. `~ref` calls `drop_handle` and
touches neither store nor domain. The host joins all threads, resets the store,
then the domain, and only then unloads the clients with their static references.

The hazards of the code, each at its line, are listed in `PROJECT.json` with the
properties that cover them, or the reason why none does yet.

## Modules

| module | models | kind |
|---|---|---|
| `ObjectStore` | what a client of `client.h` may rely on, for any backend | abstract specification |
| `HybridStore` | `hybrid.h`, `hazard.h/.cpp`, `handle.h/.cpp`, the references, start, exit, join and teardown | detailed specification |
| `SlotTable` | `slot_table.h` | detailed specification |
| `EbrStore` | `ebr.h/.cpp`, and `ebr_store.cpp` over a table that is not being resized | detailed specification |
| `LockStore` | `spinlock.h` and `sharded.h` | detailed specification |
| `GracePeriod` | what a store may rely on when it leaves its garbage to an epoch domain | abstract specification |
| `EbrGrace` | `EbrStore` with a history variable, as an implementation of `GracePeriod` | refinement |
| `HashTable` | `hash_table.h`, the migration in `common.h`, and get and put of `hp_store.cpp` and `ebr_store.cpp` as far as they touch the table | detailed specification |
| `TableStore` | `HashTable` with everything that is retired and protected: `hp_store.cpp` with `hazard.h/.cpp`, `ebr_store.cpp` with `GracePeriod` for `ebr.cpp`, references, exit and teardown | composition |
| `MCHybridStore`, `MCSlotTable`, `MCEbrGrace`, `MCEbrStore`, `MCLockStore`, `MCHashTable`, `MCTableStore` | symmetry sets and small constants for TLC | model checking |
| `MCResizeTest` | the readers of `tests/resize.cpp`: `MCHashTable` with a history variable | model checking |
| `ObjectStore_proofs`, `HybridStore_proofs`, `SlotTable_proofs`, `EbrStore_proofs`, `EbrGrace_proofs`, `LockStore_proofs`, `HashTable_proofs`, `TableStore_proofs` | | theorems |

`HybridStore`, `EbrStore`, `LockStore` and `TableStore` each have `ObjectStore` as their abstract
specification: an instance with a refinement mapping (`RefBar`, `AliveBar`) at the end
of the module. They differ in the step at which a get takes effect, and in how
they know that nothing reaches a handle.

### ObjectStore

Four variables: the handle of each key, what each reference holds, the handles
not yet destroyed, and whether the host still has a store. `Shutdown` ends the store once and for all; from
then on there are no gets and puts, and references can only be moved and closed. `Put`, `Get`, `Close`, `MoveConstruct` and `MoveAssign` are
atomic. `Collects` says when a destructor may run: together with any step that
gives something up, or alone (`Destroy`), but only for a handle that nothing
reaches. How a backend finds that out is not visible.

### HybridStore

One action is one access to memory that other threads write, with the private work
around it. `pc[t]` is where thread `t` is:

| pc | code | next action |
|---|---|---|
| `down` | before the thread's first call, or after its exit | `ThreadStart` |
| `adopt` | constructor's loop, hazard.cpp:55-57 | `Adopt` |
| `idle` | outside the store | `GetMiss`, `GetCall`, `PutCall`, `ThreadExit` |
| `load`, `publish`, `validate` | `protect`, hazard.h:51-67 | `ProtectLoad`, `ProtectPublish`, `ProtectValidate` |
| `incref`, `unprotect` | hybrid.h:63 and 66 | `Incref`, `Unprotect` |
| `put` | between `make_handle` and the map operation, hybrid.h:75-76 | `PutInsert`, `PutExchange` |
| `collect` | the walk of `scan_and_reclaim` begins, hazard.cpp:27 | `BeginWalk` |
| `scan`, `reclaim` | `scan_and_reclaim`, hazard.cpp:27-47 | `ScanSlot`, `EndScan`, `Reclaim`, `EndReclaim` |
| `release` | end of the destructor, hazard.cpp:66-69 | `Release` |

A scan can be entered from `put`, from `adopt` and from the destructor;
`Resume` says where it returns to. `ref`, `refcount`, `hazard`, `orphaned`,
`retired`, `counter` and `seen` are `h_`, `refcount`, `ptrs[0]`, `orphaned`,
`retired_`, `retire_counter_` and `active_`. `phase` is what the host has torn
down; references can be moved and closed in every phase, as static
references of a client are.

What is abstracted, and why it is safe to:

- The flat map is external. As `hybrid.h` uses it, an element is created once
  (with the handle in it) and never erased, and visitors of one element run
  concurrently, which is why every access to the pointer is its own action.
- `retired_` and `orphaned` are sets. Their order is never used, and a double entry
  would be two owners of one handle, which `RefcountExact` excludes: the sets
  lose nothing as long as it holds, and a `push_back` of an entry that is already there
  would break the count in the model too.
- The slots of the domain are what `SlotTable` provides: `acquire` gives an
  inactive slot, a scan visits the slots that exist at its start. A domain with at
  most 64 slots has one chunk, whose `used` is read once per scan; for several
  chunks `SlotTable` shows that the walk still meets every slot that was owned when it
  began.
- A scan reads `active` of a slot and then its hazard; `ScanSlot` reads both at
  once. A slot that is released in between has no hazard any more, so nothing
  is lost.
- `Adopt` moves one orphan at a time as the loop does; that `orphaned` is cleared
  after the loop and not entry by entry shows to nobody but the slot's owner.
- An address of a destroyed handle can be allocated again in the next step. The
  thread-local pools make that rarer, never more frequent.
- Accesses are sequentially consistent. The validating load in `protect` is only an
  acquire load and the exchange of `put` is acq_rel, which on x86 amounts to the
  same; on weaker hardware the C++ rules allow more than the model has
  (listed as a hazard).
- A destructor registered by a client does not call the store again (listed as
  a hazard).

### SlotTable

Chunks are numbered by the order in which they are pushed, so `next` of chunk
`c` is `c - 1`; `head` is 0 for `nullptr`. `acquire`, `append_new` and
`for_each_active` are one action per atomic access; `compare_exchange_weak`
may fail spuriously (`BumpFails`). `garbage` says that a slot's last owner left
entries in it; `due` and `visited` are history variables of a walk.

### EbrStore

| pc | code | next action |
|---|---|---|
| `down` | before the thread's first call, or after its exit | `ThreadStart` |
| `idle` | outside the store | `GetCall`, `PutCall` (with `Enter`: ebr.cpp:37), `ThreadExit` |
| `announce` | between the two accesses of `enter`, ebr.cpp:39 | `Announce` |
| `load`, `incref` | ebr_store.cpp:72 and 75 | `GetLoad`, `Incref` |
| `find`, `swap` | put's search and its compare-exchange, ebr_store.cpp:125-172 | `PutFind`, `PutReplace`, `PutInsert`, `PutRetry` |
| `exit` | `exit` and `maybe_scan` | `Exit` |
| `scan`, `hint` | the two loads at ebr.cpp:58-59 | `LoadGlobal`, `LoadHint` |
| `collect`, `walk` | `for_each_active`, ebr.cpp:69-75 | `BeginWalk`, `ScanSlot`, `EndWalk` |
| `advance`, `raise` | the compare-exchanges on `epoch_` and `min_active_` | `Advance`, `Raise` |
| `reclaim` | the deleters, ebr.cpp:93-103 | `Reclaim`, `EndReclaim` |
| `release` | end of `~ebr_thread_state` | `Release` |

`announced`, `active`, `cached` and `retired` belong to the slot, not to the thread,
and outlive its owner, as in `thread_state`. `leaving` tells a scan that the destructor
makes from one that `exit` makes. `retired` is a set of stamped handles, which loses
nothing for the reason given above; that `lower_bound` then cuts the vector at the right place
is the property `ListSorted`. The table is reduced to the handle of each key: without a
resize a node is linked once, never moved and never unlinked, so that what is
found depends on the handle alone. Two keys in one bucket would make an insertion
fail for another key's sake, after which put searches again and finds what it found
before. Moves of references are left to `HybridStore`. `stale` is a history variable:
some thread has announced an epoch that had passed by then.

### LockStore

A call is `acquire`, `find` or `load`, `incref` or `store`, `release`, and for a put the
drop of the old handle after the unlock. `LockOf` gives each key its lock: with one
lock for all it is `spinlock_store`; `sharded_store` has one per group of the flat
map, whose visitor runs with it held. The maps are external.

### HashTable

| pc | code | next action |
|---|---|---|
| `idle` | outside the store | `GetCall`, `PutCall` |
| `table`, `next` | the loads of `table_` and `next_table`, hp_store.cpp:49-54 and 95-96 | `LoadTable`, `LoadNext` |
| `help` | `help_migrate_one` takes a chunk, common.h:128-133 | `Help` |
| `freeze`, `seal`, `copy`, `tally` | `migrate_bucket`: the bucket, the handle of a node, its copy, the successor's shard | `FreezeBucket`, `FreezeHandle`, `Copy`, `CountCopy` |
| `done`, `complete` | `migration_done` is raised; `try_complete_resize` | `ChunkDone`, `TryComplete` |
| `bucket` | the head of the bucket is read, and the chain walked | `GetBucket`, `PutBucket` |
| `load` | get has found the node, hp_store.cpp:71, ebr_store.cpp:72 | `GetLoad` |
| `old`, `swap` | put on a key with a node, hp_store.cpp:117-133 | `PutOld`, `PutReplace`, `PutReplaceFails` |
| `insert` | put on a key without one, hp_store.cpp:144-151 | `PutInsert`, `PutInsertFails` |
| `count`, `sum`, `trigger` | one shard is raised; the shards are added up, one per step; `trigger_resize`, hp_store.cpp:152-169 | `Count`, `Sum`, `TriggerResize` |

`root` is `table_`; the successor of table `i` is table `i + 1`, since `next_table` is set
once. A bucket is the sequence of keys in its chain, and `handle` and `sealed` are the
pointer and the frozen bit in the node of a key, indexed by key; that every key indeed has one node at most, in the bucket of its
hash, is `OneNodePerKey`. What is abstracted:

- Chains only grow at the head and `next` is never changed after a node was linked, so
  walking a chain from a head that was read finds what it held then: the walk is part
  of the step that reads the head.
- The cursor stops at the capacity, beyond which its value has no effect. The candidate
  of a thread that loses the exchange in `trigger_resize` is freed and never seen.
- `protect` in `hp_store.cpp` repeats until its last load confirms the pointer: the get
  takes the value of that load. `FrozenIsMiss` selects the get of `ebr_store.cpp`, which
  loads once and takes a frozen handle for an absent one.
- Nothing is reclaimed, so tables, nodes and handles keep their identity. What may be
  freed when is the subject of `TableStore`.

`window` is a history variable: the values that the key of a get has had since the get
began.

### GracePeriod and EbrGrace

`GracePeriod` is the contract between `ebr_store.cpp` and `ebr.cpp`: an entry that is
retired is not freed before every thread that was inside a critical section at
that moment has left it. It knows neither epochs nor slots: `waits` says for each
retired entry whom it waits for. `EbrGrace` adds that variable to `EbrStore` as a
history (`Remember`) and claims the contract for the timely behaviours
(`ImplementsGracePeriod`). The contract is what lets `TableStore` leave the epochs
out: it INSTANCEs `GracePeriod` for handles and tables alike, as `retire` takes a pointer and a
deleter and looks into neither.

### TableStore

`TableStore` EXTENDS `HashTable` and takes its actions as they are; around and between
them it puts what `HashTable` leaves out. `smr` chooses the store at the start. `stage[t]` is "run" where `pc[t]`
says all there is to say, and otherwise:

| stage | code | next action |
|---|---|---|
| `publish`, `validate` | `protect`, hazard.h:57-66 and 74-84, for `table_` at pc `table` and for a node's handle at pc `load` | `ProtectPublish`, `ProtectRetry`, `ProtectValidate` |
| `incref` | hp_store.cpp:73, ebr_store.cpp:75: the handle is found and not yet counted | `Incref` |
| `unprotect` | hp_store.cpp:80 | `Unprotect` |
| `leave` | `exit` of the critical section, ebr.cpp:44 | `Leave` |
| `collect`, `scan` | `scan_and_reclaim`, one step per hazard that is read and per entry that is freed | `BeginWalk`, `ReadHazard`, `Reclaim`, `EndScan` |
| `gone` | the thread has exited | |

`ptrs` holds both hazards of a slot; the one for a table is left standing when a call
returns, and `TakeTable` accepts a table on its strength without validation, as `acquire_table` does.
`cand` is what `protect` has loaded, with the frozen bit, since the code
compares tagged pointers. What is abstracted:

- `SCAN_THRESHOLD` and `RETIRE_BATCH` are left open: a retirement (a call's end, in the epoch
  store) may or may not start a scan. The counter itself is the subject of
  `HybridStore`.
- A scan reads the hazards in any order and frees in any order what it finds free.
  Which of the expired entries an epoch scan finds is the domain's business; it
  finds them all in no particular scan.
- A thread has its slot from the start and does not come back after its exit; what
  it leaves stays in the slot for the domain's destructor. Adoption by another
  thread is in `HybridStore` and `EbrStore`.
- A table is freed in one step, with its nodes. `freed` counts how often.
- Each thread has one `ref`; it is closed whenever the client likes, also after
  teardown. Moves of references touch neither table nor domain and are left to
  `HybridStore`.
- `FrozenIsMiss` is not used: `smr` decides it.

## Runs

| run | configuration | properties | size |
|---|---|---|---|
| `hybrid_safety` | 2 threads and slots, 2 keys, 3 handles, 2 references, threshold 2, symmetry | `IInv`, `NoUseAfterFree`, `RefcountExact`, `HazardSeen`, `BoundedGarbage`, `NothingLeaked`, `ImplementsObjectStore` | 126 376 states |
| `hybrid_progress` | 1 key, 2 handles, 1 reference, threshold 1, no symmetry | `PutReturns`, `LifetimeEnds`, `GetLockFree` | 28 493 states |
| `slot_table` | 3 threads, 1 walker, chunks of 2, at most 2 chunks | `SInv`, `ExclusiveSlots`, `ScanComplete` | 1.2 million states |
| `slot_table_garbage` | the same | `GarbageAdoptable`, violated | finding |
| `ebr_safety` | `GraceSpec`, 2 threads and slots, 1 key, 3 handles, 1 reference, batch 1, epochs up to 3, symmetry | `IInv`, `NoUseAfterFree`, `EpochLag`, `RefcountExact`, `ListSorted`, `NothingLeaked`, `ImplementsObjectStore`, `ImplementsGracePeriod` | 329 142 states |
| `ebr_stale_entry` | the same with `Spec` | `NoUseAfterFree`, violated | finding |
| `ebr_progress` | 2 handles, epochs up to 1, no symmetry | `CallsReturn` | 27 355 states |
| `lock_store` | 2 threads, 3 keys of which two share a lock, 3 handles, 2 references | `IInv`, `RefcountExact`, `NoUseAfterFree`, `ImplementsObjectStore`, `WaitsForOthersOnly` | 115 732 states |
| `hash_table` | 2 threads, 2 keys, 3 handles, tables of 1, 2 and 4 buckets, chunks of 1, 4 shards, no symmetry | `IInv`, `OneNodePerKey`, `MigrationExact`, `CountsNodes`, `PutsLand`, `GetsFresh`, `CallsReturn` | 260 705 states |
| `resize_test_miss` | the same with `FrozenIsMiss`, 1 shard, and the history of `MCResizeTest` | `StableKeyFound`, violated | finding |
| `table_store` | `SettledSpec`, 2 threads, 2 keys, 2 handles, tables of 1, 2 and 4 buckets, both stores, symmetry | `SInv`, `NoUseAfterFree`, `TablesSafe`, `RefcountExact`, `NothingLeaked`, `ImplementsObjectStore` | 1 046 089 states |
| `hp_frozen_handle` | `SSpec`, 2 threads, 1 key, 3 handles, tables of 1 and 2 buckets | `NoUseAfterFree`, violated | finding |

`IInv` of `HybridStore`, `EbrStore`, `LockStore` and `HashTable` and `SInv` of `SlotTable` and
`TableStore` begin with the module's type invariant, which is therefore not checked a second time.

What the bounds must allow. A use after free needs a getter and a thread that
replaces and scans, and a third handle so that the freed address is still in use
elsewhere or can be allocated again. Two threads and slots give every
pair of positions, including a slot that changes hands while a scan is under way:
a thread exits, the other adopts its orphans. Threshold 2 makes the difference
between "retired" and "scanned" visible and lets a batch be adopted partly
before a scan starts. Two keys
let one handle be in the map while another is replaced; two references let
one be moved onto another that holds the same or a different handle. The code
takes 256 for the threshold; the theorems hold for every value.

`slot_table` needs two chunks (a push while others append), two slots in a chunk (an
index that becomes stale) and three threads (one stalled in `append_new`, two that
take and release slots around it). `MaxChunks` is the only bound that stops the
model: the run allows deadlock because a thread that would push a third chunk has no
step.

`GarbageAdoptable` states the comment in `CMakeLists.txt:108-110`, "memory is not
leaked indefinitely (new threads will reclaim old threads' memory)". TLC finds a
behaviour of 15 states: one thread reads `used = i` in `append_new`; another
appends at `i`, works, exits with garbage and releases the slot; the first
then stores `active = true` there (slot_table.h:80), its compare-exchange fails
and it goes on to index `i + 1`. Nobody owns slot `i`, and `acquire` will never offer
it. The hazard domain frees what is in it only when the host destroys the domain.
Safety is not affected: `ExclusiveSlots` and `ScanComplete` hold in the same model.

`ebr_safety` needs one key, on which a get and a put can meet; three handles, one in
the table, one retired and one on its way in; and epochs up to 3, because a cutoff
frees nothing below 2 and the epoch must be able to advance past it. `MaxEpoch` ends the
model: it stops new calls and new threads only, those under way finish, so the epoch
itself is bounded by what they can still do. The code scans at 256 entries and at
a thread's exit; batch 1 scans after every replacement. `GraceSpec`, which is `TimelySpec` with the
history of `EbrGrace`, admits the behaviours in which no announcement is stale. A thread that has read an epoch and let it pass has
no step there, which is why that run does not check deadlock; the other runs of the
module do.

`ebr_stale_entry` drops the restriction, and TLC finds a use after free in 42 states.
`enter` reads `epoch_` (ebr.cpp:37) and announces it in a second step (39). A putter is
delayed in between while the other thread's scans take the epoch from 0 to 2. It
announces 0, replaces a handle which a get that has announced 2 has just read, and
stamps it with its own 0 (48). Its scan skips its own slot, finds nobody below 2,
takes 2 for the cutoff and drops the handle at once, as 0 + 1 < 2. The get counts a
handle that is gone. The report of the project (usenix2019_v3.1.tex:383-392) promises that
reclamation is deferred until no reader can hold a stale reference. Stamping with
the epoch at the time of `retire`, or reading the epoch again after announcing it
and repeating if it has changed, would make every behaviour timely in the sense needed.

In `lock_store`, two keys that share a lock exercise contention, and the third
shows that the other lock is independent. The behaviours that leave the third key alone are
those of `spinlock_store`.

`hash_table` starts with one bucket, so that the first insertion triggers a resize and the
second, in the successor, another one. The keys share a bucket in the first two tables and not
in the third: a chain of two nodes is migrated, and one is split. Chunks of one bucket let
two threads migrate the two buckets of the second table in parallel. With four shards the
keys count in the first and the third, so that a pass over the shards meets puts and helpers
that count behind it and ahead of it: `CountsNodes` says that whatever sum such a pass arrives at, no table is
resized before it is full, and that the copies are all counted when a migration is over. A put whose
shard is below its share returns without a sum; that path is taken in `table_store`, which has one shard. The third handle replaces one that is being migrated. Each handle is put once, which
bounds the puts; gets are unlimited. `LastTableSuffices` keeps the last table from filling up.

`resize_test_miss` takes the get of `ebr_store.cpp` and states what the readers of
`tests/resize.cpp:50-51` assert (`auto h = sas::get<int>("stable_key"); assert(h);`): a get
that begins when a put of its key has returned, and no other put of the key is under way, finds
a handle. `present` is a history variable that says so of the get under way. TLC finds a behaviour of 40
states. A put of the first key fills the table of one bucket, triggers the first resize, and
returns. A get of that key begins, helps to complete the resize, and finds the key's node in the second
table, which has no successor yet. A put of the second key fills that table and triggers the second
resize; the next call helps, freezes the bucket and then the handle. The get loads the frozen handle and, by the
condition at ebr_store.cpp:73, returns `nullptr`, although nobody has put its key since. `put` starts again in
this situation, and so could get.

`table_store` has two resizes: from one bucket, which both keys share, to two, one for each
key, and from two to four. The table that a helper fills is therefore itself left and freed
while the store runs, and a thread may still be in the first table when the root is the third
and the second has been freed. Two handles are enough since a freed address can be used
again: neither gets nor puts are bounded, except that a put needs a free address.
The run covers both stores. What it shows of the epoch store holds under the contract of `GracePeriod`, that
is, by `EbrGrace`, in the timely behaviours of `ebr.cpp`; in the others `ebr_stale_entry` shows a use after free, of a handle, and
the tables are retired through the same lists. It does not check deadlock:
`SettledSpec` has no step for a thread whose only step would take a frozen handle. What it shows of tables is
mostly a matter of order: that a helper may stay in a table long after it was
retired, that only one of the helpers retires it, that the successor needs no
hazard while it is being filled (the chunk that the helper took holds up the resize), and that the
teardown in the middle of a migration drops the handles of the current table only.

Besides stale announcements, `SettledSpec` leaves out two things the code does not exclude. The one for the epoch
store is `resize_test_miss`. The other is the finding of `hp_frozen_handle`, a use
after free in the hazard pointer store, 41 states long. A get has found the node in the
old table when a helper freezes the node's handle and copies it. The get loads the
frozen handle (hazard.h:73). The migration is completed, a put replaces
the handle in the new table and retires it, and its scan reads the get's hazard, which is
still empty. Now the get publishes its hazard and validates: but the node is
frozen and will never change, so the comparison at hazard.h:81 says yes. The scan drops the
handle, and the get counts it (hp_store.cpp:73). The report (usenix2019_v3.1.tex:402-404)
says of the scheme that "a reclaimer scans these slots before freeing and defers
reclamation of any pointer still hazardous to some thread". A get that finds the handle
frozen would have to start again from `table_`, as put does; a handle that is validated
unfrozen, or frozen while its table is still current, is safe, which is what
`table_store` shows and `TableStore_proofs` proves.

### Fairness

`FairSpec` of `HybridStore` assumes weak fairness of `Continue(t)`, the steps
inside an operation, for every thread: a thread in an operation waits for no
lock or condition, so a scheduler that runs every runnable thread gives it
steps. What a client chooses (to call, to exit, to close a reference) is not fair.
`GetLockFree` makes no assumption on the flat map beyond that. `EbrStore` assumes
the same; there `CallsReturn` also owes something to the bound on the calls: a put's
compare-exchange fails only because another put has succeeded, and the model has
finitely many. The same holds of `HashTable`: a helper that was given a chunk is a running thread and
finishes it, so whoever waits for the new table gets it. That a stalled helper stops everybody
else is what weak fairness of its own steps excludes. So `CallsReturn` of both modules is a statement about runs with finitely many
puts: with puts that never end, a put or a get of `HashTable` may retry for ever. In `LockStore` weak fairness of `Acquire` is all that a test-and-set loop
gives: a try succeeds if the lock stays clear, but nothing guarantees a try while it is
clear for a moment. So a call may starve, and `WaitsForOthersOnly` says that it
does so only because others take the same lock again and again: nobody waits for a
thread that has returned, for the holder of another lock, or in a circle.

## Proofs

TLAPS checks every proof from the definitions, for all values of the constants.
Assumed are only the named `ASSUME`s: the distinguished values `NULL` and
`Unborn` are not handles, slots, references or keys, and `INACTIVE` is not an epoch; `Refs` is finite (a count cannot
be an infinite cardinality), and so are the slots of `HybridStore`, of which there is at least
one, and the threads of `HashTable`; no handle is the address of a table (`EntryAssumption` of `TableStore`);
`SCAN_THRESHOLD`, `RETIRE_BATCH`, `ChunkSize` and `MaxChunks` are
positive. Of the tables, `TableAssumption` says that each has twice the buckets of
the one before, and `LastTableSuffices` that the last one is larger than the number of keys. TLC evaluates them on every run.

- `ObjectStore_proofs!NeverDangling`: `TypeOK /\ NoDangling` is inductive: whatever
  implements the abstract store never lets a key or a reference lead to a destroyed handle. It has
  no run of its own; the runs that check `ImplementsObjectStore` carry it over to the backends. It assumes
  `DistinguishedValues`, that `NULL` is no handle.
- `HybridStore_proofs!Inductive`: `Spec => []IInv`. `NoUseAfterFree` is not
  inductive: a get at `incref` is safe only because its hazard was published before
  the handle was found still in the map. `HazardSeen` says what that gives: if
  the handle has been retired since, the retiring thread's scan has yet to visit the
  getter's slot, or has seen the hazard. It needs `SlotsOwnedOnce` (the hazard is not
  overwritten by another owner of the slot), `ThreadLocal` (the hazard equals
  `ptr` from publication on), `OwnedOnce` (the handle is retired by one thread only)
  and `CountExact` (the store's own reference keeps the count positive until
  the owner drops it). `DestReserved` keeps the reference a get will
  return from being changed by others. `TypeCorrect`, `MemorySafe`,
  `CountsExact` and `HazardsSeen` follow from `IInv`. `NoLeaks` adds `Gone`: once the store is
  reset the map is empty, and after the domain no slot has orphans, since no thread takes a step
  after the join; then nothing is owned and a count is the number of client references.
  `GarbageBounded` needs three more conjuncts. Only a get announces a hazard (`Withdrawn`), so that a
  scan, made by a thread outside of a get, collects at most one from each slot it visits other than its own
  (`GarbageCounted`) and keeps no more than that. A thread takes up work or leaves only when it has
  adopted all orphans of its slot (`OrphansAdopted`), so that a slot is released with what one scan
  has kept and no more: garbage is not passed on and added to from owner to owner.
- `HybridStore_proofs!Refinement`: `Spec => ImplementsObjectStore`. A put takes
  effect at its exchange or insertion. A get takes effect at the validation that
  succeeds: the mapping already shows the reference at `incref` (`RefBar`), before the
  counter has been incremented, and `AliveBar` leaves out a handle that a put has
  allocated and not published. Every `drop_handle` that reaches zero maps to a
  `Collects`, because `IInv` shows that nothing reaches the handle.
- `SlotTable_proofs`: `SInv` adds to `ExclusiveSlots` what the program counters say
  of the table (`Positions`) and what a walk has still to visit (`WalkInv`). The
  interesting conjunct is the one on `bump`: as long as `used` still equals the index,
  the slot is marked active, so no `acquire` can claim it between the bump and the
  return.

- `EbrStore_proofs`: `Inductive` is `Spec => [](~stale => IInv)`, and `MemorySafe`,
  `EpochHeld` and `CountsExact` follow. The argument: let a thread be inside with
  announcement `a`. The epoch was `a` when it announced; a scan advances it from `e` only
  with a cutoff of `e`, and no cutoff lies beyond `a` unless the scan has yet to
  visit the thread's slot (`CutoffBehind`, which needs that the hint too never passes a
  thread inside). So the epoch is at most `a + 1` (`EpochLag`), whoever replaces
  what the thread has read stamps it with at least `a - 1` (`Guarded`), and a scan,
  whose cutoff is at most `a`, frees only stamps below `a - 1`. `CutoffOfScan` carries the
  cutoff from the walk to the advance; `SlotsOwned`, `OwnedOnce`, `DestReserved` and
  `ThreadLocal` do what their namesakes do in `HybridStore`. Until the first stale
  announcement nothing else is assumed: scans may be interrupted for as long as one likes
  and use an epoch, a hint and a cutoff that are long out of date.
  `ListsSorted` needs no such condition: `Spec => [](TypeOK /\ ListSorted)`. `NoLeaks` is
  proved as for the hybrid store.
  `Refinement` is `TimelySpec => ImplementsObjectStore`: a get takes effect at `GetLoad`, where the
  mapping already shows the reference, and a put at the compare-exchange that succeeds. That a
  `Reclaim` may drop the last reference needs `RefcountExact`, and that nobody is about to count it, `Guarded`.
- `EbrGrace_proofs!EpochsGiveGrace`: `GraceSpec => ImplementsGracePeriod`. `WaitInv` adds to
  `IInv` that an entry waits for threads inside only, and that none of them has announced more
  than one epoch beyond the entry's stamp. A put establishes it because of `EpochLag`
  (`StampClose`), and a thread that stays inside keeps its announcement (`InsideFrame`). An entry that a
  scan lets go is two epochs older than its cutoff, which by `CutoffBehind` no thread inside has
  fallen behind: so the entry waits for nobody (`ReclaimFrees`). Five kinds of steps are visible
  to `GracePeriod` (`Cases`); all others stutter.

- `LockStore_proofs`: what a thread between the lock and the unlock knows is still so
  because nobody else is there for the same lock (`Locked`); with `DestReserved` and `OwnedOnce` this makes
  `RefcountExact` inductive. `Refinement` is `Spec => ImplementsObjectStore`: a put takes effect when it stores
  the handle, a get when it misses or counts, all of them with the lock held.
- `HashTable_proofs`: `MigrationExact` is far from inductive. It holds at the switch because each bucket
  has been moved, which nobody looks at: the code compares two counters. `Chunks` and
  `DoneExact` connect them: the chunks of the threads at work are disjoint parts of what the cursor has
  passed, and `done` is the number of buckets that it has passed and that are in nobody's chunk. So `done` reaches the
  capacity only when nobody is at work any more. `Migrating` says for each key what its
  bucket's state means: either its turn is still to come, and then the successor lacks it, or its node is
  sealed, if there is one, and both tables agree until the switch. A put succeeds on an unsealed node or
  an unfrozen bucket only, hence on a key whose turn is still to come, hence in the current table
  (`PutsStay`). `Chains` and `CountsNodes` keep a key from having two nodes and the last table from
  filling up. The sum that a put has gathered so far is at most what the shards it has read hold now (`Part`), since shards
  only grow, and they never hold more than there are nodes. `Windows` is what a get can count on, and `GetsFind` follows for the get that looks through
  the frozen bit, that is, of `hp_store.cpp`; for that of `ebr_store.cpp` it is false
  (`resize_test_miss`).

- `TableStore_proofs`: everything is proved of `SettledSpec`, that is, as long as no get takes a
  handle that was frozen in a table that has been left: without that, `hp_frozen_handle` refutes
  `NoUseAfterFree`. For the hazard pointer store nothing else is assumed of the behaviours. The epoch
  store has one more hypothesis, built into `Freeable`: its domain keeps the contract of `GracePeriod`. By
  `EpochsGiveGrace` it does in timely behaviours, and `ebr_stale_entry` shows that it does not in all. So for the epoch
  store each of these theorems says: as long as no announcement is stale. The number of resizes, threads,
  keys and handles, and who scans when, are arbitrary.
  Each step of a store is a step of `HashTable` or leaves the table alone (`StoreSteps`), and
  the lemmas of `HashTable_proofs` are stated for such steps, so its `IInv` holds here without a second proof.
  `SInv` adds what is around the table. `OwnedOnce` and `RefcountExact` need each other: a scan
  may drop a handle because the list was its only owner. A handle that two tables hold during a migration has one
  owner, the key, because `IInv` says that values survive the switch. `TablesOnce` says when a table has been
  given up and by whom. `HandlesGuarded` and `TablesGuarded` carry the protection
  (`Protects`): for hazards, that a scan under way has yet to visit the entry or has seen what
  stands there; for epochs, what `GracePeriod` promises. A get that validates its hazard finds the handle
  still owned by its key (`CurrentHandle`, where the hypothesis about frozen handles is used); a call
  that takes its table finds it current, hence not retired by anybody. `Unseen` says
  that a put's handle is unknown to others until it is handed over, which `AliveBar` needs.
  `StoreMemorySafe`, `StoreCounts`, `TablesStaySafe` and `NothingStays` follow.
  `StoreRefinement` is `SettledSpec => ImplementsObjectStore`: a get takes effect when it reads the handle,
  or finds no node in a bucket that is not frozen and is therefore one of the current table (`Absent`); a put with
  its exchange; and all of a migration, which copies handles into another table and makes it the
  current one, is a stutter.

Only model-checked: all liveness properties, `WaitsForOthersOnly` among them (out of the
prover's reach); the four violations are shown by TLC alone. No property rests on induction over data and no
module declares a recursive operator.

## Plan

1. **Done**: `ObjectStore`; `HybridStore` with its safety and its refinement proved;
   `SlotTable` with its safety proved; `LockStore`; `EbrStore` without resizes, with
   its safety proved; `HashTable` without reclamation.
2. **Done**: reclamation in the table stores (`TableStore`), for hazards and, through
   `GracePeriod` and `EbrGrace`, for epochs.
3. Destructors that call the store: a stack of calls per thread.
4. **Done**: theorems about `HashTable` for any number of tables, threads and keys, the bound on the garbage of
   the hybrid store, the invariants of `LockStore`, and the refinement of `ObjectStore` by `LockStore`
   and by `EbrStore`.
5. **Done**: theorems about `TableStore`, its invariants on top of those of `HashTable` and its refinement.
6. `TablesSafe` and the single freeing of tables without the hypothesis of `SettledSpec`: what a get
   does with a frozen handle should not matter to a table. It takes a `STypeOK` that says nothing of the counts.

## Not modelled

Loading and unloading of client libraries, output, allocation failure, key hashing
(xxHash) and the benchmark programs, which keep no state the stores depend on. The
bit layout of tagged pointers matters only as a flag. The pools of `memory_pool.h` are
thread-local stacks of free objects that no other thread's step touches; which address
an allocation returns is left open in the models, so a pool could only leave out behaviours.
Memory orders weaker than sequential consistency are outside of what TLC explores.
