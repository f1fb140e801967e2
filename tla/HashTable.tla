----------------------------- MODULE HashTable -----------------------------
(***************************************************************************)
(* The resizable hash table under the hazard pointer and the epoch store:  *)
(* hash_table.h, the migration in common.h, and the paths of get and put   *)
(* through the table, which hp_store.cpp and ebr_store.cpp share.          *)
(*                                                                         *)
(* A table that fills up gets a successor of twice its capacity.  Every    *)
(* call that finds one migrates a chunk of buckets: it freezes the bucket  *)
(* and each of its nodes and links copies into the successor.  Whoever     *)
(* finds all chunks done makes the successor the current table.            *)
(*                                                                         *)
(* One action is one access to memory that another thread can write; a     *)
(* compare-exchange loop that nobody can make fail twice with the same     *)
(* outcome is one action.  What is reclaimed when is not modelled here:    *)
(* tables and handles are never reused.                                    *)
(***************************************************************************)
EXTENDS Naturals, FiniteSets, Sequences

CONSTANTS
    Keys,          \* keys of the store
    Handles,       \* handles; each is put once, which bounds the model
    Threads,       \* client threads
    MaxTables,     \* tables; the last is never full
    Capacity,      \* number of buckets of each table
    HashOf,        \* hash of each key
    CHUNK,         \* buckets that one call migrates
    NUM_SHARDS,    \* counters of each table
    FrozenIsMiss,  \* how get takes a frozen handle: TRUE in ebr_store.cpp
    NULL           \* nullptr

Tables == 1..MaxTables

ASSUME TableAssumption ==
    /\ MaxTables \in Nat \ {0}
    /\ Capacity \in [Tables -> Nat \ {0}]
    /\ \A i \in Tables : i + 1 \in Tables => Capacity[i + 1] = 2 * Capacity[i]
    /\ HashOf \in [Keys -> Nat]
    /\ CHUNK \in Nat \ {0}
    /\ NUM_SHARDS \in Nat \ {0}
    /\ FrozenIsMiss \in BOOLEAN
ASSUME DistinguishedValues == NULL \notin Handles \union Keys
ASSUME LastTableSuffices == IsFiniteSet(Keys) /\ Cardinality(Keys) < Capacity[MaxTables]
ASSUME FiniteThreads == IsFiniteSet(Threads)

VARIABLES
    root,      \* table_
    resizing,  \* next_table is set; the successor of table i is table i + 1
    cursor,    \* migration_cursor, up to the capacity
    done,      \* migration_done
    count,     \* the shards of the number of nodes
    chain,     \* the keys of the nodes in each bucket, latest first
    frozen,    \* the frozen bit of each bucket
    handle,    \* the handle in each table's node of a key, NULL without a node
    sealed,    \* the frozen bit of that handle
    fresh,     \* handles that have not been put yet
    pc,        \* where each thread is
    key,       \* argument of the call under way
    new,       \* put: new_handle;  NULL in a get
    tbl,       \* table
    head,      \* put: the chain whose head it has read
    old,       \* put: old_handle
    from, upto, at,  \* bounds of the chunk, and its bucket under migration
    todo,      \* nodes of that bucket not yet migrated
    shard, total,    \* put: the shard to be read next, and the sum so far
    result,    \* what the thread's last get returned
    window     \* history: the values the key has had since the get began

nodes == <<chain, frozen, handle, sealed>>
migration == <<resizing, cursor, done, count>>
args == <<key, new, tbl>>
chunk == <<from, upto, at, todo>>
sum == <<shard, total>>
steps == <<root, migration, nodes, pc, args, head, old, chunk, sum, window>>
vars == <<root, migration, nodes, fresh, pc, args, head, old, chunk, sum, result, window>>

Buckets == UNION {0..(Capacity[i] - 1) : i \in Tables}
Index(i, k) == HashOf[k] % Capacity[i]
Shards == 0..(NUM_SHARDS - 1)
Shard(k) == HashOf[k] % NUM_SHARDS
Elements(s) == {s[i] : i \in 1..Len(s)}

\* What the store holds for a key: the table that table_ leads to decides.
Value(k) == handle[root][k]

Init ==
    /\ root = 1
    /\ resizing = [i \in Tables |-> FALSE]
    /\ cursor = [i \in Tables |-> 0]
    /\ done = [i \in Tables |-> 0]
    /\ count = [i \in Tables |-> [s \in Shards |-> 0]]
    /\ chain = [i \in Tables |-> [b \in Buckets |-> <<>>]]
    /\ frozen = [i \in Tables |-> [b \in Buckets |-> FALSE]]
    /\ handle = [i \in Tables |-> [k \in Keys |-> NULL]]
    /\ sealed = [i \in Tables |-> [k \in Keys |-> FALSE]]
    /\ fresh = Handles
    /\ pc = [t \in Threads |-> "idle"]
    /\ key = [t \in Threads |-> NULL]
    /\ new = [t \in Threads |-> NULL]
    /\ tbl = [t \in Threads |-> 0]
    /\ head = [t \in Threads |-> <<>>]
    /\ old = [t \in Threads |-> NULL]
    /\ at = [t \in Threads |-> 0]
    /\ from = [t \in Threads |-> 0]
    /\ upto = [t \in Threads |-> 0]
    /\ todo = [t \in Threads |-> <<>>]
    /\ shard = [t \in Threads |-> 0]
    /\ total = [t \in Threads |-> 0]
    /\ result = [t \in Threads |-> NULL]
    /\ window = [t \in Threads |-> {}]

Goto(t, label) == pc' = [pc EXCEPT ![t] = label]

\* A call returns; its locals go out of scope.
Return(t) ==
    /\ Goto(t, "idle")
    /\ key' = [key EXCEPT ![t] = NULL]
    /\ new' = [new EXCEPT ![t] = NULL]
    /\ tbl' = [tbl EXCEPT ![t] = 0]

\* A put gives key k the handle h: the gets under way may see it from now on.
Lands(k, h) ==
    window' = [u \in Threads |-> IF key[u] = k /\ window[u] # {} THEN window[u] \union {h}
                                 ELSE window[u]]

(***************************************************************************)
(* Calls, and the way to the current table                                 *)
(***************************************************************************)

GetCall(t) ==
    /\ pc[t] = "idle"
    /\ \E k \in Keys :
         /\ key' = [key EXCEPT ![t] = k]
         /\ window' = [window EXCEPT ![t] = {Value(k)}]
    /\ Goto(t, "table")
    /\ result' = [result EXCEPT ![t] = NULL]
    /\ UNCHANGED <<root, migration, nodes, fresh, new, tbl, head, old, chunk, sum>>

\* make_handle gives the put the handle h.
PutWith(t, h) ==
    /\ pc[t] = "idle"
    /\ new' = [new EXCEPT ![t] = h]
    /\ fresh' = fresh \ {h}
    /\ \E k \in Keys : key' = [key EXCEPT ![t] = k]
    /\ Goto(t, "table")
    /\ result' = [result EXCEPT ![t] = NULL]
    /\ UNCHANGED <<root, migration, nodes, tbl, head, old, chunk, sum, window>>

\* Handles that were not put yet are interchangeable.
PutCall(t) == fresh # {} /\ PutWith(t, CHOOSE h \in fresh : TRUE)

LoadTable(t) ==
    /\ pc[t] = "table"
    /\ tbl' = [tbl EXCEPT ![t] = root]
    /\ Goto(t, "next")
    /\ UNCHANGED <<root, migration, nodes, fresh, key, new, head, old, chunk, sum, result,
                   window>>

\* A table with a successor is no longer used but migrated.
LoadNext(t) ==
    /\ pc[t] = "next"
    /\ Goto(t, IF resizing[tbl[t]] THEN "help" ELSE "bucket")
    /\ UNCHANGED <<root, migration, nodes, fresh, args, head, old, chunk, sum, result, window>>

(***************************************************************************)
(* common.h: migration                                                     *)
(***************************************************************************)

Lesser(m, n) == IF m <= n THEN m ELSE n

\* The call gets the chunk that begins at the cursor, if there is one, and
\* leaves the cursor at n.
TakeChunk(t, n) ==
    /\ pc[t] = "help"
    /\ cursor' = [cursor EXCEPT ![tbl[t]] = n]
    /\ IF cursor[tbl[t]] < Capacity[tbl[t]]
       THEN /\ from' = [from EXCEPT ![t] = cursor[tbl[t]]]
            /\ at' = [at EXCEPT ![t] = cursor[tbl[t]]]
            /\ upto' = [upto EXCEPT ![t] = Lesser(cursor[tbl[t]] + CHUNK, Capacity[tbl[t]])]
            /\ Goto(t, "freeze")
       ELSE Goto(t, "complete") /\ UNCHANGED <<from, at, upto>>
    /\ UNCHANGED <<root, resizing, done, count, nodes, fresh, args, head, old, todo,
                   sum, result, window>>

\* Mutant: the cursor is read and not moved.
HelpSharing(t) == TakeChunk(t, cursor[tbl[t]])

\* help_migrate_one.  Beyond the capacity the value of the cursor does not
\* matter.
Help(t) == TakeChunk(t, Lesser(cursor[tbl[t]] + CHUNK, Capacity[tbl[t]]))

\* The bucket is finished; the next one, or the end of the chunk, follows.
NextBucket(t) ==
    /\ at' = [at EXCEPT ![t] = @ + 1]
    /\ Goto(t, IF at[t] + 1 < upto[t] THEN "freeze" ELSE "done")

\* migrate_bucket sets the frozen bit of the bucket's head.
FreezeBucket(t) ==
    /\ pc[t] = "freeze"
    /\ frozen' = [frozen EXCEPT ![tbl[t]][at[t]] = TRUE]
    /\ todo' = [todo EXCEPT ![t] = chain[tbl[t]][at[t]]]
    /\ IF chain[tbl[t]][at[t]] = <<>>
       THEN NextBucket(t)
       ELSE Goto(t, "seal") /\ UNCHANGED at
    /\ UNCHANGED <<root, migration, chain, handle, sealed, fresh, args, head, old, from,
                   upto, sum, result, window>>

\* Mutant: the node's handle is read without setting its frozen bit.
FreezeHandleReading(t) ==
    /\ pc[t] = "seal"
    /\ Goto(t, "copy")
    /\ UNCHANGED <<root, migration, nodes, fresh, args, head, old, chunk, sum, result, window>>

\* The frozen bit of a node's handle is set; it keeps its value from now on.
FreezeHandle(t) ==
    /\ pc[t] = "seal"
    /\ sealed' = [sealed EXCEPT ![tbl[t]][Head(todo[t])] = TRUE]
    /\ Goto(t, "copy")
    /\ UNCHANGED <<root, migration, chain, frozen, handle, fresh, args, head, old, chunk, sum,
                   result, window>>

\* A copy of the node is linked into the successor.
Copy(t) ==
    /\ pc[t] = "copy"
    /\ LET next == tbl[t] + 1
           k == Head(todo[t])
       IN /\ handle' = [handle EXCEPT ![next][k] = handle[tbl[t]][k]]
          /\ chain' = [chain EXCEPT ![next][Index(next, k)] = <<k>> \o @]
    /\ Goto(t, "tally")
    /\ UNCHANGED <<root, migration, frozen, sealed, fresh, args, head, old, chunk, sum,
                   result, window>>

\* The copy is counted in table i; the nodes in rest are left to do.
CountIn(t, i, rest) ==
    /\ pc[t] = "tally"
    /\ count' = [count EXCEPT ![i][Shard(Head(todo[t]))] = @ + 1]
    /\ todo' = [todo EXCEPT ![t] = rest]
    /\ IF rest = <<>>
       THEN NextBucket(t)
       ELSE Goto(t, "seal") /\ UNCHANGED at
    /\ UNCHANGED <<root, resizing, cursor, done, nodes, fresh, args, head, old,
                   from, upto, sum, result, window>>

\* Mutant: only the first node of a bucket is migrated.
CountCopyFirst(t) == CountIn(t, tbl[t] + 1, <<>>)

\* Mutant: the copy is counted in the table that is being left.
CountCopyInOld(t) == CountIn(t, tbl[t], Tail(todo[t]))

CountCopy(t) == CountIn(t, tbl[t] + 1, Tail(todo[t]))

\* The chunk is over; its bounds go out of scope.
LeaveChunk(t) ==
    /\ from' = [from EXCEPT ![t] = 0]
    /\ upto' = [upto EXCEPT ![t] = 0]
    /\ at' = [at EXCEPT ![t] = 0]
    /\ Goto(t, "complete")

\* Mutant: the finished chunk is not counted.
ChunkDoneForgetting(t) ==
    /\ pc[t] = "done"
    /\ LeaveChunk(t)
    /\ UNCHANGED <<root, migration, nodes, fresh, args, head, old, todo, sum, result, window>>

\* The chunk is added to migration_done.
ChunkDone(t) ==
    /\ pc[t] = "done"
    /\ done' = [done EXCEPT ![tbl[t]] = @ + (upto[t] - from[t])]
    /\ LeaveChunk(t)
    /\ UNCHANGED <<root, resizing, cursor, count, nodes, fresh, args, head, old, todo,
                   sum, result, window>>

\* If all chunks are ready, the successor takes over; of the helpers that see
\* it one makes the exchange.  The call starts again.
SwitchRoot(t, ready) ==
    /\ pc[t] = "complete"
    /\ root' = IF ready >= Capacity[tbl[t]] /\ root = tbl[t] THEN tbl[t] + 1 ELSE root
    /\ Goto(t, "table")
    /\ UNCHANGED <<migration, nodes, fresh, args, head, old, chunk, sum, result, window>>

\* Mutant: the successor takes over when the last chunk has been taken.
TryCompleteEarly(t) == SwitchRoot(t, cursor[tbl[t]])

\* try_complete_resize
TryComplete(t) == SwitchRoot(t, done[tbl[t]])

(***************************************************************************)
(* hp_store.cpp, ebr_store.cpp: get                                        *)
(***************************************************************************)

\* The bucket's head is read.  Links never change, so the walk along the chain
\* finds what was linked then.  A frozen bucket sends the call back.
GetBucket(t) ==
    /\ pc[t] = "bucket"
    /\ new[t] = NULL
    /\ LET b == Index(tbl[t], key[t])
           listed == key[t] \in Elements(chain[tbl[t]][b])
       IN \/ /\ frozen[tbl[t]][b]
             /\ Goto(t, "table")
             /\ UNCHANGED <<key, new, tbl, result, window>>
          \/ /\ ~frozen[tbl[t]][b] /\ listed
             /\ Goto(t, "load")
             /\ UNCHANGED <<key, new, tbl, result, window>>
          \/ /\ ~frozen[tbl[t]][b] /\ ~listed
             /\ Return(t)
             /\ result' = [result EXCEPT ![t] = NULL]
             /\ window' = [window EXCEPT ![t] = {}]
    /\ UNCHANGED <<root, migration, nodes, fresh, head, old, chunk, sum>>

\* The node's handle is read.  A get that minds the frozen bit takes a frozen
\* handle for an absent one.
ReadHandle(t, minds) ==
    /\ pc[t] = "load"
    /\ result' = [result EXCEPT ![t] = IF minds /\ sealed[tbl[t]][key[t]] THEN NULL
                                       ELSE handle[tbl[t]][key[t]]]
    /\ window' = [window EXCEPT ![t] = {}]
    /\ Return(t)
    /\ UNCHANGED <<root, migration, nodes, fresh, head, old, chunk, sum>>

\* By one load in ebr_store.cpp, and in hp_store.cpp by the last load of
\* protect, which looks through the frozen bit.
GetLoad(t) == ReadHandle(t, FrozenIsMiss)

(***************************************************************************)
(* hp_store.cpp, ebr_store.cpp: put                                        *)
(***************************************************************************)

PutBucket(t) ==
    /\ pc[t] = "bucket"
    /\ new[t] # NULL
    /\ LET b == Index(tbl[t], key[t])
           seen == chain[tbl[t]][b]
       IN \/ /\ frozen[tbl[t]][b]
             /\ Goto(t, "table")
             /\ UNCHANGED head
          \/ /\ ~frozen[tbl[t]][b] /\ key[t] \in Elements(seen)
             /\ Goto(t, "old")
             /\ UNCHANGED head
          \/ /\ ~frozen[tbl[t]][b] /\ key[t] \notin Elements(seen)
             /\ Goto(t, "insert")
             /\ head' = [head EXCEPT ![t] = seen]
    /\ UNCHANGED <<root, migration, nodes, fresh, args, old, chunk, sum, result, window>>

\* The handle is read, or handed back by a compare-exchange that failed.
SeeOld(t) ==
    IF sealed[tbl[t]][key[t]]
    THEN /\ Goto(t, "table")
         /\ old' = [old EXCEPT ![t] = NULL]
    ELSE /\ Goto(t, "swap")
         /\ old' = [old EXCEPT ![t] = handle[tbl[t]][key[t]]]

PutOld(t) ==
    /\ pc[t] = "old"
    /\ SeeOld(t)
    /\ UNCHANGED <<root, migration, nodes, fresh, args, head, chunk, sum, result, window>>

\* compare_exchange on the handle succeeds.
PutReplace(t) ==
    /\ pc[t] = "swap"
    /\ ~sealed[tbl[t]][key[t]]
    /\ handle[tbl[t]][key[t]] = old[t]
    /\ handle' = [handle EXCEPT ![tbl[t]][key[t]] = new[t]]
    /\ old' = [old EXCEPT ![t] = NULL]
    /\ Lands(key[t], new[t])
    /\ Return(t)
    /\ UNCHANGED <<root, migration, chain, frozen, sealed, fresh, head, chunk, sum, result>>

PutReplaceFails(t) ==
    /\ pc[t] = "swap"
    /\ sealed[tbl[t]][key[t]] \/ handle[tbl[t]][key[t]] # old[t]
    /\ SeeOld(t)
    /\ UNCHANGED <<root, migration, nodes, fresh, args, head, chunk, sum, result, window>>

\* A node for the key is linked in front of the chain that was read.
LinkNode(t) ==
    /\ pc[t] = "insert"
    /\ LET b == Index(tbl[t], key[t])
       IN /\ ~frozen[tbl[t]][b]
          /\ chain' = [chain EXCEPT ![tbl[t]][b] = <<key[t]>> \o head[t]]
    /\ handle' = [handle EXCEPT ![tbl[t]][key[t]] = new[t]]
    /\ head' = [head EXCEPT ![t] = <<>>]
    /\ Lands(key[t], new[t])
    /\ Goto(t, "count")
    /\ UNCHANGED <<root, migration, frozen, sealed, fresh, args, old, chunk, sum, result>>

\* Mutant: the bucket's head is exchanged whatever it is now.
PutInsertBlindly(t) == LinkNode(t)

\* compare_exchange on the bucket succeeds: nothing was linked since.
PutInsert(t) ==
    /\ pc[t] = "insert"
    /\ chain[tbl[t]][Index(tbl[t], key[t])] = head[t]
    /\ LinkNode(t)

\* The new node is freed and the call starts again.
PutInsertFails(t) ==
    /\ pc[t] = "insert"
    /\ LET b == Index(tbl[t], key[t])
       IN frozen[tbl[t]][b] \/ chain[tbl[t]][b] # head[t]
    /\ head' = [head EXCEPT ![t] = <<>>]
    /\ Goto(t, "table")
    /\ UNCHANGED <<root, migration, nodes, fresh, args, old, chunk, sum, result, window>>

\* The insertion is counted in the shard of the key.  The shards are summed
\* up only if this one has its share of the capacity.
Count(t) ==
    /\ pc[t] = "count"
    /\ count' = [count EXCEPT ![tbl[t]][Shard(key[t])] = @ + 1]
    /\ IF count'[tbl[t]][Shard(key[t])] * NUM_SHARDS >= Capacity[tbl[t]]
       THEN Goto(t, "sum") /\ UNCHANGED args
       ELSE Return(t)
    /\ shard' = [shard EXCEPT ![t] = 0]
    /\ total' = [total EXCEPT ![t] = 0]
    /\ UNCHANGED <<root, resizing, cursor, done, nodes, fresh, head, old, chunk, result,
                   window>>

\* The next shard is added, while others go on counting.  After the last one
\* the sum decides whether the table is full.
Sum(t) ==
    /\ pc[t] = "sum"
    /\ LET n == shard[t] + 1
           sofar == total[t] + count[tbl[t]][shard[t]]
       IN \/ /\ n < NUM_SHARDS
             /\ shard' = [shard EXCEPT ![t] = n]
             /\ total' = [total EXCEPT ![t] = sofar]
             /\ UNCHANGED <<pc, args>>
          \/ /\ n = NUM_SHARDS
             /\ IF sofar >= Capacity[tbl[t]]
                THEN Goto(t, "trigger") /\ UNCHANGED args
                ELSE Return(t)
             /\ shard' = [shard EXCEPT ![t] = 0]
             /\ total' = [total EXCEPT ![t] = 0]
    /\ UNCHANGED <<root, migration, nodes, fresh, head, old, chunk, result, window>>

\* trigger_resize: one table becomes the successor, whoever else allocates one.
TriggerResize(t) ==
    /\ pc[t] = "trigger"
    /\ resizing' = [resizing EXCEPT ![tbl[t]] = TRUE]
    /\ Return(t)
    /\ UNCHANGED <<root, cursor, done, count, nodes, fresh, head, old, chunk, sum, result,
                   window>>

(***************************************************************************)
(* Specification                                                           *)
(***************************************************************************)

\* The steps of a call under way.
Continue(t) ==
    \/ LoadTable(t) \/ LoadNext(t)
    \/ Help(t) \/ FreezeBucket(t) \/ FreezeHandle(t) \/ Copy(t) \/ CountCopy(t)
    \/ ChunkDone(t) \/ TryComplete(t)
    \/ GetBucket(t) \/ GetLoad(t)
    \/ PutBucket(t) \/ PutOld(t) \/ PutReplace(t) \/ PutReplaceFails(t)
    \/ PutInsert(t) \/ PutInsertFails(t) \/ Count(t) \/ Sum(t) \/ TriggerResize(t)

Next == \E t \in Threads : Continue(t) \/ GetCall(t) \/ PutCall(t)

Spec == Init /\ [][Next]_vars

\* A thread inside a call is a running OS thread: nothing blocks it for ever.
FairSpec == Spec /\ \A t \in Threads : WF_vars(Continue(t))

(***************************************************************************)
(* Properties                                                              *)
(***************************************************************************)

PCs == {"idle", "table", "next", "help", "freeze", "seal", "copy", "tally", "done",
        "complete", "bucket", "load", "old", "swap", "insert", "count", "sum", "trigger"}

\* The shape of the state.
TypeOK ==
    /\ root \in Tables
    /\ resizing \in [Tables -> BOOLEAN]
    /\ cursor \in [Tables -> Nat] /\ done \in [Tables -> Nat]
    /\ count \in [Tables -> [Shards -> Nat]]
    /\ chain \in [Tables -> [Buckets -> Seq(Keys)]]
    /\ frozen \in [Tables -> [Buckets -> BOOLEAN]]
    /\ handle \in [Tables -> [Keys -> Handles \union {NULL}]]
    /\ sealed \in [Tables -> [Keys -> BOOLEAN]]
    /\ fresh \subseteq Handles
    /\ pc \in [Threads -> PCs]
    /\ key \in [Threads -> Keys \union {NULL}]
    /\ new \in [Threads -> Handles \union {NULL}]
    /\ tbl \in [Threads -> Tables \union {0}]
    /\ head \in [Threads -> Seq(Keys)] /\ todo \in [Threads -> Seq(Keys)]
    /\ old \in [Threads -> Handles \union {NULL}]
    /\ from \in [Threads -> Nat] /\ upto \in [Threads -> Nat] /\ at \in [Threads -> Nat]
    /\ shard \in [Threads -> Nat] /\ total \in [Threads -> Nat]
    /\ result \in [Threads -> Handles \union {NULL}]
    /\ window \in [Threads -> SUBSET (Handles \union {NULL})]

Nodes(i) == {k \in Keys : handle[i][k] # NULL}

\* Every key has one node at most in a table, in the bucket of its hash.
OneNodePerKey ==
    \A i \in Tables, b \in Buckets :
        /\ \A k \in Keys : k \in Elements(chain[i][b]) <=> k \in Nodes(i) /\ b = Index(i, k)
        /\ Cardinality(Elements(chain[i][b])) = Len(chain[i][b])

\* A migration loses nothing and invents nothing: what the successor holds
\* while it is filled are copies of frozen nodes; once it takes over, all of
\* its predecessor is frozen and has been copied.
MigrationExact ==
    \A i \in Tables : i + 1 \in Tables =>
        /\ root = i => \A k \in Nodes(i + 1) : sealed[i][k] /\ handle[i + 1][k] = handle[i][k]
        /\ root > i => /\ \A b \in 0..(Capacity[i] - 1) : frozen[i][b]
                       /\ \A k \in Nodes(i) : sealed[i][k] /\ k \in Nodes(i + 1)

\* Thread t has linked a node into table i, by a put or as a copy, and is about
\* to count it in shard s.
Counting(t, i, s) ==
    \/ pc[t] = "count" /\ tbl[t] = i /\ Shard(key[t]) = s
    \/ pc[t] = "tally" /\ tbl[t] + 1 = i /\ Shard(Head(todo[t])) = s

\* The shards of a table count its nodes, the copies included, but for those
\* that a put or a helper has linked and not yet counted; and no table gets a
\* successor before it has as many nodes as buckets, however the counting
\* interleaves with the passes that sum up the shards.
CountsNodes ==
    \A i \in Tables :
        /\ \A s \in Shards :
             count[i][s] + Cardinality({t \in Threads : Counting(t, i, s)})
                 = Cardinality({k \in Nodes(i) : Shard(k) = s})
        /\ resizing[i] => Cardinality(Nodes(i)) >= Capacity[i]

\* The store's content changes only by a put, in the step in which its
\* compare-exchange succeeds, and from then on every reader of table_ finds the
\* new value: neither a node that a migration has copied already, nor a new
\* table, nor a late helper can undo a put.
PutsLand ==
    [][/\ \A t \in Threads, k \in Keys :
              key[t] = k /\ (PutReplace(t) \/ PutInsert(t)) => Value(k)' = new[t]
       /\ \A k \in Keys : Value(k)' # Value(k) =>
              \E t \in Threads : key[t] = k /\ (PutReplace(t) \/ PutInsert(t))]_vars

\* A get returns a value that the key has had while the get was under way:
\* a key that is present all the time is found (tests/resize.cpp:50-51).
GetsFresh ==
    [][\A t \in Threads : window[t] # {} /\ pc[t] # "idle" /\ pc'[t] = "idle"
          => result'[t] \in window[t]]_vars

\* Every call returns: whoever meets a migration helps, and waits for chunks
\* that running threads have taken; the puts that make others retry are
\* finitely many.
CallsReturn == \A t \in Threads : pc[t] # "idle" ~> pc[t] = "idle"

(***************************************************************************)
(* The inductive invariant                                                 *)
(***************************************************************************)

\* The sum of the first n of the counters c, as the size of a disjoint union.
Units(c, n) == UNION {{s} \X (1..c[s]) : s \in 0..(n - 1)}
Part(c, n) == Cardinality(Units(c, n))

\* What a call under way knows, wherever it is.
Local(t) ==
    /\ key[t] = NULL <=> pc[t] = "idle"
    /\ pc[t] = "idle" => new[t] = NULL
    /\ pc[t] \notin {"idle", "table"} => tbl[t] \in 1..root
    /\ pc[t] = "load" => new[t] = NULL
    /\ pc[t] \in {"old", "swap", "insert", "count", "sum", "trigger"} => new[t] # NULL
    /\ pc[t] \in {"load", "old", "swap"} => key[t] \in Nodes(tbl[t])
    /\ pc[t] = "insert" => key[t] \notin Elements(head[t])
    /\ pc[t] \in {"help", "freeze", "seal", "copy", "tally", "done", "complete"} =>
           resizing[tbl[t]]
    /\ pc[t] = "sum" => shard[t] \in Shards /\ total[t] <= Part(count[tbl[t]], shard[t])
    /\ pc[t] = "trigger" => Cardinality(Nodes(tbl[t])) >= Capacity[tbl[t]]
Locals == \A t \in Threads : Local(t)

\* Thread t is migrating a chunk of the table it is in.
Busy(t) == pc[t] \in {"freeze", "seal", "copy", "tally", "done"}
Chunk(t) == from[t]..(upto[t] - 1)

\* Chunks are taken of the current table only, in order, and by one thread each.
Chunks ==
    /\ \A i \in Tables :
         /\ cursor[i] <= Capacity[i]
         /\ ~resizing[i] => cursor[i] = 0
         /\ resizing[i] => i <= root /\ i + 1 \in Tables
         /\ i < root => resizing[i] /\ cursor[i] = Capacity[i]
    /\ \A t \in Threads : Busy(t) =>
         /\ tbl[t] = root
         /\ from[t] < upto[t] /\ upto[t] <= cursor[root]
         /\ from[t] <= at[t] /\ at[t] <= upto[t]
         /\ at[t] = upto[t] <=> pc[t] = "done"
    /\ \A t, u \in Threads : Busy(t) /\ Busy(u) /\ t # u => Chunk(t) \cap Chunk(u) = {}

\* The buckets that the cursor has passed and that are in nobody's chunk are
\* the ones that have been counted as done.
Finished(i) ==
    {b \in 0..(cursor[i] - 1) : \A t \in Threads : Busy(t) /\ tbl[t] = i => b \notin Chunk(t)}
DoneExact == \A i \in Tables : done[i] = Cardinality(Finished(i))

\* No bucket lists a key twice.
Distinct(s) == \A m, n \in 1..Len(s) : s[m] = s[n] => m = n
Chains ==
    \A i \in Tables, b \in Buckets :
        /\ \A k \in Keys : k \in Elements(chain[i][b]) <=> k \in Nodes(i) /\ b = Index(i, k)
        /\ Distinct(chain[i][b])

\* Nobody has come to bucket b of table i yet.
Ahead(i, b, t) ==
    /\ Busy(t) /\ tbl[t] = i /\ b \in Chunk(t)
    /\ at[t] < b \/ (at[t] = b /\ pc[t] = "freeze")
Untouched(i, b) == b >= cursor[i] \/ \E t \in Threads : Ahead(i, b, t)

\* Thread t is copying the nodes of bucket b of table i, and has these left.
Copying(i, b, t) == pc[t] \in {"seal", "copy", "tally"} /\ tbl[t] = i /\ at[t] = b
Remaining(t) == IF pc[t] = "tally" THEN Tail(todo[t]) ELSE todo[t]

\* The node of key k in table i, if there is one, is still to be copied.
Left(i, k) ==
    \/ Untouched(i, Index(i, k))
    \/ \E t \in Threads : Copying(i, Index(i, k), t) /\ k \in Elements(Remaining(t))

\* Where a migration stands.  A key whose turn has come is in both tables or
\* in none, and its node has been sealed, so that it stays so until the
\* successor takes over.
Migrating ==
    /\ \A i \in Tables : i + 1 \in Tables =>
         /\ \A b \in 0..(Capacity[i] - 1) : Untouched(i, b) \/ frozen[i][b]
         /\ \A k \in Keys :
              IF Left(i, k) THEN k \notin Nodes(i + 1)
              ELSE /\ k \in Nodes(i) => sealed[i][k] /\ k \in Nodes(i + 1)
                   /\ root = i => handle[i + 1][k] = handle[i][k]
    /\ \A t \in Threads : pc[t] \in {"seal", "copy", "tally"} =>
         /\ todo[t] # <<>> /\ Distinct(todo[t])
         /\ Elements(todo[t]) \subseteq Elements(chain[tbl[t]][at[t]])
         /\ pc[t] \in {"copy", "tally"} => sealed[tbl[t]][Head(todo[t])]

\* A get may return what the key holds now, and what it will find in its table.
Windows ==
    \A t \in Threads :
        /\ pc[t] = "idle" \/ new[t] # NULL => window[t] = {}
        /\ window[t] # {} => Value(key[t]) \in window[t]
        /\ window[t] # {} /\ pc[t] # "table" => handle[tbl[t]][key[t]] \in window[t]

\* The state of the tables and of the calls at every moment: what each thread
\* knows, whose bucket is whose, and what has been copied.
IInv ==
    /\ TypeOK /\ Locals /\ Chunks /\ DoneExact
    /\ Chains /\ Migrating /\ CountsNodes /\ Windows

=============================================================================
