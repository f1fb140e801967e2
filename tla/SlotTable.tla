----------------------------- MODULE SlotTable -----------------------------
(***************************************************************************)
(* slot_table (hash_tables/slot_table.h): the list of chunks from which    *)
(* threads acquire a slot of their own, with the walks that                *)
(* for_each_active makes over it.  The hazard and the epoch domain keep    *)
(* their per-thread nodes in one, and a node left behind by a thread that  *)
(* has exited holds the garbage its next owner adopts.                     *)
(*                                                                         *)
(* A chunk is pushed in front of the chunk that was the head, and none is  *)
(* unlinked before the table is destroyed: chunks are numbered in the      *)
(* order of their push, head is the number of the newest one (0 for        *)
(* nullptr) and the next of chunk c is c - 1.                              *)
(***************************************************************************)
EXTENDS Integers

CONSTANTS
    Threads,     \* threads that acquire and release slots
    Scanners,    \* threads that walk over the active slots
    ChunkSize,   \* slots in a chunk
    MaxChunks    \* bound on the chunks pushed

ASSUME SizeAssumption == ChunkSize \in Nat \ {0} /\ MaxChunks \in Nat \ {0}

VARIABLES
    head,     \* head_
    used,     \* chunk::used of each chunk
    active,   \* T::active of each slot
    garbage,  \* whether the slot's last owner left orphaned entries in it
    pc,       \* where each thread is in acquire; "held" when it owns a slot
    cur,      \* the chunk a thread looks at
    lim,      \* acquire: used, as loaded for that chunk
    idx,      \* the index it looks at
    spc,      \* the same for the walk of each scanner
    scur,
    slim,
    sidx,
    visited,  \* slots the walk has passed to its function
    due       \* slots owned since before the walk began

table == <<head, used, active, garbage>>
locals == <<pc, cur, lim, idx>>
walks == <<spc, scur, slim, sidx, visited, due>>
vars == <<table, locals, walks>>

Chunks == 1..MaxChunks
Index == 0..(ChunkSize - 1)
Slots == Chunks \X Index

Slot(t) == <<cur[t], idx[t]>>
Held == {Slot(t) : t \in {u \in Threads : pc[u] = "held"}}

Init ==
    /\ head = 0
    /\ used = [c \in Chunks |-> 0]
    /\ active = [s \in Slots |-> FALSE]
    /\ garbage = [s \in Slots |-> FALSE]
    /\ pc = [t \in Threads |-> "out"]
    /\ cur = [t \in Threads |-> 0]
    /\ lim = [t \in Threads |-> 0]
    /\ idx = [t \in Threads |-> 0]
    /\ spc = [u \in Scanners |-> "out"]
    /\ scur = [u \in Scanners |-> 0]
    /\ slim = [u \in Scanners |-> 0]
    /\ sidx = [u \in Scanners |-> 0]
    /\ visited = [u \in Scanners |-> {}]
    /\ due = [u \in Scanners |-> {}]

(***************************************************************************)
(* acquire: first look for a slot that has been released                   *)
(***************************************************************************)

LoadHead(t) ==
    /\ pc[t] = "out"
    /\ cur' = [cur EXCEPT ![t] = head]
    /\ pc' = [pc EXCEPT ![t] = IF head = 0 THEN "append" ELSE "limit"]
    /\ UNCHANGED <<table, lim, idx, walks>>

LoadUsed(t) ==
    /\ pc[t] = "limit"
    /\ lim' = [lim EXCEPT ![t] = used[cur[t]]]
    /\ idx' = [idx EXCEPT ![t] = 0]
    /\ pc' = [pc EXCEPT ![t] = "probe"]
    /\ UNCHANGED <<table, cur, walks>>

\* The slot at idx: look at the next one if it is active.
Probe(t) ==
    /\ pc[t] = "probe"
    /\ idx[t] < lim[t]
    /\ IF active[Slot(t)]
       THEN idx' = [idx EXCEPT ![t] = @ + 1] /\ UNCHANGED pc
       ELSE pc' = [pc EXCEPT ![t] = "claim"] /\ UNCHANGED idx
    /\ UNCHANGED <<table, cur, lim, walks>>

NextChunk(t) ==
    /\ pc[t] = "probe"
    /\ idx[t] >= lim[t]
    /\ cur' = [cur EXCEPT ![t] = @ - 1]
    /\ lim' = [lim EXCEPT ![t] = 0]
    /\ idx' = [idx EXCEPT ![t] = 0]
    /\ pc' = [pc EXCEPT ![t] = IF cur[t] = 1 THEN "append" ELSE "limit"]
    /\ UNCHANGED <<table, walks>>

\* Mutant: the flag is set without a compare-exchange.
ClaimBlindly(t) ==
    /\ pc[t] = "claim"
    /\ active' = [active EXCEPT ![Slot(t)] = TRUE]
    /\ garbage' = [garbage EXCEPT ![Slot(t)] = FALSE]
    /\ pc' = [pc EXCEPT ![t] = "held"]
    /\ UNCHANGED <<head, used, cur, lim, idx, walks>>

\* compare_exchange_strong on active; the new owner adopts what it finds.
Claim(t) ==
    /\ pc[t] = "claim"
    /\ IF active[Slot(t)]
       THEN /\ idx' = [idx EXCEPT ![t] = @ + 1]
            /\ pc' = [pc EXCEPT ![t] = "probe"]
            /\ UNCHANGED <<active, garbage, lim>>
       ELSE /\ active' = [active EXCEPT ![Slot(t)] = TRUE]
            /\ garbage' = [garbage EXCEPT ![Slot(t)] = FALSE]
            /\ lim' = [lim EXCEPT ![t] = 0]
            /\ pc' = [pc EXCEPT ![t] = "held"]
            /\ UNCHANGED idx
    /\ UNCHANGED <<head, used, cur, walks>>

(***************************************************************************)
(* append_new: extend the newest chunk, or push another                    *)
(***************************************************************************)

AppendHead(t) ==
    /\ pc[t] = "append"
    /\ cur' = [cur EXCEPT ![t] = head]
    /\ pc' = [pc EXCEPT ![t] = IF head = 0 THEN "push" ELSE "index"]
    /\ UNCHANGED <<table, lim, idx, walks>>

\* Mutant: one slot too many.
TryIndexTooFar(t, i) ==
    /\ idx' = [idx EXCEPT ![t] = i]
    /\ pc' = [pc EXCEPT ![t] = IF i <= ChunkSize THEN "mark" ELSE "push"]

\* Go on with the index that was read from used.
TryIndex(t, i) ==
    /\ idx' = [idx EXCEPT ![t] = i]
    /\ pc' = [pc EXCEPT ![t] = IF i < ChunkSize THEN "mark" ELSE "push"]

AppendIndex(t) ==
    /\ pc[t] = "index"
    /\ TryIndex(t, used[cur[t]])
    /\ UNCHANGED <<table, cur, lim, walks>>

\* Mutant: the slot is not marked.
MarkNothing(t) ==
    /\ pc[t] = "mark"
    /\ pc' = [pc EXCEPT ![t] = "bump"]
    /\ UNCHANGED <<table, cur, lim, idx, walks>>

\* The slot is marked before it is known that it is this thread's.
Mark(t) ==
    /\ pc[t] = "mark"
    /\ active' = [active EXCEPT ![Slot(t)] = TRUE]
    /\ pc' = [pc EXCEPT ![t] = "bump"]
    /\ UNCHANGED <<head, used, garbage, cur, lim, idx, walks>>

\* compare_exchange_weak on used: success ...
Bump(t) ==
    /\ pc[t] = "bump"
    /\ used[cur[t]] = idx[t]
    /\ used' = [used EXCEPT ![cur[t]] = @ + 1]
    /\ pc' = [pc EXCEPT ![t] = "held"]
    /\ UNCHANGED <<head, active, garbage, cur, lim, idx, walks>>

\* ... or failure, which may be spurious.
BumpFails(t) ==
    /\ pc[t] = "bump"
    /\ TryIndex(t, used[cur[t]])
    /\ UNCHANGED <<table, cur, lim, walks>>

\* A fresh chunk, its first slot taken, becomes the head ...
Push(t) ==
    /\ pc[t] = "push"
    /\ head = cur[t]
    /\ head < MaxChunks
    /\ head' = head + 1
    /\ used' = [used EXCEPT ![head + 1] = 1]
    /\ active' = [active EXCEPT ![<<head + 1, 0>>] = TRUE]
    /\ cur' = [cur EXCEPT ![t] = head + 1]
    /\ idx' = [idx EXCEPT ![t] = 0]
    /\ pc' = [pc EXCEPT ![t] = "held"]
    /\ UNCHANGED <<garbage, lim, walks>>

\* ... unless another thread was first: delete it and look again.
PushFails(t) ==
    /\ pc[t] = "push"
    /\ head # cur[t]
    /\ cur' = [cur EXCEPT ![t] = 0]
    /\ idx' = [idx EXCEPT ![t] = 0]
    /\ pc' = [pc EXCEPT ![t] = "append"]
    /\ UNCHANGED <<table, lim, walks>>

(***************************************************************************)
(* release: the thread exits, and may leave garbage in its slot            *)
(***************************************************************************)

Release(t) ==
    /\ pc[t] = "held"
    /\ active' = [active EXCEPT ![Slot(t)] = FALSE]
    /\ \E g \in BOOLEAN : garbage' = [garbage EXCEPT ![Slot(t)] = g]
    /\ pc' = [pc EXCEPT ![t] = "out"]
    /\ cur' = [cur EXCEPT ![t] = 0]
    /\ idx' = [idx EXCEPT ![t] = 0]
    /\ due' = [u \in Scanners |-> due[u] \ {Slot(t)}]
    /\ UNCHANGED <<head, used, lim, spc, scur, slim, sidx, visited>>

(***************************************************************************)
(* for_each_active                                                         *)
(***************************************************************************)

\* The next chunk of a walk, if there is one.
WalkTo(u, c) ==
    /\ scur' = [scur EXCEPT ![u] = c]
    /\ slim' = [slim EXCEPT ![u] = 0]
    /\ sidx' = [sidx EXCEPT ![u] = 0]
    /\ spc' = [spc EXCEPT ![u] = IF c = 0 THEN "done" ELSE "limit"]

ScanBegin(u) ==
    /\ spc[u] \in {"out", "done"}
    /\ WalkTo(u, head)
    /\ visited' = [visited EXCEPT ![u] = {}]
    /\ due' = [due EXCEPT ![u] = Held]
    /\ UNCHANGED <<table, locals>>

ScanUsed(u) ==
    /\ spc[u] = "limit"
    /\ slim' = [slim EXCEPT ![u] = used[scur[u]]]
    /\ sidx' = [sidx EXCEPT ![u] = 0]
    /\ spc' = [spc EXCEPT ![u] = "visit"]
    /\ UNCHANGED <<table, locals, scur, visited, due>>

ScanVisit(u) ==
    /\ spc[u] = "visit"
    /\ sidx[u] < slim[u]
    /\ sidx' = [sidx EXCEPT ![u] = @ + 1]
    /\ visited' = IF active[<<scur[u], sidx[u]>>]
                  THEN [visited EXCEPT ![u] = @ \union {<<scur[u], sidx[u]>>}]
                  ELSE visited
    /\ UNCHANGED <<table, locals, spc, scur, slim, due>>

\* Mutant: the walk ends with the first chunk.
ScanOneChunk(u) ==
    /\ spc[u] = "visit"
    /\ sidx[u] >= slim[u]
    /\ WalkTo(u, 0)
    /\ UNCHANGED <<table, locals, visited, due>>

ScanNext(u) ==
    /\ spc[u] = "visit"
    /\ sidx[u] >= slim[u]
    /\ WalkTo(u, scur[u] - 1)
    /\ UNCHANGED <<table, locals, visited, due>>

(***************************************************************************)
(* Specification                                                           *)
(***************************************************************************)

Acquiring(t) ==
    \/ LoadHead(t) \/ LoadUsed(t) \/ Probe(t) \/ NextChunk(t) \/ Claim(t)
    \/ AppendHead(t) \/ AppendIndex(t) \/ Mark(t) \/ Bump(t) \/ BumpFails(t)
    \/ Push(t) \/ PushFails(t)

Scanning(u) == ScanBegin(u) \/ ScanUsed(u) \/ ScanVisit(u) \/ ScanNext(u)

Next ==
    \/ \E t \in Threads : Acquiring(t) \/ Release(t)
    \/ \E u \in Scanners : Scanning(u)

Spec == Init /\ [][Next]_vars

(***************************************************************************)
(* Properties                                                              *)
(***************************************************************************)

TypeOK ==
    /\ head \in 0..MaxChunks
    /\ used \in [Chunks -> 0..ChunkSize]
    /\ active \in [Slots -> BOOLEAN]
    /\ garbage \in [Slots -> BOOLEAN]
    /\ pc \in [Threads -> {"out", "limit", "probe", "claim", "append", "index",
                           "mark", "bump", "push", "held"}]
    /\ cur \in [Threads -> 0..MaxChunks]
    /\ lim \in [Threads -> 0..ChunkSize]
    /\ idx \in [Threads -> 0..ChunkSize]
    /\ spc \in [Scanners -> {"out", "limit", "visit", "done"}]
    /\ scur \in [Scanners -> 0..MaxChunks]
    /\ slim \in [Scanners -> 0..ChunkSize]
    /\ sidx \in [Scanners -> 0..ChunkSize]
    /\ visited \in [Scanners -> SUBSET Slots]
    /\ due \in [Scanners -> SUBSET Slots]

\* A slot has one owner: two threads never share a hazard or epoch node.
ExclusiveSlots ==
    \A t, u \in Threads :
        pc[t] = "held" /\ pc[u] = "held" /\ Slot(t) = Slot(u) => t = u

\* A walk has visited every slot that was owned by the same thread from the
\* walk's beginning to its end, whatever was acquired, appended and released
\* meanwhile: this is what lets a scan conclude that a hazard it has not seen
\* was not there when it began (hazard.cpp:28-37, ebr.cpp:61-76).
ScanComplete == \A u \in Scanners : spc[u] = "done" => due[u] \subseteq visited[u]

\* What the program counters say of the table: the inductive part.
Position(t) ==
    /\ cur[t] <= head
    /\ pc[t] \in {"limit", "probe", "claim", "index", "mark", "bump", "held"} => cur[t] > 0
    /\ pc[t] \in {"probe", "claim"} => lim[t] <= used[cur[t]] /\ idx[t] <= lim[t]
    /\ pc[t] = "claim" => idx[t] < lim[t]
    /\ pc[t] \in {"mark", "bump"} => idx[t] < ChunkSize /\ idx[t] <= used[cur[t]]
    /\ pc[t] = "bump" /\ used[cur[t]] = idx[t] => active[Slot(t)]
    /\ pc[t] = "held" => idx[t] < used[cur[t]] /\ active[Slot(t)]

Positions ==
    /\ \A c \in Chunks : used[c] > 0 <=> c <= head
    /\ \A t \in Threads : Position(t)

\* What a walk has still to visit of the slots that are due.
Remaining(u, s) ==
    \/ spc[u] = "limit" /\ s[1] <= scur[u]
    \/ spc[u] = "visit" /\ \/ s[1] < scur[u]
                           \/ s[1] = scur[u] /\ s[2] >= sidx[u] /\ s[2] < slim[u]

WalkInv ==
    \A u \in Scanners :
        /\ spc[u] \in {"limit", "visit"} => scur[u] \in 1..head
        /\ spc[u] = "visit" => slim[u] <= used[scur[u]]
        /\ due[u] \subseteq Held
        /\ spc[u] # "out" => \A s \in due[u] : s \in visited[u] \/ Remaining(u, s)

SInv == TypeOK /\ Positions /\ ExclusiveSlots /\ WalkInv

\* Garbage left in a slot can be adopted: the slot is free for the next
\* thread to claim, or a thread is about to find out whether it owns it.
GarbageAdoptable ==
    \A s \in Slots :
        garbage[s] => ~active[s] \/ \E t \in Threads : pc[t] \in {"bump", "held"} /\ Slot(t) = s

============================================================================
