----------------------------- MODULE TableStore -----------------------------
(***************************************************************************)
(* hp_store.cpp and ebr_store.cpp with everything they reclaim: the hash   *)
(* table of HashTable, whose replaced handles and outgrown tables are      *)
(* retired while other calls may be about to use them.                     *)
(*                                                                         *)
(* The two stores differ in how a call keeps what it uses from being       *)
(* freed; smr chooses one of them at the start.  In hp_store.cpp a call    *)
(* publishes hazards (hazard.h, hazard.cpp), one for a handle and one for  *)
(* a table.  In ebr_store.cpp it is a critical section of a domain, and    *)
(* the domain is taken to keep the promise of GracePeriod.  EbrGrace shows *)
(* that ebr.cpp keeps it in timely behaviours, those without a stale       *)
(* announcement; the code admits others, in which it does not (run         *)
(* ebr_stale_entry).  What holds here of the epoch store holds of timely   *)
(* behaviours only.                                                        *)
(*                                                                         *)
(* Threads keep their slot until they exit, and do not come back: what a   *)
(* slot's next owner adopts is the subject of HybridStore.                 *)
(***************************************************************************)
EXTENDS HashTable

CONSTANT Unborn  \* a ref variable outside its lifetime

ASSUME RefAssumption == Unborn \notin Handles \union {NULL}
ASSUME EntryAssumption == Handles \intersect Tables = {} /\ NULL \notin Tables

VARIABLES
    smr,       \* "hp" or "ebr"
    refcount,  \* object_handle::refcount; 0 at an address without a handle
    ref,       \* the thread's sas::ref
    stage,     \* "run" where pc says all, else what the thread does between
               \* two steps of HashTable
    leaving,   \* the thread is in the destructor of its state
    ptrs,      \* hazard_node::ptrs, 0 for a handle and 1 for a table
    cand,      \* what protect has loaded, with the frozen bit
    retired,   \* the entries that the thread has retired
    visit,     \* scan_and_reclaim: hazards that it has not read yet
    active,    \* scan_and_reclaim: hazards that it has read
    inside,    \* ebr: the threads in a critical section
    waits,     \* ebr: for each retired entry, whom it waits for
    freed,     \* how often each table has been freed
    phase      \* what the host has torn down

Grace == INSTANCE GracePeriod WITH Entries <- Handles \union Tables

table == <<steps, result>>
hazards == <<ptrs, cand>>
sections == <<inside, waits>>
scan == <<visit, active>>
counts == <<refcount, ref>>
reclamation == <<retired, scan, freed>>
svars == <<vars, smr, counts, stage, leaving, hazards, reclamation, sections, phase>>

NoEntry == [ptr |-> NULL, frozen |-> FALSE]

SInit ==
    /\ Init
    /\ smr \in {"hp", "ebr"}
    /\ refcount = [h \in Handles |-> 0]
    /\ ref = [t \in Threads |-> Unborn]
    /\ stage = [t \in Threads |-> "run"]
    /\ leaving = [t \in Threads |-> FALSE]
    /\ ptrs = [t \in Threads |-> [i \in {0, 1} |-> NULL]]
    /\ cand = [t \in Threads |-> NoEntry]
    /\ retired = [t \in Threads |-> {}]
    /\ visit = [t \in Threads |-> {}]
    /\ active = [t \in Threads |-> {}]
    /\ Grace!Init
    /\ freed = [i \in Tables |-> 0]
    /\ phase = "open"

To(t, s) == stage' = [stage EXCEPT ![t] = s]
Running(t) == stage[t] = "run"

\* Where a call goes on after a step of HashTable: a call of the epoch store
\* that is over has its critical section to leave.
Proceed(t) == To(t, IF smr = "ebr" /\ pc'[t] = "idle" THEN "leave" ELSE "run")

(***************************************************************************)
(* Calls                                                                   *)
(***************************************************************************)

\* ebr.h: enter; the hazard pointer store has nothing to announce.
Enter(t) == IF smr = "ebr" THEN Grace!Enter(t) ELSE UNCHANGED sections

SGetCall(t) ==
    /\ Running(t)
    /\ ref[t] = Unborn
    /\ GetCall(t)
    /\ Enter(t)
    /\ UNCHANGED <<smr, counts, stage, leaving, hazards, reclamation, phase>>

SPutCall(t) ==
    /\ Running(t)
    /\ \E h \in fresh :
         /\ PutWith(t, h)
         /\ refcount' = [refcount EXCEPT ![h] = 1]
    /\ Enter(t)
    /\ UNCHANGED <<smr, ref, stage, leaving, hazards, reclamation, phase>>

\* The steps of HashTable that retire nothing and use nothing unprotected.
Plain(t) ==
    /\ Running(t)
    /\ \/ LoadNext(t) \/ Help(t) \/ FreezeBucket(t) \/ FreezeHandle(t) \/ Copy(t)
       \/ CountCopy(t) \/ ChunkDone(t) \/ PutBucket(t) \/ PutOld(t)
       \/ PutReplaceFails(t) \/ PutInsert(t) \/ PutInsertFails(t)
       \/ Count(t) \/ Sum(t) \/ TriggerResize(t)
    /\ Proceed(t)
    /\ UNCHANGED <<smr, counts, leaving, hazards, reclamation, sections, phase>>

\* A get that finds no node gives the caller a reference that holds nullptr.
SGetBucket(t) ==
    /\ Running(t)
    /\ GetBucket(t)
    /\ ref' = IF pc'[t] = "idle" THEN [ref EXCEPT ![t] = NULL] ELSE ref
    /\ Proceed(t)
    /\ UNCHANGED <<smr, refcount, leaving, hazards, reclamation, sections, phase>>

(***************************************************************************)
(* hazard.h: protect, for table_ and for the handle of a node              *)
(***************************************************************************)

\* What protect loads, and which entry of ptrs it publishes it in.
Shared(t) ==
    IF pc[t] = "table" THEN [ptr |-> root, frozen |-> FALSE]
    ELSE [ptr |-> handle[tbl[t]][key[t]], frozen |-> sealed[tbl[t]][key[t]]]
Which(t) == IF pc[t] = "table" THEN 1 ELSE 0

\* acquire_table: the table that the hazard still protects is taken as it is.
TakeTable(t) ==
    /\ Running(t)
    /\ smr = "hp" => ptrs[t][1] = root
    /\ LoadTable(t)
    /\ UNCHANGED <<smr, counts, stage, leaving, hazards, reclamation, sections, phase>>

ProtectLoad(t) ==
    /\ smr = "hp" /\ Running(t)
    /\ pc[t] = "load" \/ (pc[t] = "table" /\ ptrs[t][1] # root)
    /\ cand' = [cand EXCEPT ![t] = Shared(t)]
    /\ To(t, "publish")
    /\ UNCHANGED <<vars, smr, counts, leaving, ptrs, reclamation, sections, phase>>

ProtectPublish(t) ==
    /\ stage[t] = "publish"
    /\ ptrs' = [ptrs EXCEPT ![t][Which(t)] = cand[t].ptr]
    /\ To(t, "validate")
    /\ UNCHANGED <<vars, smr, counts, leaving, cand, reclamation, sections, phase>>

\* Another load yields something else: protect begins again.
ProtectRetry(t) ==
    /\ stage[t] = "validate"
    /\ Shared(t) # cand[t]
    /\ cand' = [cand EXCEPT ![t] = NoEntry]
    /\ To(t, "run")
    /\ UNCHANGED <<vars, smr, counts, leaving, ptrs, reclamation, sections, phase>>

\* Mutant: what has been published is not compared again.
UnchangedAlways(t) == TRUE

\* The code's comparison: pointer and frozen bit are what they were.
Unchanged(t) == Shared(t) = cand[t]

\* The pointer that was published is still there.
ProtectValidate(t) ==
    /\ stage[t] = "validate"
    /\ Unchanged(t)
    /\ \/ LoadTable(t) /\ To(t, "run")
       \/ ReadHandle(t, FALSE) /\ To(t, "incref")
    /\ cand' = [cand EXCEPT ![t] = NoEntry]
    /\ UNCHANGED <<smr, counts, leaving, ptrs, reclamation, sections, phase>>

\* The epoch store just reads the handle; a frozen one it does not return.
ReadInside(t) ==
    /\ smr = "ebr" /\ Running(t)
    /\ ReadHandle(t, TRUE)
    /\ IF result'[t] = NULL
       THEN To(t, "leave") /\ ref' = [ref EXCEPT ![t] = NULL]
       ELSE To(t, "incref") /\ UNCHANGED ref
    /\ UNCHANGED <<smr, refcount, leaving, hazards, reclamation, sections, phase>>

\* The handle that was found is counted for the caller's reference.
Incref(t) ==
    /\ stage[t] = "incref"
    /\ refcount' = [refcount EXCEPT ![result[t]] = @ + 1]
    /\ ref' = [ref EXCEPT ![t] = result[t]]
    /\ result' = [result EXCEPT ![t] = NULL]
    /\ To(t, IF smr = "hp" THEN "unprotect" ELSE "leave")
    /\ UNCHANGED <<steps, fresh, smr, leaving, hazards, reclamation, sections, phase>>

Unprotect(t) ==
    /\ stage[t] = "unprotect"
    /\ ptrs' = [ptrs EXCEPT ![t][0] = NULL]
    /\ To(t, "run")
    /\ UNCHANGED <<vars, smr, counts, leaving, cand, reclamation, sections, phase>>

(***************************************************************************)
(* What a call retires: the handle that its put replaces, the table that   *)
(* its resize leaves behind                                                *)
(***************************************************************************)

\* push_retire, and a scan if it is due: SCAN_THRESHOLD is left open.  In the
\* epoch store a scan can only be due when the call is over.
Retire(t, e) ==
    /\ retired' = [retired EXCEPT ![t] = @ \union {e}]
    /\ \/ smr = "hp" /\ UNCHANGED sections /\ (Proceed(t) \/ To(t, "collect"))
       \/ smr = "ebr" /\ Grace!Retire(e) /\ Proceed(t)

SPutReplace(t) ==
    /\ Running(t)
    /\ PutReplace(t)
    /\ Retire(t, old[t])
    /\ UNCHANGED <<smr, counts, leaving, hazards, scan, freed, phase>>

\* Of all that find the migration done, the one that makes the exchange.
STryComplete(t) ==
    /\ Running(t)
    /\ TryComplete(t)
    /\ IF root' # root
       THEN Retire(t, tbl[t])
       ELSE UNCHANGED <<stage, retired, sections>>
    /\ UNCHANGED <<smr, counts, leaving, hazards, scan, freed, phase>>

\* ebr.h: exit; maybe a scan follows.
Leave(t) ==
    /\ stage[t] = "leave"
    /\ Grace!Leave(t)
    /\ To(t, "run") \/ To(t, "scan")
    /\ UNCHANGED <<vars, smr, counts, leaving, hazards, reclamation, phase>>

(***************************************************************************)
(* hazard.cpp, ebr.cpp: scan_and_reclaim                                   *)
(***************************************************************************)

\* The hazards of the others are still to be read, each by an access of its
\* own; the thread knows its own ones.
BeginWalk(t) ==
    /\ stage[t] = "collect"
    /\ visit' = [visit EXCEPT ![t] = (Threads \ {t}) \X {0, 1}]
    /\ active' = [active EXCEPT ![t] = {ptrs[t][0], ptrs[t][1]} \ {NULL}]
    /\ To(t, "scan")
    /\ UNCHANGED <<vars, smr, counts, leaving, hazards, retired, freed, sections, phase>>

\* Mutant: only the first entry of ptrs is looked at.
ReadHazardOfHandle(t) ==
    /\ stage[t] = "scan"
    /\ \E v \in visit[t] :
         /\ visit' = [visit EXCEPT ![t] = @ \ {v}]
         /\ active' = [active EXCEPT ![t] = @ \union ({ptrs[v[1]][0]} \ {NULL})]
    /\ UNCHANGED <<vars, smr, counts, stage, leaving, hazards, retired, freed, sections,
                   phase>>

ReadHazard(t) ==
    /\ stage[t] = "scan"
    /\ \E v \in visit[t] :
         /\ visit' = [visit EXCEPT ![t] = @ \ {v}]
         /\ active' = [active EXCEPT ![t] = @ \union ({ptrs[v[1]][v[2]]} \ {NULL})]
    /\ UNCHANGED <<vars, smr, counts, stage, leaving, hazards, retired, freed, sections,
                   phase>>

\* What a scan may free: what nobody protects, or what has expired.  The code
\* of the epoch store compares epochs (ebr.cpp:93-103), which lets nothing else
\* go as long as no announcement is stale.
Freeable(t) ==
    IF smr = "hp" THEN retired[t] \ active[t]
    ELSE {e \in retired[t] : Grace!Expired(e)}

\* drop_handle, for each handle in E.
DropAll(E) ==
    /\ refcount' = [h \in Handles |-> IF h \in E THEN refcount[h] - 1 ELSE refcount[h]]
    /\ fresh' = fresh \union {h \in Handles : h \in E /\ refcount[h] = 1}

CountFreed(E) == freed' = [i \in Tables |-> IF i \in E THEN freed[i] + 1 ELSE freed[i]]

\* Mutant: free_table drops the handles of the table's nodes, too.
FreeAllWithNodes(E) ==
    DropAll(E \union {handle[i][k] : i \in E \intersect Tables, k \in Keys}) /\ CountFreed(E)

\* The store's own reference to the handles in E is dropped, and the tables in
\* E are freed, which leaves the handles of their nodes alone.
FreeAll(E) == DropAll(E) /\ CountFreed(E)

\* One entry is freed.
Reclaim(t) ==
    /\ stage[t] = "scan"
    /\ visit[t] = {}
    /\ \E e \in Freeable(t) :
         /\ FreeAll({e})
         /\ retired' = [retired EXCEPT ![t] = @ \ {e}]
         /\ IF smr = "ebr" THEN Grace!Free({e}) ELSE UNCHANGED sections
    /\ UNCHANGED <<table, smr, ref, stage, leaving, hazards, scan, phase>>

\* The scan of a hazard domain goes through the whole list; which of the
\* expired entries an epoch domain finds is its own business.
EndScan(t) ==
    /\ stage[t] = "scan"
    /\ visit[t] = {}
    /\ smr = "hp" => Freeable(t) = {}
    /\ active' = [active EXCEPT ![t] = {}]
    /\ To(t, IF leaving[t] THEN "gone" ELSE "run")
    /\ UNCHANGED <<vars, smr, counts, leaving, hazards, retired, visit, freed, sections,
                   phase>>

\* The thread exits.  Its state's destructor withdraws both hazards and scans
\* once more; what is left stays in the slot.
Exit(t) ==
    /\ Running(t)
    /\ pc[t] = "idle"
    /\ leaving' = [leaving EXCEPT ![t] = TRUE]
    /\ ptrs' = [ptrs EXCEPT ![t] = [i \in {0, 1} |-> NULL]]
    /\ To(t, IF smr = "hp" THEN "collect" ELSE "scan")
    /\ UNCHANGED <<vars, smr, counts, cand, reclamation, sections, phase>>

(***************************************************************************)
(* client.h: the reference; host_drivers.h: teardown                       *)
(***************************************************************************)

\* ~ref, whenever and on whatever thread the client likes.
Close(t) ==
    /\ ref[t] # Unborn
    /\ ref' = [ref EXCEPT ![t] = Unborn]
    /\ FreeAll({ref[t]})
    /\ UNCHANGED <<table, smr, stage, leaving, hazards, retired, scan, sections, phase>>

Content == {handle[root][k] : k \in Keys} \ {NULL}

\* Mutant: a successor that was not completed is forgotten.
LastTablesForgetting == {root}

LastTables == {root} \union {i \in Tables : i = root + 1 /\ resizing[root]}

\* ~object_store: the handles of the current table are dropped, and it is freed
\* together with a successor that was not completed.
TeardownStore ==
    /\ phase = "open"
    /\ \A t \in Threads : stage[t] = "gone"
    /\ phase' = "store_reset"
    /\ FreeAll(Content \union LastTables)
    /\ UNCHANGED <<table, smr, ref, stage, leaving, hazards, retired, scan, sections>>

\* The domain's destructor frees what its slots still hold.
TeardownDomain ==
    /\ phase = "store_reset"
    /\ phase' = "domain_reset"
    /\ FreeAll(UNION {retired[t] : t \in Threads})
    /\ retired' = [t \in Threads |-> {}]
    /\ Grace!Free(Grace!Retired)
    /\ UNCHANGED <<table, smr, ref, stage, leaving, hazards, scan>>

\* The host has returned from main.
Terminated == phase = "domain_reset" /\ UNCHANGED svars

(***************************************************************************)
(* Specification                                                           *)
(***************************************************************************)

SNext ==
    \/ \E t \in Threads :
         \/ SGetCall(t) \/ SPutCall(t) \/ Plain(t) \/ SGetBucket(t) \/ TakeTable(t)
         \/ ProtectLoad(t) \/ ProtectPublish(t) \/ ProtectRetry(t) \/ ProtectValidate(t)
         \/ ReadInside(t) \/ Incref(t) \/ Unprotect(t)
         \/ SPutReplace(t) \/ STryComplete(t) \/ Leave(t)
         \/ BeginWalk(t) \/ ReadHazard(t) \/ Reclaim(t) \/ EndScan(t)
         \/ Exit(t) \/ Close(t)
    \/ TeardownStore
    \/ TeardownDomain
    \/ Terminated

SSpec == SInit /\ [][SNext]_svars

\* The get of t takes a frozen handle as its result, or for an absent one.
TakesFrozen(t) == pc[t] = "load" /\ pc'[t] = "idle" /\ sealed[tbl[t]][key[t]]

\* The behaviours in which no get of the hazard pointer store takes a frozen
\* handle from a table that has been left, and none of the epoch store comes
\* upon a frozen handle at all.  The code does not exclude either: the runs
\* hp_frozen_handle and resize_test_miss show what can happen then.
SettledSpec ==
    SInit /\ [][/\ SNext
                /\ \A t \in Threads :
                     TakesFrozen(t) => smr = "hp" /\ root = tbl[t]]_svars

(***************************************************************************)
(* Properties                                                              *)
(***************************************************************************)

Stages == {"run", "publish", "validate", "incref", "unprotect", "leave", "collect", "scan",
           "gone"}

\* The shape of the state; a count never sinks below zero, the first hazard is
\* a handle and the second a table, and a store uses its own means only.
STypeOK ==
    /\ TypeOK
    /\ smr \in {"hp", "ebr"}
    /\ refcount \in [Handles -> Nat]
    /\ ref \in [Threads -> Handles \union {NULL, Unborn}]
    /\ stage \in [Threads -> Stages]
    /\ leaving \in [Threads -> BOOLEAN]
    /\ ptrs \in [Threads -> [{0, 1} -> Handles \union Tables \union {NULL}]]
    /\ \A t \in Threads : ptrs[t][0] \notin Tables /\ ptrs[t][1] \notin Handles
    /\ cand \in [Threads -> [ptr : Handles \union Tables \union {NULL}, frozen : BOOLEAN]]
    /\ retired \in [Threads -> SUBSET (Handles \union Tables)]
    /\ visit \in [Threads -> SUBSET (Threads \X {0, 1})]
    /\ active \in [Threads -> SUBSET (Handles \union Tables)]
    /\ inside \subseteq Threads
    /\ Grace!Retired \subseteq Handles \union Tables
    /\ freed \in [Tables -> Nat]
    /\ phase \in {"open", "store_reset", "domain_reset"}
    /\ smr = "hp" => inside = {} /\ Grace!Retired = {}
    /\ smr = "ebr" => \A t \in Threads : ptrs[t][0] = NULL /\ ptrs[t][1] = NULL

\* A get counts a handle that still exists, and what a reference holds exists.
NoUseAfterFree ==
    /\ \A t \in Threads : stage[t] = "incref" => refcount[result[t]] > 0
    /\ \A t \in Threads : ref[t] \in Handles => refcount[ref[t]] > 0

\* No thread works on a table that has been freed: not on the one that it has
\* taken from table_, however late it is, nor on the successor that it fills.
TablesSafe ==
    \A t \in Threads : pc[t] \notin {"idle", "table"} =>
        /\ freed[tbl[t]] = 0
        /\ pc[t] \in {"freeze", "seal", "copy", "tally"} => freed[tbl[t] + 1] = 0

\* A put has not yet handed over its handle.
Unpublished(t) == new[t] # NULL /\ pc[t] \notin {"count", "sum", "trigger"}

\* The store's own reference to a handle: in the current table, in a put that
\* has allocated it, or in somebody's retired list.  That a table which was
\* left, and the copies in a successor, hold the handle too does not count.
Owned(h) ==
    \/ phase = "open" /\ h \in Content
    \/ \E t \in Threads : (Unpublished(t) /\ new[t] = h) \/ h \in retired[t]

\* The count of a handle is the number of references to it, plus one while
\* the store owns it, through all resizes and up to the end.
RefcountExact ==
    \A h \in Handles :
        refcount[h] = Cardinality({t \in Threads : ref[t] = h}) + (IF Owned(h) THEN 1 ELSE 0)

(***************************************************************************)
(* The inductive invariant, together with IInv of HashTable                *)
(***************************************************************************)

\* What a thread does besides the steps of HashTable, and when.
Staged(t) ==
    /\ stage[t] \in {"publish", "validate"} =>
         /\ smr = "hp" /\ pc[t] \in {"table", "load"}
         /\ cand[t].ptr \in IF pc[t] = "table" THEN Tables ELSE Handles \union {NULL}
    /\ stage[t] = "validate" => ptrs[t][Which(t)] = cand[t].ptr
    /\ stage[t] \in {"incref", "unprotect", "leave", "gone"} => pc[t] = "idle"
    /\ stage[t] \in {"collect", "scan"} => pc[t] \in {"idle", "table"}
    /\ stage[t] \in {"unprotect", "collect"} => smr = "hp"
    /\ stage[t] = "leave" => smr = "ebr"
    /\ stage[t] = "incref" => result[t] \in Handles
    /\ stage[t] = "incref" \/ (pc[t] # "idle" /\ new[t] = NULL) => ref[t] = Unborn
    /\ smr = "ebr" /\ (pc[t] # "idle" \/ stage[t] \in {"incref", "leave"}) => t \in inside
    /\ leaving[t] => pc[t] = "idle" /\ stage[t] \in {"collect", "scan", "gone"}
    /\ phase # "open" => stage[t] = "gone"
AllStaged == \A t \in Threads : Staged(t)

\* A handle has one owner at most, be it a key, a put or a retired list.
Listed(e) == \E t \in Threads : e \in retired[t]
InPut(h) == \E t \in Threads : Unpublished(t) /\ new[t] = h
InStore(h) == phase = "open" /\ h \in Content
SoleOwner(h) ==
    /\ phase = "open" => \A k, l \in Keys : handle[root][k] = h /\ handle[root][l] = h => k = l
    /\ \A t, u \in Threads :
         /\ Unpublished(t) /\ Unpublished(u) /\ new[t] = h /\ new[u] = h => t = u
         /\ h \in retired[t] /\ h \in retired[u] => t = u
    /\ ~(InStore(h) /\ InPut(h)) /\ ~(InStore(h) /\ Listed(h)) /\ ~(InPut(h) /\ Listed(h))
OwnedOnce == \A h \in Handles : SoleOwner(h)

\* Addresses without a handle are the ones that make_handle may return.
FreshUncounted == \A h \in Handles : h \in fresh <=> refcount[h] = 0

\* A table is retired when its successor takes over, by one thread, and freed
\* when it is retired no longer; the last ones go with the store.
GivenUp(i) == i < root \/ (phase # "open" /\ i \in LastTables)
TablesOnce ==
    \A i \in Tables :
        /\ Listed(i) => i < root
        /\ \A t, u \in Threads : i \in retired[t] /\ i \in retired[u] => t = u
        /\ freed[i] = IF GivenUp(i) /\ ~Listed(i) THEN 1 ELSE 0

\* What waits in an epoch domain is in somebody's list; and when the domain is
\* gone, nothing is.
Deferred ==
    /\ \A e \in Grace!Retired : Listed(e)
    /\ phase = "domain_reset" => \A t \in Threads : retired[t] = {}

\* Nobody will free e before thread t says so: a hazard stands in entry i
\* which no scan has missed, or the domain waits for t.
Protects(t, i, e) ==
    IF smr = "hp"
    THEN /\ ptrs[t][i] = e
         /\ e \notin retired[t]
         /\ \A u \in Threads : stage[u] = "scan" /\ e \in retired[u] =>
                <<t, i>> \in visit[u] \/ e \in active[u]
    ELSE e \in Grace!Retired => t \in waits[e]

\* The handle that a get has found, and the table that a call works on, are
\* not freed and will not be.
HandlesGuarded ==
    \A t \in Threads : stage[t] = "incref" => Owned(result[t]) /\ Protects(t, 0, result[t])
TablesGuarded ==
    \A t \in Threads : pc[t] \notin {"idle", "table"} =>
        freed[tbl[t]] = 0 /\ Protects(t, 1, tbl[t])

\* What a get has found or the reference holds; nobody sees the handle of a
\* put that has not handed it over.
Seen(t) == IF stage[t] = "incref" THEN result[t] ELSE ref[t]
Unseen == \A t, u \in Threads : Unpublished(t) => Seen(u) # new[t]

SInv ==
    /\ STypeOK /\ AllStaged /\ OwnedOnce /\ RefcountExact /\ FreshUncounted
    /\ TablesOnce /\ Deferred /\ HandlesGuarded /\ TablesGuarded /\ Unseen

\* Every table that was ever used is freed, and once; and when the host is done
\* only what a client still holds a reference to is left.
NothingLeaked ==
    /\ \A i \in Tables : freed[i] <= 1
    /\ phase = "domain_reset" =>
         /\ \A i \in 1..root : freed[i] = 1
         /\ resizing[root] => freed[root + 1] = 1
         /\ \A h \in Handles : refcount[h] > 0 => \E t \in Threads : ref[t] = h

(***************************************************************************)
(* The store as its clients see it                                         *)
(***************************************************************************)

StoreBar == [k \in Keys |-> IF phase = "open" THEN Value(k) ELSE NULL]
RefBar == [t \in Threads |-> Seen(t)]
AliveBar == {h \in Handles : refcount[h] > 0 /\ ~\E t \in Threads : Unpublished(t) /\ new[t] = h}

Store == INSTANCE ObjectStore
         WITH Refs <- Threads, store <- StoreBar, ref <- RefBar, alive <- AliveBar,
              open <- (phase = "open")

\* Both table stores, the epoch store with a domain that keeps its promise, are
\* linearizable object stores that never destroy what a client can reach, while
\* tables are outgrown, migrated, retired and freed under the calls that use
\* them.
ImplementsObjectStore == Store!Spec

=============================================================================
