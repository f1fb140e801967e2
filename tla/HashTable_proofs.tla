-------------------------- MODULE HashTable_proofs --------------------------
(***************************************************************************)
(* The hash table's migrations lose nothing, invent nothing and hide       *)
(* nothing, for any tables, threads, keys, chunks and shards.              *)
(*                                                                         *)
(* IInv is the conjunction of eight parts, and each has a section: what a  *)
(* step does to it is said by the lemma that ends in Step.  Its core is    *)
(* Migrating: a key is either still to be copied, and then the successor   *)
(* lacks it, or its turn has come, and then its node is sealed and both    *)
(* tables agree on it until the successor takes over.                      *)
(***************************************************************************)
EXTENDS HashTable, FiniteSetTheorems, TLAPS

(***************************************************************************)
(* The operators of the model                                              *)
(***************************************************************************)

\* The bucket of a key is a bucket of the table.
LEMMA IndexInTable ==
  ASSUME NEW i \in Tables, NEW k \in Keys
  PROVE  Index(i, k) \in 0..(Capacity[i] - 1) /\ Index(i, k) \in Buckets
<1>1. HashOf[k] \in Nat /\ Capacity[i] \in Nat \ {0}
  BY TableAssumption
<1>2. Index(i, k) \in 0..(Capacity[i] - 1)
  BY <1>1 DEF Index
<1> QED
  BY <1>2 DEF Buckets

\* Every key has a counter.
LEMMA ShardInShards == ASSUME NEW k \in Keys PROVE Shard(k) \in Shards
<1>1. HashOf[k] \in Nat /\ NUM_SHARDS \in Nat \ {0}
  BY TableAssumption
<1> QED
  BY <1>1 DEF Shard, Shards

\* A chain with one more node at its head.
LEMMA ConsElements ==
  ASSUME NEW s \in Seq(Keys), NEW k \in Keys
  PROVE  /\ <<k>> \o s \in Seq(Keys)
         /\ Elements(<<k>> \o s) = Elements(s) \union {k}
         /\ Distinct(s) /\ k \notin Elements(s) => Distinct(<<k>> \o s)
<1> DEFINE r == <<k>> \o s
<1>1. r \in Seq(Keys) /\ Len(r) = Len(s) + 1 /\ Len(s) \in Nat
  OBVIOUS
<1>2. r[1] = k /\ \A n \in 1..Len(s) : r[n + 1] = s[n]
  OBVIOUS
<1>3. \A n \in 1..Len(r) : n = 1 \/ (n - 1 \in 1..Len(s) /\ r[n] = s[n - 1])
  BY <1>1, <1>2
<1>4. Elements(r) = Elements(s) \union {k}
  <2>1. ASSUME NEW x \in Elements(s) PROVE x \in Elements(r)
    <3>1. PICK n \in 1..Len(s) : x = s[n]
      BY <2>1 DEF Elements
    <3>2. n + 1 \in 1..Len(r) /\ x = r[n + 1]
      BY <3>1, <1>1, <1>2
    <3> QED
      BY <3>2 DEF Elements
  <2>2. k \in Elements(r)
    BY <1>1, <1>2 DEF Elements
  <2>3. ASSUME NEW x \in Elements(r) PROVE x \in Elements(s) \union {k}
    BY <2>3, <1>1, <1>2, <1>3 DEF Elements
  <2> QED
    BY <2>1, <2>2, <2>3
<1>5. ASSUME Distinct(s), k \notin Elements(s) PROVE Distinct(r)
  <2> SUFFICES ASSUME NEW m \in 1..Len(r), NEW n \in 1..Len(r), r[m] = r[n] PROVE m = n
    BY DEF Distinct
  <2>1. \A j \in 1..Len(s) : s[j] # k
    BY <1>5 DEF Elements
  <2>2. CASE m = 1 \/ n = 1
    BY <2>2, <1>2, <1>3, <2>1
  <2>3. CASE m # 1 /\ n # 1
    <3>1. m - 1 \in 1..Len(s) /\ n - 1 \in 1..Len(s) /\ s[m - 1] = s[n - 1]
      BY <2>3, <1>3
    <3> QED
      BY <3>1, <1>5 DEF Distinct
  <2> QED
    BY <2>2, <2>3
<1> QED
  BY <1>1, <1>4, <1>5

\* A list of nodes without its first one.
LEMMA TailElements ==
  ASSUME NEW s \in Seq(Keys), s # <<>>, Distinct(s)
  PROVE  /\ Head(s) \in Keys /\ Head(s) \in Elements(s) /\ Tail(s) \in Seq(Keys)
         /\ Elements(Tail(s)) = Elements(s) \ {Head(s)}
         /\ Distinct(Tail(s))
<1>1. /\ Len(s) \in Nat \ {0} /\ Head(s) = s[1] /\ Head(s) \in Keys
      /\ Tail(s) \in Seq(Keys) /\ Len(Tail(s)) = Len(s) - 1
  OBVIOUS
<1>2. \A n \in 1..Len(Tail(s)) : Tail(s)[n] = s[n + 1]
  OBVIOUS
<1>3. Head(s) \in Elements(s)
  BY <1>1 DEF Elements
<1>4. ASSUME NEW x \in Elements(s), x # Head(s) PROVE x \in Elements(Tail(s))
  <2>1. PICK n \in 1..Len(s) : x = s[n]
    BY <1>4 DEF Elements
  <2>2. n - 1 \in 1..Len(Tail(s)) /\ Tail(s)[n - 1] = x
    BY <1>1, <1>2, <1>4, <2>1
  <2> QED
    BY <2>2 DEF Elements
<1>5. ASSUME NEW x \in Elements(Tail(s)) PROVE x \in Elements(s) /\ x # Head(s)
  <2>1. PICK n \in 1..Len(Tail(s)) : x = Tail(s)[n]
    BY <1>5 DEF Elements
  <2>2. n + 1 \in 1..Len(s) /\ x = s[n + 1] /\ 1 \in 1..Len(s) /\ n + 1 # 1
    BY <1>1, <1>2, <2>1
  <2> QED
    BY <1>1, <2>2 DEF Elements, Distinct
<1>6. Distinct(Tail(s))
  <2> SUFFICES ASSUME NEW m \in 1..Len(Tail(s)), NEW n \in 1..Len(Tail(s)),
                      Tail(s)[m] = Tail(s)[n]
               PROVE  m = n
    BY DEF Distinct
  <2>1. m + 1 \in 1..Len(s) /\ n + 1 \in 1..Len(s) /\ s[m + 1] = s[n + 1]
    BY <1>1, <1>2
  <2> QED
    BY <2>1 DEF Distinct
<1> QED
  BY <1>1, <1>3, <1>4, <1>5, <1>6

\* The empty chain lists nothing, and no chain lists anything but keys.
LEMMA NoElements ==
  ASSUME NEW s \in Seq(Keys)
  PROVE  /\ s = <<>> => Elements(s) = {} /\ Distinct(s)
         /\ Elements(s) \subseteq Keys
BY DEF Elements, Distinct

\* No two nodes of a bucket are the same: as many elements as nodes.
LEMMA DistinctCounts ==
  ASSUME NEW s \in Seq(Keys), Distinct(s)
  PROVE  Cardinality(Elements(s)) = Len(s)
<1>1. Len(s) \in Nat /\ s \in [1..Len(s) -> Keys]
  OBVIOUS
<1>2. s \in [1..Len(s) -> Elements(s)]
  BY <1>1 DEF Elements
<1>3. s \in Bijection(1..Len(s), Elements(s))
  BY <1>2 DEF Bijection, Injection, Surjection, IsInjective, Elements, Distinct
<1> QED
  BY <1>1, <1>3, FS_CountingElements DEF ExistsBijection

(***************************************************************************)
(* Types                                                                   *)
(***************************************************************************)

\* A put begins with any fresh handle, and a get may mind the frozen bit or not:
\* what follows does not depend on the choice, nor on handles never being fresh again.
PutBegins(t) == \E h \in fresh : PutWith(t, h)
GetReads(t) == \E minds \in BOOLEAN : ReadHandle(t, minds)

\* A step of thread t.
StepOf(t) ==
    \/ GetCall(t) \/ PutBegins(t) \/ LoadTable(t) \/ LoadNext(t)
    \/ Help(t) \/ FreezeBucket(t) \/ FreezeHandle(t) \/ Copy(t) \/ CountCopy(t)
    \/ ChunkDone(t) \/ TryComplete(t)
    \/ GetBucket(t) \/ GetReads(t) \/ PutBucket(t) \/ PutOld(t)
    \/ PutReplace(t) \/ PutReplaceFails(t)
    \/ PutInsert(t) \/ PutInsertFails(t) \/ Count(t) \/ Sum(t) \/ TriggerResize(t)

\* Whoever makes the step; a step of nobody leaves tables and calls alone.
TableStep ==
    \/ \E t \in Threads : StepOf(t)
    \/ /\ UNCHANGED steps
       /\ fresh' \subseteq Handles
       /\ result' \in [Threads -> Handles \union {NULL}]

\* Every step of the specification is of these kinds.
LEMMA Kinds == ASSUME TypeOK, [Next]_vars PROVE TableStep
<1>1. CASE UNCHANGED vars
  BY <1>1 DEF vars, TableStep, steps, TypeOK
<1>2. ASSUME NEW t \in Threads, PutCall(t) PROVE PutBegins(t)
  BY <1>2 DEF PutCall, PutBegins
<1>3. ASSUME NEW t \in Threads, GetLoad(t) PROVE GetReads(t)
  BY <1>3, TableAssumption DEF GetLoad, GetReads
<1> QED
  BY <1>1, <1>2, <1>3 DEF Next, Continue, TableStep, StepOf

\* A pass over the shards remains with natural numbers.
LEMMA SumMoves ==
  ASSUME NEW t \in Threads, Sum(t), shard \in [Threads -> Nat], total \in [Threads -> Nat],
         shard[t] + 1 \in Nat, total[t] + count[tbl[t]][shard[t]] \in Nat
  PROVE  shard' \in [Threads -> Nat] /\ total' \in [Threads -> Nat]
<1> DEFINE n == shard[t] + 1
           sofar == total[t] + count[tbl[t]][shard[t]]
<1>1. shard' = [shard EXCEPT ![t] = n] \/ shard' = [shard EXCEPT ![t] = 0]
  BY DEF Sum
<1>2. total' = [total EXCEPT ![t] = sofar] \/ total' = [total EXCEPT ![t] = 0]
  BY DEF Sum
<1>3. n \in Nat /\ sofar \in Nat
  OBVIOUS
<1> HIDE DEF n, sofar
<1> QED
  BY <1>1, <1>2, <1>3

\* Every step keeps the shape of the state.
LEMMA TypeStep == ASSUME IInv, TableStep PROVE TypeOK'
<1>a. TypeOK /\ Locals /\ Chunks /\ Migrating
  BY DEF IInv
<1>k. \A t \in Threads : pc[t] # "idle" => key[t] \in Keys
  BY <1>a DEF TypeOK, Locals, Local
<1>t. \A t \in Threads : pc[t] \notin {"idle", "table"} => tbl[t] \in Tables
  BY <1>a, TableAssumption DEF TypeOK, Locals, Local, Tables
<1>b. ASSUME NEW t \in Threads, pc[t] \notin {"idle", "table"}
      PROVE  /\ tbl[t] \in Tables /\ key[t] \in Keys
             /\ handle[tbl[t]][key[t]] \in Handles \union {NULL}
             /\ Index(tbl[t], key[t]) \in Buckets /\ Shard(key[t]) \in Shards
             /\ chain[tbl[t]][Index(tbl[t], key[t])] \in Seq(Keys)
             /\ count[tbl[t]][Shard(key[t])] + 1 \in Nat
  <2>1. tbl[t] \in Tables /\ key[t] \in Keys
    BY <1>b, <1>k, <1>t
  <2>2. Index(tbl[t], key[t]) \in Buckets /\ Shard(key[t]) \in Shards
    BY <2>1, IndexInTable, ShardInShards
  <2> QED
    BY <2>1, <2>2, <1>a DEF TypeOK
<1>f. ASSUME NEW t \in Threads, pc[t] \in {"freeze", "seal", "copy", "tally"}
      PROVE  at[t] \in Buckets /\ chain[tbl[t]][at[t]] \in Seq(Keys)
  <2>1. tbl[t] \in Tables
    BY <1>f, <1>t
  <2>2. at[t] \in 0..(Capacity[tbl[t]] - 1)
    BY <1>f, <2>1, <1>a, TableAssumption DEF Chunks, Busy, TypeOK
  <2>3. at[t] \in Buckets
    BY <2>1, <2>2 DEF Buckets
  <2> QED
    BY <2>1, <2>3, <1>a DEF TypeOK
<1> USE <1>a DEF TypeOK, nodes, migration, args, chunk, sum, PCs, Goto
<1>n. ASSUME NEW t \in Threads, NextBucket(t)
      PROVE  at' \in [Threads -> Nat] /\ pc' \in [Threads -> PCs]
  <2>1. at' \in [Threads -> Nat]
    BY <1>n DEF NextBucket
  <2>2. pc' \in [Threads -> PCs]
    BY <1>n DEF NextBucket
  <2> QED
    BY <2>1, <2>2
<1>1. ASSUME NEW t \in Threads, GetCall(t) PROVE TypeOK'
  BY <1>1 DEF GetCall, Value
<1>2. ASSUME NEW t \in Threads, PutBegins(t) PROVE TypeOK'
  <2>1. PICK h \in fresh : h \in Handles /\ PutWith(t, h)
    BY <1>2 DEF PutBegins
  <2> QED
    BY <2>1 DEF PutWith
<1>3. ASSUME NEW t \in Threads, LoadTable(t) PROVE TypeOK'
  BY <1>3 DEF LoadTable
<1>3b. ASSUME NEW t \in Threads, LoadNext(t) PROVE TypeOK'
  BY <1>3b DEF LoadNext
<1>4. ASSUME NEW t \in Threads, Help(t) PROVE TypeOK'
  <2>0. pc[t] = "help" /\ tbl[t] \in Tables
    BY <1>4, <1>t DEF Help, TakeChunk
  <2>1. /\ tbl[t] \in Tables /\ Capacity[tbl[t]] \in Nat /\ cursor[tbl[t]] \in Nat
        /\ Lesser(cursor[tbl[t]] + CHUNK, Capacity[tbl[t]]) \in Nat
    BY <2>0, TableAssumption DEF Lesser
  <2>2. CASE cursor[tbl[t]] < Capacity[tbl[t]]
    BY <1>4, <2>1, <2>2 DEF Help, TakeChunk
  <2>3. CASE ~(cursor[tbl[t]] < Capacity[tbl[t]])
    BY <1>4, <2>1, <2>3 DEF Help, TakeChunk
  <2> QED
    BY <2>2, <2>3
<1>5. ASSUME NEW t \in Threads, FreezeBucket(t) PROVE TypeOK'
  <2>1. pc[t] = "freeze"
    BY <1>5 DEF FreezeBucket
  <2>2. at[t] \in Buckets /\ tbl[t] \in Tables /\ chain[tbl[t]][at[t]] \in Seq(Keys)
    BY <2>1, <1>b, <1>f
  <2>3. CASE chain[tbl[t]][at[t]] = <<>>
    BY <1>5, <1>n, <2>2, <2>3 DEF FreezeBucket
  <2>4. CASE chain[tbl[t]][at[t]] # <<>>
    BY <1>5, <2>2, <2>4 DEF FreezeBucket
  <2> QED
    BY <2>3, <2>4
<1>6. ASSUME NEW t \in Threads, FreezeHandle(t) PROVE TypeOK'
  BY <1>6, <1>t DEF FreezeHandle
<1>c. ASSUME NEW t \in Threads, pc[t] \in {"copy", "tally"}
      PROVE  /\ tbl[t] \in Tables /\ tbl[t] + 1 \in Tables
             /\ Head(todo[t]) \in Keys /\ Tail(todo[t]) \in Seq(Keys)
             /\ Index(tbl[t] + 1, Head(todo[t])) \in Buckets /\ Shard(Head(todo[t])) \in Shards
  <2>1. /\ tbl[t] \in Tables /\ tbl[t] + 1 \in Tables
        /\ todo[t] \in Seq(Keys) /\ todo[t] # <<>> /\ Distinct(todo[t])
    BY <1>c, <1>t DEF Chunks, Locals, Local, Migrating
  <2>2. Head(todo[t]) \in Keys /\ Tail(todo[t]) \in Seq(Keys)
    BY <2>1, TailElements
  <2> QED
    BY <2>1, <2>2, IndexInTable, ShardInShards
<1>7. ASSUME NEW t \in Threads, Copy(t) PROVE TypeOK'
  <2> DEFINE k == Head(todo[t])
             next == tbl[t] + 1
  <2>1. /\ tbl[t] \in Tables /\ next \in Tables /\ k \in Keys /\ Index(next, k) \in Buckets
    BY <1>7, <1>c DEF Copy
  <2>2. <<k>> \o chain[next][Index(next, k)] \in Seq(Keys)
    BY <2>1, ConsElements
  <2>3. handle[tbl[t]][k] \in Handles \union {NULL}
    BY <2>1
  <2>4. handle' \in [Tables -> [Keys -> Handles \union {NULL}]]
    BY <1>7, <2>1, <2>3 DEF Copy
  <2>5. chain' \in [Tables -> [Buckets -> Seq(Keys)]]
    BY <1>7, <2>1, <2>2 DEF Copy
  <2> QED
    BY <1>7, <2>4, <2>5 DEF Copy
<1>7b. ASSUME NEW t \in Threads, CountCopy(t) PROVE TypeOK'
  <2> DEFINE k == Head(todo[t])
             next == tbl[t] + 1
  <2>1. next \in Tables /\ Tail(todo[t]) \in Seq(Keys) /\ Shard(k) \in Shards
    BY <1>7b, <1>c DEF CountCopy, CountIn
  <2>2. count' \in [Tables -> [Shards -> Nat]]
    <3> DEFINE n == count[next][Shard(k)] + 1
    <3>1. count' = [count EXCEPT ![next][Shard(k)] = n]
      BY <1>7b DEF CountCopy, CountIn
    <3>2. n \in Nat
      BY <2>1
    <3> HIDE DEF n
    <3> QED
      BY <3>1, <3>2, <2>1
  <2>3. todo' \in [Threads -> Seq(Keys)]
    BY <1>7b, <2>1 DEF CountCopy, CountIn
  <2>4. pc' \in [Threads -> PCs] /\ at' \in [Threads -> Nat]
    <3>1. CASE Tail(todo[t]) = <<>>
      BY <1>7b, <1>n, <3>1 DEF CountCopy, CountIn
    <3>2. CASE Tail(todo[t]) # <<>>
      BY <1>7b, <3>2 DEF CountCopy, CountIn
    <3> QED
      BY <3>1, <3>2
  <2> QED
    BY <1>7b, <2>2, <2>3, <2>4 DEF CountCopy, CountIn
<1>8. ASSUME NEW t \in Threads, ChunkDone(t) PROVE TypeOK'
  <2>1. tbl[t] \in Tables /\ upto[t] - from[t] \in Nat
    BY <1>8, <1>t DEF ChunkDone, Chunks, Busy
  <2>2. done' \in [Tables -> Nat]
    BY <1>8, <2>1 DEF ChunkDone
  <2>3. /\ pc' \in [Threads -> PCs] /\ from' \in [Threads -> Nat]
        /\ upto' \in [Threads -> Nat] /\ at' \in [Threads -> Nat]
    BY <1>8 DEF ChunkDone, LeaveChunk
  <2>4. UNCHANGED <<root, resizing, cursor, count, nodes, fresh, args, head, old, todo,
                    sum, result, window>>
    BY <1>8 DEF ChunkDone
  <2> QED
    BY <2>2, <2>3, <2>4
<1>9. ASSUME NEW t \in Threads, TryComplete(t) PROVE TypeOK'
  <2>1. tbl[t] \in Tables /\ tbl[t] + 1 \in Tables
    BY <1>9, <1>t DEF TryComplete, SwitchRoot, Chunks, Locals, Local
  <2> QED
    BY <1>9, <2>1 DEF TryComplete, SwitchRoot
<1>10. ASSUME NEW t \in Threads, GetBucket(t) PROVE TypeOK'
  BY <1>10 DEF GetBucket, Return
<1>10b. ASSUME NEW t \in Threads, GetReads(t) PROVE TypeOK'
  <2>1. handle[tbl[t]][key[t]] \in Handles \union {NULL}
    BY <1>10b, <1>b DEF GetReads, ReadHandle
  <2> QED
    BY <1>10b, <2>1 DEF GetReads, ReadHandle, Return
<1>11. ASSUME NEW t \in Threads, PutBucket(t) PROVE TypeOK'
  <2>1. chain[tbl[t]][Index(tbl[t], key[t])] \in Seq(Keys)
    BY <1>11, <1>b DEF PutBucket
  <2> QED
    BY <1>11, <2>1 DEF PutBucket
<1>12. ASSUME NEW t \in Threads, PutOld(t) PROVE TypeOK'
  <2>1. handle[tbl[t]][key[t]] \in Handles \union {NULL}
    BY <1>12, <1>b DEF PutOld
  <2> QED
    BY <1>12, <2>1 DEF PutOld, SeeOld
<1>12b. ASSUME NEW t \in Threads, PutReplaceFails(t) PROVE TypeOK'
  <2>1. handle[tbl[t]][key[t]] \in Handles \union {NULL}
    BY <1>12b, <1>b DEF PutReplaceFails
  <2> QED
    BY <1>12b, <2>1 DEF PutReplaceFails, SeeOld
<1>13. ASSUME NEW t \in Threads, PutReplace(t) PROVE TypeOK'
  <2>1. new[t] \in Handles /\ tbl[t] \in Tables /\ key[t] \in Keys
    BY <1>13, <1>b DEF PutReplace, Locals, Local
  <2> QED
    BY <1>13, <2>1 DEF PutReplace, Return, Lands
<1>14. ASSUME NEW t \in Threads, PutInsert(t) PROVE TypeOK'
  <2> DEFINE b == Index(tbl[t], key[t])
  <2>1. new[t] \in Handles /\ tbl[t] \in Tables /\ key[t] \in Keys /\ b \in Buckets
    BY <1>14, <1>b DEF PutInsert, LinkNode, Locals, Local
  <2>2. <<key[t]>> \o head[t] \in Seq(Keys)
    BY <2>1, ConsElements
  <2>3. chain' \in [Tables -> [Buckets -> Seq(Keys)]]
    BY <1>14, <2>1, <2>2 DEF PutInsert, LinkNode
  <2>4. /\ handle' \in [Tables -> [Keys -> Handles \union {NULL}]]
        /\ window' \in [Threads -> SUBSET (Handles \union {NULL})]
    BY <1>14, <2>1 DEF PutInsert, LinkNode, Lands
  <2>5. /\ head' \in [Threads -> Seq(Keys)] /\ pc' \in [Threads -> PCs]
        /\ UNCHANGED <<root, migration, frozen, sealed, fresh, args, old, chunk, sum, result>>
    BY <1>14 DEF PutInsert, LinkNode
  <2> QED
    BY <2>3, <2>4, <2>5
<1>15. ASSUME NEW t \in Threads, PutInsertFails(t) PROVE TypeOK'
  <2>1. head' \in [Threads -> Seq(Keys)] /\ pc' \in [Threads -> PCs]
    BY <1>15 DEF PutInsertFails
  <2>2. UNCHANGED <<root, migration, nodes, fresh, args, old, chunk, sum, result, window>>
    BY <1>15 DEF PutInsertFails
  <2> QED
    BY <2>1, <2>2
<1>16. ASSUME NEW t \in Threads, Count(t) PROVE TypeOK'
  <2>1. count' \in [Tables -> [Shards -> Nat]]
    BY <1>16, <1>b DEF Count
  <2>2. CASE pc' = [pc EXCEPT ![t] = "sum"] /\ UNCHANGED args
    BY <1>16, <2>1, <2>2 DEF Count
  <2>3. CASE Return(t)
    BY <1>16, <2>1, <2>3 DEF Count, Return
  <2> QED
    BY <1>16, <2>2, <2>3 DEF Count
<1>17. ASSUME NEW t \in Threads, Sum(t) PROVE TypeOK'
  <2>1. tbl[t] \in Tables /\ shard[t] \in Shards
    BY <1>17, <1>t DEF Sum, Locals, Local
  <2>2. shard[t] + 1 \in Nat /\ total[t] + count[tbl[t]][shard[t]] \in Nat
    BY <2>1
  <2>3. shard' \in [Threads -> Nat] /\ total' \in [Threads -> Nat]
    BY <1>17, <2>2, SumMoves
  <2>4. /\ pc' \in [Threads -> PCs] /\ key' \in [Threads -> Keys \union {NULL}]
        /\ new' \in [Threads -> Handles \union {NULL}]
        /\ tbl' \in [Threads -> Tables \union {0}]
    <3>1. CASE UNCHANGED <<pc, args>>
      BY <3>1
    <3>2. CASE Goto(t, "trigger") /\ UNCHANGED args
      BY <3>2
    <3>3. CASE Return(t)
      BY <3>3 DEF Return
    <3> QED
      BY <1>17, <3>1, <3>2, <3>3 DEF Sum
  <2>5. UNCHANGED <<root, migration, nodes, fresh, head, old, chunk, result, window>>
    BY <1>17 DEF Sum
  <2> QED
    BY <2>3, <2>4, <2>5
<1>17b. ASSUME NEW t \in Threads, TriggerResize(t) PROVE TypeOK'
  BY <1>17b DEF TriggerResize, Return
<1>18. CASE /\ UNCHANGED steps
            /\ fresh' \subseteq Handles
            /\ result' \in [Threads -> Handles \union {NULL}]
  BY <1>18 DEF steps
<1> QED
  BY <1>1, <1>2, <1>3, <1>3b, <1>4, <1>5, <1>6, <1>7, <1>7b, <1>8, <1>9, <1>10, <1>10b, <1>11,
     <1>12, <1>12b, <1>13, <1>14, <1>15, <1>16, <1>17, <1>17b, <1>18 DEF TableStep, StepOf

(***************************************************************************)
(* Frames                                                                  *)
(***************************************************************************)

\* What thread u has in its hands.
Hands(u) ==
    <<pc[u], key[u], new[u], tbl[u], head[u], old[u], from[u], upto[u], at[u], todo[u],
      shard[u], total[u]>>

\* A thread's step leaves alone what the other threads have in their hands.
LEMMA OthersStay ==
  ASSUME TypeOK, NEW t \in Threads, StepOf(t), NEW u \in Threads, u # t
  PROVE  Hands(u)' = Hands(u)
<1> USE DEF TypeOK, Hands, nodes, migration, args, chunk, sum, Goto
<1>1. CASE GetCall(t)
  BY <1>1 DEF GetCall
<1>2. CASE PutBegins(t)
  BY <1>2 DEF PutBegins, PutWith
<1>3. CASE LoadTable(t)
  BY <1>3 DEF LoadTable
<1>4. CASE LoadNext(t)
  BY <1>4 DEF LoadNext
<1>5. CASE Help(t)
  BY <1>5 DEF Help, TakeChunk
<1>6. CASE FreezeBucket(t)
  BY <1>6 DEF FreezeBucket, NextBucket
<1>7. CASE FreezeHandle(t)
  BY <1>7 DEF FreezeHandle
<1>8. CASE Copy(t)
  BY <1>8 DEF Copy
<1>8b. CASE CountCopy(t)
  BY <1>8b DEF CountCopy, CountIn, NextBucket
<1>9. CASE ChunkDone(t)
  BY <1>9 DEF ChunkDone, LeaveChunk
<1>10. CASE TryComplete(t)
  BY <1>10 DEF TryComplete, SwitchRoot
<1>11. CASE GetBucket(t)
  BY <1>11 DEF GetBucket, Return
<1>12. CASE GetReads(t)
  BY <1>12 DEF GetReads, ReadHandle, Return
<1>13. CASE PutBucket(t)
  BY <1>13 DEF PutBucket
<1>14. CASE PutOld(t)
  BY <1>14 DEF PutOld, SeeOld
<1>15. CASE PutReplace(t)
  BY <1>15 DEF PutReplace, Return
<1>16. CASE PutReplaceFails(t)
  BY <1>16 DEF PutReplaceFails, SeeOld
<1>17. CASE PutInsert(t)
  BY <1>17 DEF PutInsert, LinkNode
<1>18. CASE PutInsertFails(t)
  BY <1>18 DEF PutInsertFails
<1>19. CASE Count(t)
  BY <1>19 DEF Count, Return
<1>20. CASE Sum(t)
  BY <1>20 DEF Sum, Return
<1>21. CASE TriggerResize(t)
  BY <1>21 DEF TriggerResize, Return
<1> QED
  BY <1>1, <1>2, <1>3, <1>4, <1>5, <1>6, <1>7, <1>8, <1>8b, <1>9, <1>10, <1>11, <1>12, <1>13,
     <1>14, <1>15, <1>16, <1>17, <1>18, <1>19, <1>20, <1>21 DEF StepOf

\* The steps in which a call finds its way, and nothing of the tables changes
\* but the counters and the order to resize; a chunk is in nobody's hands.
Wayfinding(t) ==
    \/ GetCall(t) \/ PutBegins(t) \/ LoadTable(t) \/ LoadNext(t)
    \/ GetBucket(t) \/ GetReads(t) \/ PutBucket(t) \/ PutOld(t)
    \/ PutReplaceFails(t) \/ PutInsertFails(t) \/ Count(t) \/ Sum(t) \/ TriggerResize(t)

\* Finding the way disturbs neither nodes nor chunks.
LEMMA WayfindingFrame ==
  ASSUME TypeOK, NEW t \in Threads, Wayfinding(t)
  PROVE  /\ UNCHANGED <<root, cursor, done, nodes>>
         /\ ~Busy(t) /\ ~Busy(t)'
<1> USE DEF TypeOK, Busy, nodes, migration, Goto
<1>1. CASE GetCall(t)
  BY <1>1 DEF GetCall
<1>2. CASE PutBegins(t)
  BY <1>2 DEF PutBegins, PutWith
<1>3. CASE LoadTable(t)
  BY <1>3 DEF LoadTable
<1>4. CASE LoadNext(t)
  BY <1>4 DEF LoadNext
<1>11. CASE GetBucket(t)
  BY <1>11 DEF GetBucket, Return
<1>12. CASE GetReads(t)
  BY <1>12 DEF GetReads, ReadHandle, Return
<1>13. CASE PutBucket(t)
  BY <1>13 DEF PutBucket
<1>14. CASE PutOld(t)
  BY <1>14 DEF PutOld, SeeOld
<1>16. CASE PutReplaceFails(t)
  BY <1>16 DEF PutReplaceFails, SeeOld
<1>18. CASE PutInsertFails(t)
  BY <1>18 DEF PutInsertFails
<1>19. CASE Count(t)
  BY <1>19 DEF Count, Return
<1>20. CASE Sum(t)
  BY <1>20 DEF Sum, Return
<1>21. CASE TriggerResize(t)
  BY <1>21 DEF TriggerResize, Return
<1> QED
  BY <1>1, <1>2, <1>3, <1>4, <1>11, <1>12, <1>13, <1>14, <1>16, <1>18, <1>19, <1>20, <1>21
  DEF Wayfinding

\* Those, and the steps that change tables.
LEMMA StepsOf ==
  ASSUME NEW t \in Threads, StepOf(t)
  PROVE  \/ Wayfinding(t)
         \/ Help(t) \/ FreezeBucket(t) \/ FreezeHandle(t) \/ Copy(t) \/ CountCopy(t)
         \/ ChunkDone(t) \/ TryComplete(t) \/ PutReplace(t) \/ PutInsert(t)
BY DEF StepOf, Wayfinding

(***************************************************************************)
(* What the steps on nodes do                                              *)
(***************************************************************************)

\* A call that has read table_ is in that table or in an earlier one.
LEMMA InTable ==
  ASSUME TypeOK, Locals, NEW t \in Threads, pc[t] \notin {"idle", "table"}
  PROVE  /\ tbl[t] \in Tables /\ tbl[t] <= root /\ key[t] \in Keys
         /\ Index(tbl[t], key[t]) \in 0..(Capacity[tbl[t]] - 1)
         /\ Index(tbl[t], key[t]) \in Buckets /\ Shard(key[t]) \in Shards
<1>1. tbl[t] \in Tables /\ tbl[t] <= root /\ key[t] \in Keys
  BY TableAssumption DEF TypeOK, Locals, Local, Tables
<1> QED
  BY <1>1, IndexInTable, ShardInShards

\* A chunk is a chunk of the current table, which has a successor.
LEMMA InChunk ==
  ASSUME TypeOK, Locals, Chunks, NEW t \in Threads, Busy(t)
  PROVE  /\ tbl[t] = root /\ resizing[root] /\ root + 1 \in Tables
         /\ from[t] \in Nat /\ upto[t] \in Nat /\ at[t] \in Nat
         /\ from[t] < upto[t] /\ upto[t] <= cursor[root] /\ cursor[root] <= Capacity[root]
         /\ from[t] <= at[t] /\ at[t] <= upto[t] /\ (at[t] = upto[t] <=> pc[t] = "done")
         /\ pc[t] # "done" => at[t] \in 0..(Capacity[root] - 1) /\ at[t] \in Buckets
         /\ root \in Tables /\ cursor[root] \in Nat
<1>1. /\ tbl[t] = root /\ resizing[root] /\ root + 1 \in Tables /\ root \in Tables
      /\ from[t] \in Nat /\ upto[t] \in Nat /\ at[t] \in Nat
      /\ from[t] < upto[t] /\ upto[t] <= cursor[root] /\ cursor[root] <= Capacity[root]
      /\ from[t] <= at[t] /\ at[t] <= upto[t] /\ (at[t] = upto[t] <=> pc[t] = "done")
  BY DEF TypeOK, Locals, Local, Chunks, Busy
<1>2. Capacity[root] \in Nat /\ cursor[root] \in Nat
  BY <1>1, TableAssumption DEF TypeOK
<1>3. pc[t] # "done" => at[t] \in 0..(Capacity[root] - 1)
  BY <1>1, <1>2
<1> QED
  BY <1>1, <1>2, <1>3 DEF Buckets

\* A copy of the node of key k goes into the successor, table n.
Copies(t, k, n) ==
    /\ n = root + 1 /\ tbl[t] = root /\ pc[t] = "copy" /\ Busy(t)
    /\ k = Head(todo[t]) /\ k \in Elements(todo[t]) /\ at[t] = Index(root, k)
    /\ k \in Nodes(root) /\ k \notin Nodes(n) /\ sealed[root][k] /\ Left(root, k)
    /\ handle' = [handle EXCEPT ![n][k] = handle[root][k]]
    /\ chain' = [chain EXCEPT ![n][Index(n, k)] = <<k>> \o chain[n][Index(n, k)]]
    /\ pc' = [pc EXCEPT ![t] = "tally"]
    /\ UNCHANGED <<root, migration, frozen, sealed, fresh, args, head, old, chunk, sum,
                   result, window>>

\* A copy is made once: of a sealed node whose key the successor lacks.
LEMMA CopyFacts ==
  ASSUME IInv, NEW t \in Threads, Copy(t)
  PROVE  \E k \in Keys, n \in Tables : Copies(t, k, n)
<1> DEFINE k == Head(todo[t])
           n == root + 1
<1>a. TypeOK /\ Locals /\ Chunks /\ Chains /\ Migrating
  BY DEF IInv
<1>1. pc[t] = "copy" /\ Busy(t)
  BY DEF Copy, Busy
<1>2. tbl[t] = root /\ n \in Tables /\ at[t] \in Buckets /\ root \in Tables
  BY <1>a, <1>1, InChunk DEF TypeOK
<1>3. /\ todo[t] \in Seq(Keys) /\ todo[t] # <<>> /\ Distinct(todo[t])
      /\ Elements(todo[t]) \subseteq Elements(chain[root][at[t]])
      /\ sealed[root][k]
  BY <1>a, <1>1, <1>2 DEF Migrating, TypeOK
<1>4. k \in Keys /\ k \in Elements(todo[t])
  BY <1>3, TailElements
<1>5. k \in Nodes(root) /\ at[t] = Index(root, k)
  BY <1>a, <1>2, <1>3, <1>4 DEF Chains
<1>6. Left(root, k)
  BY <1>1, <1>2, <1>4, <1>5 DEF Left, Copying, Remaining
<1>7. k \notin Nodes(n)
  BY <1>a, <1>2, <1>4, <1>6 DEF Migrating
<1>8. /\ handle' = [handle EXCEPT ![n][k] = handle[root][k]]
      /\ chain' = [chain EXCEPT ![n][Index(n, k)] = <<k>> \o chain[n][Index(n, k)]]
      /\ pc' = [pc EXCEPT ![t] = "tally"]
      /\ UNCHANGED <<root, migration, frozen, sealed, fresh, args, head, old, chunk, sum,
                     result, window>>
  BY <1>2 DEF Copy, Goto
<1>9. Copies(t, k, n)
  BY <1>1, <1>2, <1>3, <1>4, <1>5, <1>6, <1>7, <1>8 DEF Copies
<1> QED
  BY <1>2, <1>4, <1>9

\* The successor gets a node, and no other table does.
LEMMA CopyNodes ==
  ASSUME TypeOK, NEW t, NEW k \in Keys, NEW n \in Tables, Copies(t, k, n)
  PROVE  \A i \in Tables : Nodes(i)' = IF i = n THEN Nodes(i) \union {k} ELSE Nodes(i)
<1> SUFFICES ASSUME NEW i \in Tables
             PROVE  Nodes(i)' = IF i = n THEN Nodes(i) \union {k} ELSE Nodes(i)
  OBVIOUS
<1>1. /\ handle[root][k] # NULL /\ handle' = [handle EXCEPT ![n][k] = handle[root][k]]
      /\ handle \in [Tables -> [Keys -> Handles \union {NULL}]]
  BY DEF Copies, Nodes, TypeOK
<1>2. CASE i = n
  <2>1. \A x \in Keys : handle'[n][x] = IF x = k THEN handle[root][k] ELSE handle[n][x]
    BY <1>1
  <2> QED
    BY <1>1, <1>2, <2>1 DEF Nodes
<1>3. CASE i # n
  BY <1>1, <1>3 DEF Nodes
<1> QED
  BY <1>2, <1>3

\* The copy that t has linked for key k is counted in the successor, table n.
Tallies(t, k, n) ==
    /\ n = root + 1 /\ tbl[t] = root /\ pc[t] = "tally" /\ Busy(t) /\ tbl[t] + 1 = n
    /\ k = Head(todo[t]) /\ todo[t] # <<>>
    /\ count' = [count EXCEPT ![n][Shard(k)] = count[n][Shard(k)] + 1]
    /\ todo' = [todo EXCEPT ![t] = Tail(todo[t])]
    /\ \/ Tail(todo[t]) = <<>> /\ pc'[t] \in {"freeze", "done"}
       \/ Tail(todo[t]) # <<>> /\ pc'[t] = "seal" /\ at'[t] = at[t]
    /\ pc'[t] # "count" /\ pc'[t] # "tally"
    /\ UNCHANGED <<root, resizing, cursor, done, nodes, fresh, args, head, old,
                   from, upto, sum, result, window>>

\* What is counted is the copy of the node at hand.
LEMMA CountCopyFacts ==
  ASSUME IInv, NEW t \in Threads, CountCopy(t)
  PROVE  \E k \in Keys, n \in Tables : Tallies(t, k, n)
<1> DEFINE k == Head(todo[t])
           n == root + 1
<1>a. TypeOK /\ Locals /\ Chunks /\ Migrating
  BY DEF IInv
<1>1. pc[t] = "tally" /\ Busy(t)
  BY DEF CountCopy, CountIn, Busy
<1>2. tbl[t] = root /\ n \in Tables /\ tbl[t] + 1 = n
  BY <1>a, <1>1, InChunk
<1>3. todo[t] \in Seq(Keys) /\ todo[t] # <<>> /\ Distinct(todo[t])
  BY <1>a, <1>1 DEF Migrating, TypeOK
<1>4. k \in Keys
  BY <1>3, TailElements
<1>5. /\ count' = [count EXCEPT ![n][Shard(k)] = count[n][Shard(k)] + 1]
      /\ todo' = [todo EXCEPT ![t] = Tail(todo[t])]
      /\ UNCHANGED <<root, resizing, cursor, done, nodes, fresh, args, head, old,
                     from, upto, sum, result, window>>
  BY <1>2 DEF CountCopy, CountIn
<1>6. \/ Tail(todo[t]) = <<>> /\ pc'[t] \in {"freeze", "done"}
      \/ Tail(todo[t]) # <<>> /\ pc'[t] = "seal" /\ at'[t] = at[t]
  BY <1>a, <1>1 DEF CountCopy, CountIn, NextBucket, Goto, TypeOK
<1>7. Tallies(t, k, n)
  BY <1>1, <1>2, <1>3, <1>5, <1>6 DEF Tallies
<1> QED
  BY <1>2, <1>4, <1>7

\* A table that has been left is sealed.
LEMMA LeftBehind ==
  ASSUME IInv, NEW i \in Tables, i < root
  PROVE  /\ i + 1 \in Tables
         /\ \A b \in 0..(Capacity[i] - 1) : ~Untouched(i, b) /\ frozen[i][b]
         /\ \A k \in Keys : ~Left(i, k)
<1>a. TypeOK /\ Locals /\ Chunks /\ Migrating
  BY DEF IInv
<1>1. i + 1 \in Tables /\ cursor[i] = Capacity[i] /\ Capacity[i] \in Nat /\ i # root
  BY <1>a, TableAssumption DEF Chunks, TypeOK, Tables
<1>2. \A t \in Threads : Busy(t) => tbl[t] # i
  BY <1>a, <1>1 DEF Chunks
<1>3. \A b \in 0..(Capacity[i] - 1) : ~Untouched(i, b)
  BY <1>1, <1>2 DEF Untouched, Ahead
<1>4. \A k \in Keys : ~Left(i, k)
  BY <1>2, <1>3, IndexInTable DEF Left, Copying, Busy
<1> QED
  BY <1>a, <1>1, <1>3, <1>4 DEF Migrating

\* A put changes the current table only, and there a key whose turn to be
\* copied has not come.
LEMMA PutReplaceFacts ==
  ASSUME IInv, NEW t \in Threads, PutReplace(t)
  PROVE  /\ tbl[t] = root /\ key[t] \in Keys /\ key[t] \in Nodes(root) /\ new[t] \in Handles
         /\ ~sealed[root][key[t]] /\ ~Busy(t) /\ ~Busy(t)'
         /\ root + 1 \in Tables => Left(root, key[t])
         /\ handle' = [handle EXCEPT ![root][key[t]] = new[t]]
         /\ \A i \in Tables : Nodes(i)' = Nodes(i)
<1>a. TypeOK /\ Locals /\ Chunks /\ Migrating
  BY DEF IInv
<1>1. pc[t] = "swap" /\ ~sealed[tbl[t]][key[t]] /\ ~Busy(t) /\ pc[t] # "idle"
  BY DEF PutReplace, Busy
<1>2. /\ tbl[t] \in Tables /\ key[t] \in Keys /\ tbl[t] <= root
      /\ key[t] \in Nodes(tbl[t]) /\ new[t] \in Handles
  BY <1>a, <1>1, InTable DEF Locals, Local, TypeOK
<1>3. tbl[t] = root
  <2>1. tbl[t] \in Nat /\ root \in Nat
    BY <1>a, <1>2 DEF TypeOK, Tables
  <2>2. ASSUME tbl[t] < root PROVE FALSE
    <3>1. tbl[t] + 1 \in Tables /\ ~Left(tbl[t], key[t])
      BY <1>2, <2>2, LeftBehind
    <3> QED
      BY <1>a, <1>1, <1>2, <3>1 DEF Migrating
  <2> QED
    BY <1>2, <2>1, <2>2
<1>4. root + 1 \in Tables => Left(root, key[t])
  BY <1>a, <1>1, <1>2, <1>3 DEF Migrating
<1>5. handle' = [handle EXCEPT ![root][key[t]] = new[t]] /\ ~Busy(t)'
  BY <1>a, <1>3 DEF PutReplace, Return, Goto, Busy, TypeOK
<1>6. ASSUME NEW i \in Tables PROVE Nodes(i)' = Nodes(i)
  <2>1. handle \in [Tables -> [Keys -> Handles \union {NULL}]] /\ new[t] # NULL
    BY <1>a, <1>2, DistinguishedValues DEF TypeOK
  <2> QED
    BY <1>2, <1>3, <1>5, <2>1 DEF Nodes
<1> QED
  BY <1>1, <1>2, <1>3, <1>4, <1>5, <1>6

\* The same for a put that links a node: nobody has come to its bucket yet.
LEMMA PutInsertFacts ==
  ASSUME IInv, NEW t \in Threads, PutInsert(t), NEW b, b = Index(root, key[t])
  PROVE  /\ tbl[t] = root /\ key[t] \in Keys /\ key[t] \notin Nodes(root) /\ new[t] \in Handles
         /\ b \in 0..(Capacity[root] - 1) /\ b \in Buckets
         /\ ~frozen[root][b] /\ ~Busy(t) /\ ~Busy(t)'
         /\ root + 1 \in Tables => Untouched(root, b)
         /\ key[t] \notin Elements(chain[root][b])
         /\ handle' = [handle EXCEPT ![root][key[t]] = new[t]]
         /\ chain' = [chain EXCEPT ![root][b] = <<key[t]>> \o chain[root][b]]
         /\ \A i \in Tables :
              Nodes(i)' = IF i = root THEN Nodes(i) \union {key[t]} ELSE Nodes(i)
<1>a. TypeOK /\ Locals /\ Chunks /\ Chains /\ Migrating
  BY DEF IInv
<1> DEFINE c == Index(tbl[t], key[t])
<1>1. /\ pc[t] = "insert" /\ ~frozen[tbl[t]][c] /\ chain[tbl[t]][c] = head[t] /\ ~Busy(t)
      /\ pc[t] # "idle"
  BY DEF PutInsert, LinkNode, Busy
<1>2. /\ tbl[t] \in Tables /\ key[t] \in Keys /\ tbl[t] <= root
      /\ c \in 0..(Capacity[tbl[t]] - 1) /\ c \in Buckets
      /\ key[t] \notin Elements(head[t]) /\ new[t] \in Handles
  BY <1>a, <1>1, InTable DEF Locals, Local, TypeOK
<1>3. tbl[t] = root
  <2>1. tbl[t] \in Nat /\ root \in Nat
    BY <1>a, <1>2 DEF TypeOK, Tables
  <2>2. ASSUME tbl[t] < root PROVE FALSE
    <3>1. frozen[tbl[t]][c]
      BY <1>2, <2>2, LeftBehind
    <3> QED
      BY <1>1, <3>1
  <2> QED
    BY <1>2, <2>1, <2>2
<1>4. root + 1 \in Tables => Untouched(root, b)
  BY <1>a, <1>1, <1>2, <1>3 DEF Migrating
<1>5. key[t] \notin Nodes(root)
  BY <1>a, <1>1, <1>2, <1>3 DEF Chains
<1>6. /\ handle' = [handle EXCEPT ![root][key[t]] = new[t]]
      /\ chain' = [chain EXCEPT ![root][b] = <<key[t]>> \o chain[root][b]]
      /\ ~Busy(t)'
  BY <1>a, <1>1, <1>3 DEF PutInsert, LinkNode, Goto, Busy, TypeOK
<1>7. ASSUME NEW i \in Tables
      PROVE  Nodes(i)' = IF i = root THEN Nodes(i) \union {key[t]} ELSE Nodes(i)
  <2>1. handle \in [Tables -> [Keys -> Handles \union {NULL}]] /\ new[t] # NULL
    BY <1>a, <1>2, DistinguishedValues DEF TypeOK
  <2>2. CASE i = root
    <3>1. \A x \in Keys : handle'[i][x] = IF x = key[t] THEN new[t] ELSE handle[i][x]
      BY <1>2, <1>3, <1>6, <2>1, <2>2
    <3> QED
      BY <1>2, <2>1, <2>2, <3>1 DEF Nodes
  <2>3. CASE i # root
    BY <1>2, <1>3, <1>6, <2>1, <2>3 DEF Nodes
  <2> QED
    BY <2>2, <2>3
<1> QED
  BY <1>1, <1>2, <1>3, <1>4, <1>5, <1>6, <1>7

\* Tables only grow: nodes are not removed, a resize is not called off, and
\* the current table moves forward.
LEMMA Growth ==
  ASSUME IInv, NEW t \in Threads, StepOf(t)
  PROVE  /\ root <= root'
         /\ \A i \in Tables : resizing[i] => resizing[i]'
         /\ \A i \in Tables : Nodes(i) \subseteq Nodes(i)'
<1>a. TypeOK /\ Locals /\ Chunks
  BY DEF IInv
<1>r. root \in Nat /\ resizing \in [Tables -> BOOLEAN]
  BY <1>a DEF TypeOK, Tables
<1>1. CASE Wayfinding(t)
  <2>1. UNCHANGED <<root, nodes>>
    BY <1>1, <1>a, WayfindingFrame
  <2>2. \A i \in Tables : resizing[i] => resizing[i]'
    <3>1. CASE UNCHANGED resizing
      BY <3>1
    <3>2. CASE TriggerResize(t)
      BY <3>2, <1>r DEF TriggerResize
    <3> QED
      BY <1>1, <3>1, <3>2 DEF Wayfinding, GetCall, PutBegins, PutWith, LoadTable, LoadNext,
         GetBucket, GetReads, ReadHandle, PutBucket, PutOld, PutReplaceFails,
         PutInsertFails, Count, Sum, migration
  <2> QED
    BY <1>r, <2>1, <2>2 DEF nodes, Nodes
<1>2. CASE Help(t) \/ FreezeBucket(t) \/ FreezeHandle(t) \/ CountCopy(t) \/ ChunkDone(t)
  <2>1. UNCHANGED <<root, resizing, handle>>
    BY <1>2 DEF Help, TakeChunk, FreezeBucket, FreezeHandle, CountCopy, CountIn, ChunkDone,
       nodes, migration
  <2> QED
    BY <1>r, <2>1 DEF Nodes
<1>3. CASE TryComplete(t)
  <2>1. UNCHANGED <<resizing, handle>> /\ root' \in {root, root + 1}
    BY <1>3 DEF TryComplete, SwitchRoot, nodes, migration
  <2> QED
    BY <1>r, <2>1 DEF Nodes
<1>4. CASE Copy(t)
  <2>1. PICK k \in Keys, n \in Tables : Copies(t, k, n)
    BY <1>4, CopyFacts
  <2>2. ASSUME NEW i \in Tables PROVE Nodes(i) \subseteq Nodes(i)'
    <3>1. Nodes(i)' = IF i = n THEN Nodes(i) \union {k} ELSE Nodes(i)
      BY <1>a, <2>1, CopyNodes
    <3> QED
      BY <3>1
  <2> QED
    BY <1>r, <2>1, <2>2 DEF Copies, migration
<1>5. CASE PutReplace(t)
  <2>1. UNCHANGED <<root, resizing>>
    BY <1>5 DEF PutReplace, migration
  <2> QED
    BY <1>r, <1>5, <2>1, PutReplaceFacts
<1>6. CASE PutInsert(t)
  <2>1. UNCHANGED <<root, resizing>>
    BY <1>6 DEF PutInsert, LinkNode, migration
  <2>2. ASSUME NEW i \in Tables PROVE Nodes(i) \subseteq Nodes(i)'
    <3>1. Nodes(i)' = IF i = root THEN Nodes(i) \union {key[t]} ELSE Nodes(i)
      BY <1>6, PutInsertFacts
    <3> QED
      BY <3>1
  <2> QED
    BY <1>r, <2>1, <2>2
<1> QED
  BY <1>1, <1>2, <1>3, <1>4, <1>5, <1>6, StepsOf

\* A table has no fewer nodes after a step.
LEMMA NodesGrow ==
  ASSUME NEW i \in Tables, Nodes(i) \subseteq Nodes(i)'
  PROVE  /\ IsFiniteSet(Nodes(i)) /\ IsFiniteSet(Nodes(i)')
         /\ Cardinality(Nodes(i)) \in Nat /\ Cardinality(Nodes(i)') \in Nat
         /\ Cardinality(Nodes(i)) <= Cardinality(Nodes(i)')
<1>1. Nodes(i)' \subseteq Keys
  BY DEF Nodes
<1>2. IsFiniteSet(Nodes(i)') /\ IsFiniteSet(Nodes(i))
  BY <1>1, LastTableSuffices, FS_Subset
<1> QED
  BY <1>2, FS_Subset, FS_CardinalityType

\* No shard is counted down.
LEMMA CountsGrow ==
  ASSUME IInv, NEW t \in Threads, StepOf(t), TypeOK'
  PROVE  \A i \in Tables : \A s \in Shards : count[i][s] <= count'[i][s]
<1>a. TypeOK /\ Locals /\ Chunks
  BY DEF IInv
<1>n. count \in [Tables -> [Shards -> Nat]]
  BY <1>a DEF TypeOK
<1>1. CASE UNCHANGED count
  BY <1>1, <1>n
<1>2. ASSUME NEW i, NEW s, count' = [count EXCEPT ![i][s] = @ + 1]
      PROVE  \A j \in Tables : \A r \in Shards : count[j][r] <= count'[j][r]
  BY <1>2, <1>n
<1>3. CASE Count(t)
  BY <1>2, <1>3 DEF Count
<1>4. CASE CountCopy(t)
  BY <1>2, <1>4 DEF CountCopy, CountIn
<1> QED
  BY <1>1, <1>3, <1>4
  DEF StepOf, GetCall, PutBegins, PutWith, LoadTable, LoadNext, Help, TakeChunk, FreezeBucket,
      FreezeHandle, Copy, ChunkDone, TryComplete, SwitchRoot, GetBucket, GetReads, ReadHandle,
      PutBucket, PutOld, PutReplace, PutReplaceFails, PutInsert, LinkNode, PutInsertFails,
      Sum, TriggerResize, migration

\* A sum of counters is finite.
LEMMA PartFinite ==
  ASSUME NEW c \in [Shards -> Nat],
         NEW n \in 0..NUM_SHARDS
  PROVE  IsFiniteSet(Units(c, n)) /\ Part(c, n) \in Nat
<1>0. NUM_SHARDS \in Nat \ {0} /\ n \in Nat
  BY TableAssumption
<1>1. 0..(n - 1) \subseteq Shards
  BY <1>0 DEF Shards
<1> DEFINE f == [s \in 0..(n - 1) |-> {s} \X (1..c[s])]
           S == {{s} \X (1..c[s]) : s \in 0..(n - 1)}
<1>2. IsFiniteSet(0..(n - 1))
  BY <1>0, FS_Interval
<1>3. f \in Surjection(0..(n - 1), S)
  BY DEF Surjection
<1>4. IsFiniteSet(S)
  BY <1>2, <1>3, FS_Surjection
<1>5. ASSUME NEW T \in S PROVE IsFiniteSet(T)
  <2>1. PICK s \in 0..(n - 1) : T = {s} \X (1..c[s])
    BY <1>5
  <2>2. c[s] \in Int /\ 1 \in Int
    BY <1>1, <2>1
  <2>3. IsFiniteSet(1..c[s])
    BY <2>2, FS_Interval
  <2>4. IsFiniteSet({s})
    BY FS_Singleton
  <2> QED
    BY <2>1, <2>3, <2>4, FS_Product
<1>6. IsFiniteSet(Units(c, n))
  BY <1>4, <1>5, FS_UNION DEF Units
<1> QED
  BY <1>6, FS_CardinalityType DEF Part

\* A sum of counters is no less when the counters are no less.
LEMMA PartGrows ==
  ASSUME NEW c \in [Shards -> Nat], NEW d \in [Shards -> Nat],
         \A s \in Shards : c[s] <= d[s],
         NEW n \in 0..NUM_SHARDS
  PROVE  Part(c, n) <= Part(d, n)
<1>1. 0..(n - 1) \subseteq Shards
  BY TableAssumption DEF Shards
<1>2. Units(c, n) \subseteq Units(d, n)
  <2> SUFFICES ASSUME NEW s \in 0..(n - 1), NEW m \in 1..c[s] PROVE m \in 1..d[s]
    BY DEF Units
  <2> QED
    BY <1>1
<1>3. IsFiniteSet(Units(d, n))
  BY PartFinite
<1> QED
  BY <1>2, <1>3, FS_Subset DEF Part

\* One shard more, and its count more.
LEMMA PartNext ==
  ASSUME NEW c \in [Shards -> Nat], NEW n \in Shards
  PROVE  /\ n + 1 \in 0..NUM_SHARDS /\ n \in 0..NUM_SHARDS
         /\ Part(c, n + 1) = Part(c, n) + c[n]
         /\ Part(c, 0) = 0
<1>0. NUM_SHARDS \in Nat \ {0} /\ n \in Nat /\ n + 1 \in 0..NUM_SHARDS /\ n \in 0..NUM_SHARDS
  BY TableAssumption DEF Shards
<1> DEFINE U == Units(c, n)
           P == {n} \X (1..c[n])
<1>1. IsFiniteSet(U)
  BY <1>0, PartFinite
<1>2. IsFiniteSet(P) /\ Cardinality(P) = c[n]
  <2>1. IsFiniteSet(1..c[n]) /\ Cardinality(1..c[n]) = c[n]
    <3>1. c[n] \in Nat
      OBVIOUS
    <3> QED
      BY <3>1, FS_Interval
  <2>2. IsFiniteSet({n}) /\ Cardinality({n}) = 1
    BY FS_Singleton
  <2>3. IsFiniteSet(P) /\ Cardinality(P) = 1 * c[n]
    BY <2>1, <2>2, FS_Product
  <2> QED
    BY <2>3
<1>3. Units(c, n + 1) = U \union P
  <2>1. 0..((n + 1) - 1) = (0..(n - 1)) \union {n}
    BY <1>0
  <2>2. Units(c, n + 1) = UNION {{s} \X (1..c[s]) : s \in (0..(n - 1)) \union {n}}
    BY <2>1, Zenon DEF Units
  <2> QED
    BY <2>2 DEF Units
<1>4. U \cap P = {}
  <2>1. n \notin 0..(n - 1)
    BY <1>0
  <2> QED
    BY <2>1 DEF Units
<1>5. Part(c, n + 1) = Part(c, n) + c[n]
  <2>1. Cardinality(U \union P) = Cardinality(U) + Cardinality(P) - Cardinality(U \cap P)
    BY <1>1, <1>2, FS_Union
  <2>2. Cardinality(U \cap P) = 0
    BY <1>4, FS_EmptySet
  <2>3. Cardinality(U) \in Nat /\ c[n] \in Nat
    BY <1>1, FS_CardinalityType
  <2>4. Part(c, n + 1) = Cardinality(U \union P) /\ Part(c, n) = Cardinality(U)
    BY <1>3, Zenon DEF Part
  <2> HIDE DEF U, P
  <2> QED
    BY <1>2, <2>1, <2>2, <2>3, <2>4
<1>6. Part(c, 0) = 0
  <2>1. 0..(0 - 1) = {}
    OBVIOUS
  <2>2. Units(c, 0) = {}
    BY <2>1 DEF Units
  <2> QED
    BY <2>2, FS_EmptySet DEF Part
<1> QED
  BY <1>0, <1>5, <1>6

\* What a thread knows stays true while others take steps.
LEMMA LocalOfOthers ==
  ASSUME IInv, NEW t \in Threads, StepOf(t), TypeOK', NEW u \in Threads, u # t
  PROVE  Local(u)'
<1>a. TypeOK /\ Local(u)
  BY DEF IInv, Locals
<1>1. Hands(u)' = Hands(u)
  BY <1>a, OthersStay
<1>2. /\ pc'[u] = pc[u] /\ key'[u] = key[u] /\ new'[u] = new[u] /\ tbl'[u] = tbl[u]
      /\ head'[u] = head[u] /\ shard'[u] = shard[u] /\ total'[u] = total[u]
  BY <1>1 DEF Hands
<1>3. root \in Nat /\ root' \in Nat /\ root <= root'
  BY <1>a, Growth DEF TypeOK, Tables
<1>4. CASE pc[u] \in {"idle", "table"}
  BY <1>a, <1>2, <1>4 DEF Local
<1>5. CASE pc[u] \notin {"idle", "table"}
  <2>0. PICK i \in Tables : i = tbl[u]
    BY <1>a, <1>5, TableAssumption DEF TypeOK, Local, Tables
  <2>1. resizing[i] => resizing'[i]
    BY Growth
  <2>2. Nodes(i) \subseteq Nodes(i)'
    BY Growth
  <2>3. /\ Cardinality(Nodes(i)) <= Cardinality(Nodes(i)')
        /\ Cardinality(Nodes(i)) \in Nat /\ Cardinality(Nodes(i)') \in Nat
        /\ Capacity[i] \in Nat
    BY <2>2, NodesGrow, TableAssumption
  <2>4. i \in 1..root => i \in 1..root'
    BY <1>3
  <2>5. ASSUME NEW n \in Shards, NEW sofar \in Nat, sofar <= Part(count[i], n)
        PROVE  sofar <= Part(count'[i], n)
    <3>0. n \in 0..NUM_SHARDS
      BY TableAssumption DEF Shards
    <3>1. count[i] \in [Shards -> Nat] /\ count'[i] \in [Shards -> Nat]
      BY <1>a DEF TypeOK
    <3>2. \A s \in Shards : count[i][s] <= count'[i][s]
      BY CountsGrow
    <3>3. /\ Part(count[i], n) \in Nat /\ Part(count'[i], n) \in Nat
          /\ Part(count[i], n) <= Part(count'[i], n)
      BY <3>0, <3>1, <3>2, PartGrows, PartFinite
    <3> QED
      BY <2>5, <3>3
  <2>6. total[u] \in Nat
    BY <1>a DEF TypeOK
  <2> QED
    BY <1>a, <1>2, <2>0, <2>1, <2>2, <2>3, <2>4, <2>5, <2>6 DEF Local, Elements
<1> QED
  BY <1>4, <1>5

\* The shards add up to the nodes that have been counted.
LEMMA TotalBound ==
  ASSUME TypeOK, CountsNodes, NEW i \in Tables
  PROVE  /\ Part(count[i], NUM_SHARDS) \in Nat
         /\ Part(count[i], NUM_SHARDS) <= Cardinality(Nodes(i))
<1> DEFINE Of(s) == {k \in Nodes(i) : Shard(k) = s}
           Bij(s) == Bijection(1..Cardinality(Of(s)), Of(s))
           F == [s \in Shards |-> CHOOSE f : f \in Bij(s)]
           Pairs == UNION {{s} \X (1..count[i][s]) : s \in Shards}
           g == [p \in Pairs |-> F[p[1]][p[2]]]
<1>1. IsFiniteSet(Nodes(i))
  <2>1. Nodes(i) \subseteq Keys
    BY DEF Nodes
  <2> QED
    BY <2>1, LastTableSuffices, FS_Subset
<1>2. ASSUME NEW s \in Shards
      PROVE  /\ Cardinality(Of(s)) \in Nat /\ count[i][s] \in Nat
             /\ count[i][s] <= Cardinality(Of(s))
             /\ F[s] \in Bij(s)
  <2>1. IsFiniteSet(Of(s))
    BY <1>1, FS_Subset
  <2>2. Cardinality(Of(s)) \in Nat /\ \E f : f \in Bij(s)
    BY <2>1, FS_CardinalityType DEF ExistsBijection
  <2>3. F[s] \in Bij(s)
    BY <2>2
  <2> DEFINE uncounted == {t \in Threads : Counting(t, i, s)}
  <2>4. Cardinality(uncounted) \in Nat
    BY FiniteThreads, FS_Subset, FS_CardinalityType
  <2>5. count[i][s] + Cardinality(uncounted) = Cardinality(Of(s)) /\ count[i][s] \in Nat
    BY DEF CountsNodes, TypeOK
  <2> HIDE DEF uncounted, Of
  <2> QED
    BY <2>2, <2>3, <2>4, <2>5
<1>3. ASSUME NEW p \in Pairs
      PROVE  /\ p[1] \in Shards /\ p[2] \in 1..Cardinality(Of(p[1])) /\ p = <<p[1], p[2]>>
             /\ g[p] = F[p[1]][p[2]]
  <2>1. PICK s \in Shards : p \in {s} \X (1..count[i][s])
    OBVIOUS
  <2>2. p[1] = s /\ p[2] \in 1..count[i][s] /\ p = <<p[1], p[2]>>
    BY <2>1
  <2>3. p[2] \in 1..Cardinality(Of(s))
    <3> HIDE DEF Of, F, Pairs
    <3> QED
      BY <2>2, <1>2
  <2>4. g[p] = F[p[1]][p[2]]
    OBVIOUS
  <2> HIDE DEF Of, F, Pairs, g
  <2> QED
    BY <2>2, <2>3, <2>4
<1>4. ASSUME NEW p \in Pairs PROVE g[p] \in Nodes(i) /\ Shard(g[p]) = p[1]
  <2>1. g[p] \in Of(p[1])
    BY <1>2, <1>3 DEF Bijection, Injection
  <2> HIDE DEF F, g
  <2> QED
    BY <2>1
<1> HIDE DEF g, F, Of, Pairs
<1>5. ASSUME NEW p \in Pairs, NEW q \in Pairs, g[p] = g[q] PROVE p = q
  <2>1. p[1] = q[1]
    BY <1>4, <1>5
  <2>2. F[p[1]] \in Bij(p[1])
    BY <1>2, <1>3
  <2>3. p[2] = q[2]
    <3>1. \A m, n \in 1..Cardinality(Of(p[1])) : F[p[1]][m] = F[p[1]][n] => m = n
      BY <2>2 DEF Bijection, Injection, IsInjective
    <3>2. F[p[1]][p[2]] = F[p[1]][q[2]] /\ q[2] \in 1..Cardinality(Of(p[1]))
      BY <1>3, <1>5, <2>1
    <3> QED
      BY <1>3, <3>1, <3>2
  <2> QED
    BY <1>3, <2>1, <2>3
<1>6. g \in Injection(Pairs, Nodes(i))
  <2>1. g \in [Pairs -> Nodes(i)]
    BY <1>4 DEF g
  <2> QED
    BY <1>5, <2>1 DEF Injection, IsInjective
<1>7. IsFiniteSet(Pairs) /\ Cardinality(Pairs) <= Cardinality(Nodes(i))
  BY <1>1, <1>6, FS_Injection
<1> QED
  <2>1. Units(count[i], NUM_SHARDS) = Pairs
    BY DEF Units, Pairs, Shards
  <2> QED
    BY <1>7, <2>1, FS_CardinalityType DEF Part

\* Every step keeps what the threads know.
LEMMA LocalsStep == ASSUME IInv, TableStep, TypeOK' PROVE Locals'
<1>a. TypeOK /\ Locals /\ Chunks /\ Chains /\ CountsNodes
  BY DEF IInv
<1>b. \A i \in Tables : Capacity[i] \in Nat
  BY TableAssumption
<1>c. root \in Nat /\ root >= 1 /\ \A i \in Tables : i \in Nat /\ i >= 1
  BY <1>a DEF TypeOK, Tables
<1>0. CASE UNCHANGED steps
  <2>1. /\ UNCHANGED <<root, resizing, count, handle, pc, key, new, tbl>>
        /\ UNCHANGED <<head, shard, total>>
    BY <1>0 DEF steps, migration, nodes, args, sum
  <2>2. \A i \in Tables : Nodes(i)' = Nodes(i)
    BY <2>1 DEF Nodes
  <2>3. ASSUME NEW t \in Threads PROVE Local(t)'
    BY <1>a, <2>1 DEF Locals, Local, Nodes, Elements
  <2> QED
    BY <2>3 DEF Locals
<1>q. SUFFICES ASSUME NEW t \in Threads, StepOf(t) PROVE Local(t)'
  BY <1>0, LocalOfOthers DEF Locals, TableStep
<1>l. Local(t)
  BY <1>a DEF Locals
<1>t. pc[t] \notin {"idle", "table"} => tbl[t] \in Tables /\ key[t] \in Keys /\ tbl[t] \in 1..root
  BY <1>a, <1>l, InTable DEF Local
<1>s. ASSUME pc[t] = "sum"
      PROVE  LET i == tbl[t]
                 sofar == total[t] + count[i][shard[t]]
             IN /\ shard[t] \in Shards /\ shard[t] \in Nat
                /\ shard[t] + 1 < NUM_SHARDS =>
                     shard[t] + 1 \in Shards /\ sofar <= Part(count[i], shard[t] + 1)
                /\ shard[t] + 1 = NUM_SHARDS /\ sofar >= Capacity[i] =>
                     Cardinality(Nodes(i)) >= Capacity[i]
  <2>0. PICK i \in Tables : i = tbl[t]
    BY <1>s, <1>t
  <2>1. PICK n \in Shards : n = shard[t] /\ total[t] <= Part(count[i], n)
    BY <1>s, <1>l, <2>0 DEF Local
  <2>a. NUM_SHARDS \in Nat /\ n \in Nat
    BY TableAssumption DEF Shards
  <2>b. count[i] \in [Shards -> Nat] /\ count[i][n] \in Nat /\ total[t] \in Nat
    BY <1>a DEF TypeOK
  <2>2. /\ count[i] \in [Shards -> Nat] /\ count[i][n] \in Nat /\ total[t] \in Nat
        /\ NUM_SHARDS \in Nat /\ n \in Nat
    BY <2>a, <2>b
  <2>3. /\ n + 1 \in 0..NUM_SHARDS /\ n \in 0..NUM_SHARDS
        /\ Part(count[i], n + 1) = Part(count[i], n) + count[i][n]
    BY <2>1, <2>2, PartNext
  <2>4. Part(count[i], n) \in Nat
    BY <2>2, <2>3, PartFinite
  <2>5. total[t] + count[i][n] <= Part(count[i], n + 1)
    BY <2>1, <2>2, <2>3, <2>4
  <2>6. IsFiniteSet(Nodes(i))
    BY LastTableSuffices, FS_Subset DEF Nodes
  <2>7. /\ Cardinality(Nodes(i)) \in Nat
        /\ Part(count[i], NUM_SHARDS) <= Cardinality(Nodes(i))
    BY <1>a, <2>6, TotalBound, FS_CardinalityType
  <2>8. n + 1 < NUM_SHARDS => n + 1 \in Shards
    BY <2>2 DEF Shards
  <2>9. n + 1 = NUM_SHARDS => total[t] + count[i][n] <= Cardinality(Nodes(i))
    BY <2>2, <2>3, <2>4, <2>5, <2>7
  <2> QED
    BY <2>0, <2>1, <2>2, <2>5, <2>7, <2>8, <2>9, <1>b
<1>n. NULL \notin Handles /\ NULL \notin Keys
  BY DistinguishedValues
<1> USE <1>a, <1>l DEF TypeOK, Local, Goto, Nodes, Elements, nodes, migration, args, chunk, sum
<1>1. CASE GetCall(t)
  BY <1>1, <1>n DEF GetCall
<1>2. CASE PutBegins(t)
  BY <1>2, <1>n DEF PutBegins, PutWith
<1>3. CASE LoadTable(t)
  BY <1>3, <1>c DEF LoadTable
<1>4. CASE LoadNext(t)
  BY <1>4, <1>t DEF LoadNext
<1>5. CASE Help(t)
  BY <1>5, <1>t DEF Help, TakeChunk
<1>6. CASE FreezeBucket(t)
  BY <1>6, <1>t DEF FreezeBucket, NextBucket
<1>7. CASE FreezeHandle(t)
  BY <1>7, <1>t DEF FreezeHandle
<1>8. CASE Copy(t)
  <2>1. /\ UNCHANGED <<root, resizing, args>> /\ pc[t] = "copy" /\ pc'[t] = "tally"
    BY <1>8 DEF Copy
  <2> QED
    BY <1>t, <2>1
<1>8b. CASE CountCopy(t)
  <2>1. /\ UNCHANGED <<root, resizing, args>> /\ pc[t] = "tally"
        /\ pc'[t] \in {"seal", "freeze", "done"}
    BY <1>8b DEF CountCopy, CountIn, NextBucket
  <2> QED
    BY <1>t, <2>1
<1>9. CASE ChunkDone(t)
  BY <1>9, <1>t DEF ChunkDone, LeaveChunk
<1>10. CASE TryComplete(t)
  BY <1>10 DEF TryComplete, SwitchRoot
<1>11. CASE GetBucket(t)
  <2>1. pc[t] = "bucket"
    BY <1>11 DEF GetBucket
  <2>2. Index(tbl[t], key[t]) \in Buckets
    BY <2>1, InTable
  <2>3. key[t] \in Elements(chain[tbl[t]][Index(tbl[t], key[t])]) => key[t] \in Nodes(tbl[t])
    BY <1>t, <2>1, <2>2 DEF Chains
  <2>4. UNCHANGED <<root, migration, nodes, head, sum>>
    BY <1>11 DEF GetBucket
  <2>5. CASE pc'[t] = "table" /\ UNCHANGED args
    BY <2>1, <2>4, <2>5
  <2>6. CASE /\ pc'[t] = "load" /\ UNCHANGED args /\ new[t] = NULL
             /\ key[t] \in Elements(chain[tbl[t]][Index(tbl[t], key[t])])
    BY <1>t, <2>1, <2>3, <2>4, <2>6
  <2>7. CASE Return(t)
    BY <2>7 DEF Return
  <2> QED
    BY <1>11, <2>5, <2>6, <2>7 DEF GetBucket
<1>12. CASE GetReads(t)
  BY <1>12 DEF GetReads, ReadHandle, Return
<1>13. CASE PutBucket(t)
  <2>1. pc[t] = "bucket"
    BY <1>13 DEF PutBucket
  <2>2. Index(tbl[t], key[t]) \in Buckets
    BY <2>1, InTable
  <2>3. key[t] \in Elements(chain[tbl[t]][Index(tbl[t], key[t])]) => key[t] \in Nodes(tbl[t])
    BY <1>t, <2>1, <2>2 DEF Chains
  <2>4. UNCHANGED <<root, migration, nodes, args, sum>> /\ new[t] # NULL
    BY <1>13 DEF PutBucket
  <2>5. CASE pc'[t] = "table"
    BY <2>1, <2>4, <2>5
  <2>6. CASE pc'[t] = "old" /\ key[t] \in Elements(chain[tbl[t]][Index(tbl[t], key[t])])
    BY <1>t, <2>1, <2>3, <2>4, <2>6
  <2>7. CASE pc'[t] = "insert" /\ key[t] \notin Elements(head'[t])
    BY <1>t, <2>1, <2>4, <2>7
  <2> QED
    BY <1>13, <2>5, <2>6, <2>7 DEF PutBucket
<1>14. CASE PutOld(t)
  BY <1>14, <1>t DEF PutOld, SeeOld
<1>15. CASE PutReplace(t)
  BY <1>15 DEF PutReplace, Return
<1>16. CASE PutReplaceFails(t)
  BY <1>16, <1>t DEF PutReplaceFails, SeeOld
<1>17. CASE PutInsert(t)
  BY <1>17, <1>t DEF PutInsert, LinkNode
<1>18. CASE PutInsertFails(t)
  BY <1>18 DEF PutInsertFails
<1>19. CASE Count(t)
  <2>0. pc[t] = "count" /\ UNCHANGED <<root, resizing, handle, head>>
    BY <1>19 DEF Count
  <2>1. CASE Return(t)
    BY <2>0, <2>1 DEF Return
  <2>2. CASE pc'[t] = "sum" /\ UNCHANGED args
    <3>1. shard'[t] = 0 /\ total'[t] = 0 /\ 0 \in Shards
      BY <1>19, TableAssumption DEF Count, Shards
    <3>2. Part(count'[tbl[t]], 0) = 0
      <4>1. count'[tbl[t]] \in [Shards -> Nat]
        BY <1>t, <2>0
      <4> QED
        BY <3>1, <4>1, PartNext
    <3> QED
      BY <1>t, <2>0, <2>2, <3>1, <3>2
  <2> QED
    BY <1>19, <2>1, <2>2 DEF Count
<1>20. CASE Sum(t)
  <2>0. pc[t] = "sum" /\ UNCHANGED <<root, resizing, handle, head, count>>
    BY <1>20 DEF Sum
  <2>1. CASE Return(t) /\ UNCHANGED <<root, resizing, handle, head>>
    BY <2>1 DEF Return
  <2>3. CASE /\ shard[t] + 1 < NUM_SHARDS /\ shard'[t] = shard[t] + 1
             /\ total'[t] = total[t] + count[tbl[t]][shard[t]]
             /\ UNCHANGED <<pc, args>>
    BY <1>t, <1>s, <2>0, <2>3
  <2>2. CASE /\ shard[t] + 1 = NUM_SHARDS
             /\ total[t] + count[tbl[t]][shard[t]] >= Capacity[tbl[t]]
             /\ pc[t] = "sum" /\ pc'[t] = "trigger"
             /\ UNCHANGED <<root, resizing, handle, head, args>>
    <3>1. Nodes(tbl[t])' = Nodes(tbl[t])
      BY <2>2
    <3> QED
      BY <1>t, <1>s, <2>2, <3>1
  <2> QED
    BY <1>20, <2>1, <2>2, <2>3 DEF Sum
<1>21. CASE TriggerResize(t)
  BY <1>21 DEF TriggerResize, Return
<1> QED
  BY <1>q, <1>1, <1>2, <1>3, <1>4, <1>5, <1>6, <1>7, <1>8, <1>8b, <1>9, <1>10, <1>11, <1>12,
     <1>13, <1>14, <1>15, <1>16, <1>17, <1>18, <1>19, <1>20, <1>21 DEF StepOf

(***************************************************************************)
(* Chunks                                                                  *)
(***************************************************************************)

\* What follows from a thread's hands being as they were.
LEMMA HandsSame ==
  ASSUME NEW u, Hands(u)' = Hands(u)
  PROVE  /\ pc'[u] = pc[u] /\ tbl'[u] = tbl[u] /\ from'[u] = from[u] /\ upto'[u] = upto[u]
         /\ at'[u] = at[u] /\ todo'[u] = todo[u] /\ key'[u] = key[u] /\ new'[u] = new[u]
         /\ Busy(u)' = Busy(u) /\ Chunk(u)' = Chunk(u)
BY DEF Hands, Busy, Chunk

\* Once migration_done is at the capacity, every bucket has been counted and
\* nobody has a chunk of the table.
LEMMA AllDone ==
  ASSUME TypeOK, Locals, Chunks, DoneExact, NEW i \in Tables, done[i] >= Capacity[i]
  PROVE  /\ cursor[i] = Capacity[i] /\ Finished(i) = 0..(Capacity[i] - 1)
         /\ \A t \in Threads : Busy(t) => tbl[t] # i
<1>1. Capacity[i] \in Nat \ {0} /\ cursor[i] \in Nat /\ cursor[i] <= Capacity[i]
  BY TableAssumption DEF TypeOK, Chunks
<1> DEFINE all == 0..(Capacity[i] - 1)
<1>2. IsFiniteSet(all) /\ Cardinality(all) = Capacity[i]
  <2>1. 0 \in Int /\ Capacity[i] - 1 \in Int
    BY <1>1
  <2>2. /\ IsFiniteSet(all)
        /\ Cardinality(all) = IF 0 > Capacity[i] - 1 THEN 0 ELSE (Capacity[i] - 1) - 0 + 1
    BY <2>1, FS_Interval
  <2> QED
    BY <1>1, <2>2
<1>3. Finished(i) \subseteq 0..(cursor[i] - 1) /\ 0..(cursor[i] - 1) \subseteq all
  BY <1>1 DEF Finished
<1>4. Finished(i) \in SUBSET all
  BY <1>3
<1>5. IsFiniteSet(Finished(i)) /\ Cardinality(Finished(i)) <= Capacity[i]
  <2> HIDE DEF all
  <2>1. IsFiniteSet(Finished(i)) /\ Cardinality(Finished(i)) <= Cardinality(all)
    BY <1>2, <1>4, FS_Subset
  <2> QED
    BY <1>2, <2>1
<1>6. Cardinality(Finished(i)) \in Nat /\ done[i] = Cardinality(Finished(i))
  BY <1>5, FS_CardinalityType DEF DoneExact
<1>7. Cardinality(Finished(i)) = Cardinality(all)
  BY <1>1, <1>2, <1>5, <1>6
<1>8. Finished(i) = all
  BY <1>2, <1>4, <1>7, FS_Subset
<1>9. cursor[i] = Capacity[i]
  <2>1. Capacity[i] - 1 \in Finished(i)
    BY <1>1, <1>8
  <2> QED
    BY <1>1, <1>3, <2>1
<1>10. ASSUME NEW t \in Threads, Busy(t), tbl[t] = i PROVE FALSE
  <2>1. from[t] \in Chunk(t) /\ from[t] \in 0..(cursor[i] - 1)
    BY <1>1, <1>10, InChunk DEF Chunk
  <2>2. from[t] \notin Finished(i)
    BY <1>10, <2>1 DEF Finished
  <2> QED
    BY <1>8, <1>9, <2>1, <2>2
<1> QED
  BY <1>8, <1>9, <1>10

InOrder ==
    \A i \in Tables :
        /\ cursor[i] <= Capacity[i]
        /\ ~resizing[i] => cursor[i] = 0
        /\ resizing[i] => i <= root /\ i + 1 \in Tables
        /\ i < root => resizing[i] /\ cursor[i] = Capacity[i]
ChunkFine(t) ==
    Busy(t) =>
        /\ tbl[t] = root
        /\ from[t] < upto[t] /\ upto[t] <= cursor[root]
        /\ from[t] <= at[t] /\ at[t] <= upto[t]
        /\ at[t] = upto[t] <=> pc[t] = "done"
Disjoint ==
    \A t, u \in Threads : Busy(t) /\ Busy(u) /\ t # u => Chunk(t) \cap Chunk(u) = {}

\* The parts of Chunks, one by one.
LEMMA ChunksParts == Chunks <=> InOrder /\ (\A t \in Threads : ChunkFine(t)) /\ Disjoint
BY DEF Chunks, InOrder, ChunkFine, Disjoint

\* A step in which t has the same chunk as before, or none.
LEMMA DisjointKept ==
  ASSUME Disjoint, NEW t \in Threads, \A u \in Threads : u # t => Hands(u)' = Hands(u),
         Busy(t)' => Busy(t) /\ Chunk(t)' = Chunk(t)
  PROVE  Disjoint'
<1> SUFFICES ASSUME NEW v \in Threads, NEW w \in Threads, Busy(v)', Busy(w)', v # w
             PROVE  Chunk(v)' \cap Chunk(w)' = {}
  BY DEF Disjoint
<1>1. Busy(v) /\ Chunk(v)' = Chunk(v)
  BY HandsSame
<1>2. Busy(w) /\ Chunk(w)' = Chunk(w)
  BY HandsSame
<1> QED
  BY <1>1, <1>2 DEF Disjoint

\* The chunk of a thread that does not move.
LEMMA FineOthers ==
  ASSUME NEW u, ChunkFine(u), Hands(u)' = Hands(u), root' = root, cursor'[root] >= cursor[root],
         cursor[root] \in Nat, cursor'[root] \in Nat, Busy(u) => upto[u] \in Nat
  PROVE  ChunkFine(u)'
BY HandsSame DEF ChunkFine

\* A helper takes the chunk at the cursor, in the current table, or none.
LEMMA HelpFacts ==
  ASSUME TypeOK, Locals, Chunks, NEW t \in Threads, Help(t), NEW i, i = tbl[t],
         NEW m, m = Lesser(cursor[i] + CHUNK, Capacity[i])
  PROVE  /\ pc[t] = "help" /\ i \in Tables /\ i <= root /\ resizing[i] /\ ~Busy(t)
         /\ m \in Nat /\ cursor[i] \in Nat /\ cursor[i] <= m /\ m <= Capacity[i]
         /\ cursor' = [cursor EXCEPT ![i] = m]
         /\ UNCHANGED <<root, resizing, done, count, nodes, args, todo>>
         /\ \/ cursor[i] = Capacity[i] /\ cursor' = cursor /\ ~Busy(t)'
            \/ /\ i = root /\ cursor[i] < m
               /\ Busy(t)' /\ pc'[t] = "freeze" /\ from'[t] = cursor[i] /\ at'[t] = cursor[i]
               /\ upto'[t] = m
<1>1. /\ pc[t] = "help" /\ i \in Tables /\ i <= root /\ resizing[i] /\ ~Busy(t)
      /\ UNCHANGED <<root, resizing, done, count, nodes, args, todo>>
  BY InTable DEF Help, TakeChunk, Locals, Local, Busy
<1>2. cursor' = [cursor EXCEPT ![i] = m]
  BY DEF Help, TakeChunk
<1>3. /\ cursor[i] \in Nat /\ Capacity[i] \in Nat /\ cursor[i] <= Capacity[i]
      /\ CHUNK \in Nat \ {0}
  BY <1>1, TableAssumption DEF Chunks, TypeOK
<1>4. m \in Nat /\ m <= Capacity[i] /\ cursor[i] <= m
  BY <1>3 DEF Lesser
<1>5. CASE cursor[i] >= Capacity[i]
  <2>1. cursor[i] = Capacity[i] /\ m = cursor[i]
    BY <1>3, <1>4, <1>5
  <2>2. cursor' = cursor
    BY <1>1, <1>2, <2>1 DEF TypeOK
  <2>3. pc' = [pc EXCEPT ![t] = "complete"]
    BY <1>3, <1>5 DEF Help, TakeChunk, Goto
  <2>4. ~Busy(t)'
    BY <2>3 DEF Busy, TypeOK
  <2> QED
    BY <1>1, <1>2, <1>3, <1>4, <2>1, <2>2, <2>4
<1>6. CASE cursor[i] < Capacity[i]
  <2>1. /\ from' = [from EXCEPT ![t] = cursor[i]] /\ at' = [at EXCEPT ![t] = cursor[i]]
        /\ upto' = [upto EXCEPT ![t] = m] /\ pc' = [pc EXCEPT ![t] = "freeze"]
    BY <1>6 DEF Help, TakeChunk, Goto
  <2>2. from'[t] = cursor[i] /\ at'[t] = cursor[i] /\ upto'[t] = m /\ pc'[t] = "freeze"
    BY <2>1 DEF TypeOK
  <2>3. cursor[i] < m
    BY <1>3, <1>6 DEF Lesser
  <2>4. ~(i < root) /\ i \in Nat /\ root \in Nat
    BY <1>1, <1>3, <1>6 DEF Chunks, TypeOK, Tables
  <2>5. i = root
    BY <1>1, <2>4
  <2> QED
    BY <1>1, <1>2, <1>3, <1>4, <2>2, <2>3, <2>5 DEF Busy
<1> QED
  BY <1>3, <1>5, <1>6

\* A step of a migration that stays in its chunk.
Moves(t) == FreezeBucket(t) \/ FreezeHandle(t) \/ Copy(t) \/ CountCopy(t)

\* Such a step works in the chunk, and goes to the next bucket or stays.
LEMMA MoveFacts ==
  ASSUME TypeOK, Locals, Chunks, NEW t \in Threads, Moves(t)
  PROVE  /\ Busy(t) /\ pc[t] # "done" /\ Busy(t)' /\ Chunk(t)' = Chunk(t)
         /\ UNCHANGED <<root, resizing, cursor, done, from, upto, args>>
         /\ \/ at'[t] = at[t] /\ pc'[t] # "done"
            \/ at'[t] = at[t] + 1 /\ (pc'[t] = "done" <=> ~(at[t] + 1 < upto[t]))
<1> USE DEF TypeOK
<1>1. CASE FreezeBucket(t)
  BY <1>1 DEF FreezeBucket, NextBucket, Goto, Busy, Chunk, migration, args
<1>2. CASE FreezeHandle(t)
  BY <1>2 DEF FreezeHandle, Goto, Busy, Chunk, migration, args, chunk
<1>3. CASE Copy(t)
  BY <1>3 DEF Copy, Goto, Busy, Chunk, migration, args, chunk
<1>4. CASE CountCopy(t)
  <2>1. /\ pc[t] = "tally" /\ UNCHANGED <<root, resizing, cursor, done, from, upto, args>>
        /\ \/ NextBucket(t)
           \/ Goto(t, "seal") /\ UNCHANGED at
    BY <1>4 DEF CountCopy, CountIn
  <2> QED
    BY <2>1 DEF NextBucket, Goto, Busy, Chunk, args
<1> QED
  BY <1>1, <1>2, <1>3, <1>4 DEF Moves

\* The steps outside chunks; a put changes nodes, a helper may switch tables.
LEMMA OutsideFacts ==
  ASSUME TypeOK, NEW t \in Threads,
         Wayfinding(t) \/ PutReplace(t) \/ PutInsert(t) \/ TryComplete(t)
  PROVE  ~Busy(t) /\ ~Busy(t)' /\ UNCHANGED <<cursor, done>>
<1> USE DEF TypeOK, Busy, migration, Goto
<1>1. CASE Wayfinding(t)
  BY <1>1, WayfindingFrame
<1>2. CASE PutReplace(t)
  BY <1>2 DEF PutReplace, Return
<1>3. CASE PutInsert(t)
  BY <1>3 DEF PutInsert, LinkNode
<1>4. CASE TryComplete(t)
  BY <1>4 DEF TryComplete, SwitchRoot
<1> QED
  BY <1>1, <1>2, <1>3, <1>4

\* A chunk that is over is given back and counted.
LEMMA DoneFacts ==
  ASSUME TypeOK, NEW t \in Threads, ChunkDone(t)
  PROVE  /\ pc[t] = "done" /\ Busy(t) /\ ~Busy(t)'
         /\ done' = [done EXCEPT ![tbl[t]] = done[tbl[t]] + (upto[t] - from[t])]
         /\ UNCHANGED <<root, resizing, cursor, count, nodes, args>>
BY DEF ChunkDone, LeaveChunk, Goto, Busy, TypeOK

\* Every step keeps the chunks in order and apart.
LEMMA ChunksStep == ASSUME IInv, TableStep, TypeOK' PROVE Chunks'
<1>a. /\ TypeOK /\ Locals /\ Chunks /\ InOrder /\ Disjoint /\ DoneExact
      /\ \A u \in Threads : ChunkFine(u)
  BY ChunksParts DEF IInv
<1>0. CASE UNCHANGED steps
  BY <1>a, <1>0 DEF steps, migration, nodes, args, chunk, Chunks, Busy, Chunk
<1>c. /\ root \in Tables /\ root \in Nat /\ root + 1 > root /\ CHUNK \in Nat \ {0}
      /\ cursor \in [Tables -> Nat] /\ resizing \in [Tables -> BOOLEAN]
      /\ \A i \in Tables : i \in Nat /\ Capacity[i] \in Nat
  BY <1>a, TableAssumption DEF TypeOK, Tables
<1>q. SUFFICES ASSUME NEW t \in Threads, StepOf(t)
               PROVE  InOrder' /\ (\A u \in Threads : ChunkFine(u)') /\ Disjoint'
  <2>1. (InOrder /\ (\A u \in Threads : ChunkFine(u)) /\ Disjoint)' => Chunks'
    BY DEF Chunks, InOrder, ChunkFine, Disjoint
  <2> QED
    BY <1>0, <2>1 DEF TableStep
<1>o. \A u \in Threads : u # t => Hands(u)' = Hands(u)
  <2> SUFFICES ASSUME NEW u \in Threads, u # t PROVE Hands(u)' = Hands(u)
    OBVIOUS
  <2> QED
    BY <1>a, <1>q, OthersStay
<1>b. \A u \in Threads : Busy(u) => upto[u] \in Nat
  BY <1>a DEF TypeOK
<1>k. ASSUME UNCHANGED <<root, cursor>>, ChunkFine(t)'
      PROVE  \A u \in Threads : ChunkFine(u)'
  BY <1>a, <1>b, <1>c, <1>k, <1>o, FineOthers
<1>1. CASE Wayfinding(t)
  <2>1. UNCHANGED <<root, cursor>> /\ ~Busy(t)'
    BY <1>1, <1>a, WayfindingFrame
  <2>2. ChunkFine(t)'
    BY <2>1 DEF ChunkFine
  <2>3. Disjoint'
    BY <1>a, <1>o, <2>1, DisjointKept
  <2>4. CASE TriggerResize(t)
    <3>0. pc[t] = "trigger" /\ resizing' = [resizing EXCEPT ![tbl[t]] = TRUE]
      BY <2>4 DEF TriggerResize
    <3>1. PICK i \in Tables : i = tbl[t] /\ i <= root
      BY <1>a, <3>0, InTable
    <3>2. i # MaxTables
      <4>1. Cardinality(Nodes(i)) >= Capacity[i]
        BY <1>a, <3>0, <3>1 DEF Locals, Local
      <4>2. /\ Cardinality(Nodes(i)) <= Cardinality(Keys)
            /\ Cardinality(Nodes(i)) \in Nat /\ Cardinality(Keys) \in Nat
        <5>1. Nodes(i) \subseteq Keys
          BY DEF Nodes
        <5> QED
          BY <5>1, LastTableSuffices, FS_Subset, FS_CardinalityType
      <4> QED
        BY <1>c, <4>1, <4>2, LastTableSuffices
    <3>3. i + 1 \in Tables
      BY <3>2, TableAssumption DEF Tables
    <3> QED
      BY <1>a, <1>c, <1>k, <2>1, <2>2, <2>3, <3>0, <3>1, <3>3 DEF InOrder
  <2>5. CASE UNCHANGED resizing
    BY <1>a, <1>k, <2>1, <2>2, <2>3, <2>5 DEF InOrder
  <2> QED
    BY <1>1, <2>4, <2>5 DEF Wayfinding, GetCall, PutBegins, PutWith, LoadTable, LoadNext,
       GetBucket, GetReads, ReadHandle, PutBucket, PutOld, PutReplaceFails,
       PutInsertFails, Count, Sum, migration
<1>2. CASE Help(t)
  <2>0. PICK i \in Tables, m \in Nat :
           i = tbl[t] /\ m = Lesser(cursor[i] + CHUNK, Capacity[i])
    BY <1>2, <1>a, HelpFacts
  <2>1. /\ i <= root /\ UNCHANGED <<root, resizing, tbl>> /\ resizing[i]
        /\ cursor' = [cursor EXCEPT ![i] = m]
        /\ cursor[i] \in Nat /\ cursor[i] <= m /\ m <= Capacity[i]
    BY <1>2, <1>a, <2>0, HelpFacts DEF args
  <2>2. InOrder'
    <3>1. ASSUME NEW j \in Tables, j < root PROVE cursor'[j] = Capacity[j]
      BY <1>a, <1>c, <2>0, <2>1, <3>1 DEF InOrder
    <3> QED
      BY <1>a, <1>c, <2>0, <2>1, <3>1 DEF InOrder
  <2>3. cursor'[root] \in Nat /\ cursor'[root] >= cursor[root]
    BY <1>c, <2>0, <2>1
  <2>4. \A u \in Threads : u # t => ChunkFine(u)'
    BY <1>a, <1>b, <1>c, <1>o, <2>1, <2>3, FineOthers
  <2>5. CASE ~Busy(t)'
    <3>1. ChunkFine(t)' /\ Disjoint'
      BY <1>a, <1>o, <2>5, DisjointKept DEF ChunkFine
    <3> QED
      BY <2>2, <2>4, <3>1
  <2>6. CASE /\ i = root /\ cursor[i] < m /\ pc'[t] = "freeze"
             /\ from'[t] = cursor[i] /\ at'[t] = cursor[i] /\ upto'[t] = m
    <3>1. ChunkFine(t)'
      <4>1. cursor'[root'] = m /\ tbl'[t] = root'
        BY <1>c, <2>0, <2>1, <2>6
      <4> QED
        BY <2>0, <2>1, <2>6, <4>1 DEF ChunkFine
    <3>2. Chunk(t)' = cursor[root]..(m - 1)
      BY <2>6 DEF Chunk
    <3>3. ASSUME NEW u \in Threads, u # t, Busy(u)'
          PROVE  Chunk(u)' \cap Chunk(t)' = {}
      <4>1. Busy(u) /\ Chunk(u)' = Chunk(u)
        BY <1>o, <3>3, HandsSame
      <4>2. upto[u] \in Nat /\ from[u] \in Nat /\ upto[u] <= cursor[root]
        BY <1>a, <4>1, InChunk
      <4>3. cursor[root] \in Nat
        BY <1>c
      <4>4. \A b \in from[u]..(upto[u] - 1) : b < cursor[root]
        BY <4>2, <4>3
      <4>5. \A b \in cursor[root]..(m - 1) : ~(b < cursor[root])
        BY <2>0, <4>3
      <4> QED
        BY <3>2, <4>1, <4>4, <4>5 DEF Chunk
    <3>4. Disjoint'
      <4> SUFFICES ASSUME NEW v \in Threads, NEW w \in Threads, Busy(v)', Busy(w)', v # w
                   PROVE  Chunk(v)' \cap Chunk(w)' = {}
        BY DEF Disjoint
      <4>1. CASE v = t \/ w = t
        BY <3>3, <4>1
      <4>2. CASE v # t /\ w # t
        <5>1. Busy(v) /\ Chunk(v)' = Chunk(v) /\ Busy(w) /\ Chunk(w)' = Chunk(w)
          BY <1>o, <4>2, HandsSame
        <5> QED
          BY <1>a, <5>1 DEF Disjoint
      <4> QED
        BY <4>1, <4>2
    <3> QED
      BY <2>2, <2>4, <3>1, <3>4
  <2> QED
    BY <1>2, <1>a, <2>0, <2>5, <2>6, HelpFacts
<1>3. CASE Moves(t)
  <2>1. /\ Busy(t) /\ pc[t] # "done" /\ Busy(t)' /\ Chunk(t)' = Chunk(t)
        /\ UNCHANGED <<root, resizing, cursor, from, upto, tbl>>
        /\ \/ at'[t] = at[t] /\ pc'[t] # "done"
           \/ at'[t] = at[t] + 1 /\ (pc'[t] = "done" <=> ~(at[t] + 1 < upto[t]))
    BY <1>3, <1>a, MoveFacts DEF args
  <2>2. /\ tbl[t] = root /\ from[t] \in Nat /\ upto[t] \in Nat /\ at[t] \in Nat
        /\ from[t] < upto[t] /\ upto[t] <= cursor[root] /\ from[t] <= at[t]
        /\ at[t] < upto[t]
    BY <1>a, <2>1, InChunk
  <2>3. ChunkFine(t)'
    BY <2>1, <2>2 DEF ChunkFine
  <2>4. Disjoint'
    BY <1>a, <1>o, <2>1, DisjointKept
  <2> QED
    BY <1>a, <1>k, <2>1, <2>3, <2>4 DEF InOrder
<1>4. CASE ChunkDone(t) \/ PutReplace(t) \/ PutInsert(t)
  <2>1. UNCHANGED <<root, resizing, cursor>>
    BY <1>4 DEF ChunkDone, PutReplace, PutInsert, LinkNode, migration
  <2>2. ~Busy(t)'
    BY <1>4, <1>a, DoneFacts, OutsideFacts
  <2>3. ChunkFine(t)' /\ Disjoint'
    BY <1>a, <1>o, <2>2, DisjointKept DEF ChunkFine
  <2> QED
    BY <1>a, <1>k, <2>1, <2>3 DEF InOrder
<1>5. CASE TryComplete(t)
  <2>1. /\ pc[t] = "complete" /\ UNCHANGED <<resizing, cursor>> /\ ~Busy(t)'
        /\ root' = IF done[tbl[t]] >= Capacity[tbl[t]] /\ root = tbl[t] THEN tbl[t] + 1
                   ELSE root
    BY <1>5, <1>a DEF TryComplete, SwitchRoot, Goto, Busy, TypeOK, migration
  <2>2. ChunkFine(t)' /\ Disjoint'
    BY <1>a, <1>o, <2>1, DisjointKept DEF ChunkFine
  <2>3. CASE root' = root
    BY <1>a, <1>k, <2>1, <2>2, <2>3 DEF InOrder
  <2>4. CASE root' # root
    <3>1. root' = root + 1 /\ done[root] >= Capacity[root] /\ tbl[t] = root
      BY <2>1, <2>4
    <3>2. cursor[root] = Capacity[root] /\ \A u \in Threads : ~Busy(u)
      BY <1>a, <1>c, <3>1, AllDone, InChunk
    <3>3. resizing[root]
      BY <1>a, <2>1, <3>1 DEF Locals, Local
    <3>4. InOrder'
      <4> SUFFICES ASSUME NEW i \in Tables
                   PROVE  /\ cursor[i] <= Capacity[i]
                          /\ ~resizing[i] => cursor[i] = 0
                          /\ resizing[i] => i <= root + 1 /\ i + 1 \in Tables
                          /\ i < root + 1 => resizing[i] /\ cursor[i] = Capacity[i]
        BY <2>1, <3>1 DEF InOrder
      <4>1. i < root + 1 => i < root \/ i = root
        BY <1>c
      <4>2. i <= root => i <= root + 1
        BY <1>c
      <4> QED
        BY <1>a, <3>2, <3>3, <4>1, <4>2 DEF InOrder
    <3>5. \A u \in Threads : u # t => ~Busy(u)'
      BY <1>o, <3>2, HandsSame
    <3> QED
      BY <2>1, <2>2, <3>4, <3>5 DEF ChunkFine
  <2> QED
    BY <2>3, <2>4
<1> QED
  BY <1>q, <1>1, <1>2, <1>3, <1>4, <1>5, StepsOf DEF Moves

\* A step after which everybody has the chunk that they had before it.
LEMMA FinishedSame ==
  ASSUME NEW i \in Tables, cursor'[i] = cursor[i],
         NEW t \in Threads, \A u \in Threads : u # t => Hands(u)' = Hands(u),
         Busy(t)' <=> Busy(t), Busy(t) => tbl'[t] = tbl[t] /\ Chunk(t)' = Chunk(t)
  PROVE  Finished(i)' = Finished(i)
<1> DEFINE In(u, b) == Busy(u) /\ tbl[u] = i /\ b \in Chunk(u)
<1>1. ASSUME NEW u \in Threads, NEW b PROVE In(u, b)' <=> In(u, b)
  <2>1. CASE u = t
    BY <2>1
  <2>2. CASE u # t
    BY <2>2, HandsSame
  <2> QED
    BY <2>1, <2>2
<1>2. Finished(i) = {b \in 0..(cursor[i] - 1) : \A u \in Threads : ~In(u, b)}
  BY DEF Finished
<1>3. Finished(i)' = {b \in 0..(cursor'[i] - 1) : \A u \in Threads : ~In(u, b)'}
  BY DEF Finished
<1> HIDE DEF In
<1> QED
  BY <1>1, <1>2, <1>3

\* A chunk that has been taken, or given back, is the whole difference.
LEMMA DoneStep == ASSUME IInv, TableStep PROVE DoneExact'
<1>a. TypeOK /\ Locals /\ Chunks /\ DoneExact
  BY DEF IInv
<1>0. CASE UNCHANGED steps
  BY <1>a, <1>0 DEF steps, migration, args, chunk, DoneExact, Finished, Busy, Chunk
<1>q. SUFFICES ASSUME NEW t \in Threads, StepOf(t), NEW i \in Tables
               PROVE  (done[i] = Cardinality(Finished(i)))'
  BY <1>0 DEF DoneExact, TableStep
<1>o. \A u \in Threads : u # t => Hands(u)' = Hands(u)
  <2> SUFFICES ASSUME NEW u \in Threads, u # t PROVE Hands(u)' = Hands(u)
    OBVIOUS
  <2> QED
    BY <1>a, <1>q, OthersStay
<1>e. done[i] = Cardinality(Finished(i)) /\ done[i] \in Nat /\ cursor[i] \in Nat
  BY <1>a DEF DoneExact, TypeOK
<1>1. CASE Wayfinding(t) \/ PutReplace(t) \/ PutInsert(t) \/ TryComplete(t)
  <2>1. ~Busy(t) /\ ~Busy(t)' /\ UNCHANGED <<cursor, done>>
    BY <1>1, <1>a, OutsideFacts
  <2>2. Finished(i)' = Finished(i)
    BY <1>o, <2>1, FinishedSame
  <2> QED
    BY <1>e, <2>1, <2>2
<1>2. CASE Moves(t)
  <2>1. Busy(t) /\ Busy(t)' /\ Chunk(t)' = Chunk(t) /\ UNCHANGED <<cursor, done, tbl>>
    BY <1>2, <1>a, MoveFacts DEF args
  <2>2. Finished(i)' = Finished(i)
    BY <1>o, <2>1, FinishedSame
  <2> QED
    BY <1>e, <2>1, <2>2
<1>3. CASE Help(t)
  <2>0. PICK j \in Tables, m \in Nat : j = tbl[t] /\ m = Lesser(cursor[j] + CHUNK, Capacity[j])
    BY <1>3, <1>a, HelpFacts
  <2>1. /\ ~Busy(t) /\ UNCHANGED <<done, tbl>> /\ cursor' = [cursor EXCEPT ![j] = m]
        /\ \/ cursor' = cursor /\ ~Busy(t)'
           \/ /\ cursor[j] < m
              /\ Busy(t)' /\ from'[t] = cursor[j] /\ upto'[t] = m
    BY <1>3, <1>a, <2>0, HelpFacts DEF args
  <2>2. CASE cursor' = cursor /\ ~Busy(t)'
    BY <1>o, <1>e, <2>1, <2>2, FinishedSame
  <2>3. CASE i # j
    <3>1. cursor'[i] = cursor[i]
      BY <1>a, <2>1, <2>3 DEF TypeOK
    <3>2. ASSUME NEW b
          PROVE  (\A u \in Threads : Busy(u) /\ tbl[u] = i => b \notin Chunk(u))'
                   <=> (\A u \in Threads : Busy(u) /\ tbl[u] = i => b \notin Chunk(u))
      <4>1. ASSUME NEW u \in Threads
            PROVE  (Busy(u) /\ tbl[u] = i => b \notin Chunk(u))'
                     <=> (Busy(u) /\ tbl[u] = i => b \notin Chunk(u))
        <5>1. CASE u = t
          BY <2>0, <2>1, <2>3, <5>1
        <5>2. CASE u # t
          BY <1>o, <5>2, HandsSame
        <5> QED
          BY <5>1, <5>2
      <4> QED
        BY <4>1
    <3>3. Finished(i)' = Finished(i)
      BY <3>1, <3>2 DEF Finished
    <3> QED
      BY <1>e, <2>1, <3>3
  <2>4. CASE i = j /\ cursor[j] < m /\ Busy(t)' /\ from'[t] = cursor[j] /\ upto'[t] = m
    <3>1. cursor'[i] = m /\ Chunk(t)' = cursor[i]..(m - 1) /\ tbl'[t] = i
      BY <1>a, <2>0, <2>1, <2>4 DEF TypeOK, Chunk
    <3>2. ASSUME NEW b, NEW u \in Threads, u # t
          PROVE  (Busy(u) /\ tbl[u] = i => b \notin Chunk(u))'
                   <=> (Busy(u) /\ tbl[u] = i => b \notin Chunk(u))
      BY <1>o, <3>2, HandsSame
    <3>3. ASSUME NEW b
          PROVE  b \in Finished(i)' <=> b \in Finished(i)
      <4>1. b \in Finished(i)' <=>
              /\ b \in 0..(m - 1) /\ b \notin cursor[i]..(m - 1)
              /\ \A u \in Threads : u # t => (Busy(u) /\ tbl[u] = i => b \notin Chunk(u))'
        BY <2>4, <3>1 DEF Finished
      <4>2. b \in Finished(i) <=>
              /\ b \in 0..(cursor[i] - 1)
              /\ \A u \in Threads : u # t => (Busy(u) /\ tbl[u] = i => b \notin Chunk(u))
        BY <2>1 DEF Finished
      <4>3. b \in 0..(m - 1) /\ b \notin cursor[i]..(m - 1) <=> b \in 0..(cursor[i] - 1)
        BY <1>e, <2>0, <2>4
      <4> QED
        BY <3>2, <4>1, <4>2, <4>3
    <3>4. Finished(i)' = Finished(i)
      BY <3>3
    <3> QED
      BY <1>e, <2>1, <3>4
  <2> QED
    BY <2>1, <2>2, <2>3, <2>4
<1>4. CASE ChunkDone(t)
  <2>1. /\ Busy(t) /\ ~Busy(t)' /\ UNCHANGED <<cursor, tbl>>
        /\ done' = [done EXCEPT ![tbl[t]] = done[tbl[t]] + (upto[t] - from[t])]
    BY <1>4, <1>a, DoneFacts DEF args
  <2>2. /\ tbl[t] = root /\ from[t] \in Nat /\ upto[t] \in Nat /\ from[t] < upto[t]
        /\ upto[t] <= cursor[root]
    BY <1>a, <2>1, InChunk
  <2>3. ASSUME NEW b, NEW u \in Threads, u # t
        PROVE  (Busy(u) /\ tbl[u] = i => b \notin Chunk(u))'
                 <=> (Busy(u) /\ tbl[u] = i => b \notin Chunk(u))
    BY <1>o, <2>3, HandsSame
  <2>4. ASSUME NEW b
        PROVE  /\ b \in Finished(i)' <=>
                    /\ b \in 0..(cursor[i] - 1)
                    /\ \A u \in Threads : u # t => (Busy(u) /\ tbl[u] = i => b \notin Chunk(u))
               /\ b \in Finished(i) <=>
                    /\ b \in 0..(cursor[i] - 1) /\ (i = root => b \notin Chunk(t))
                    /\ \A u \in Threads : u # t => (Busy(u) /\ tbl[u] = i => b \notin Chunk(u))
    <3>1. b \in Finished(i)' <=>
            /\ b \in 0..(cursor[i] - 1)
            /\ \A u \in Threads : u # t => (Busy(u) /\ tbl[u] = i => b \notin Chunk(u))'
      BY <2>1 DEF Finished
    <3>2. b \in Finished(i) <=>
            /\ b \in 0..(cursor[i] - 1) /\ (i = root => b \notin Chunk(t))
            /\ \A u \in Threads : u # t => (Busy(u) /\ tbl[u] = i => b \notin Chunk(u))
      BY <2>1, <2>2 DEF Finished
    <3> QED
      BY <2>3, <3>1, <3>2
  <2>5. CASE i # root
    <3>1. done'[i] = done[i]
      BY <1>a, <2>1, <2>2, <2>5 DEF TypeOK
    <3>2. Finished(i)' = Finished(i)
      BY <2>4, <2>5
    <3> QED
      BY <1>e, <3>1, <3>2
  <2>6. CASE i = root
    <3>1. done'[i] = done[i] + (upto[t] - from[t])
      BY <1>a, <2>1, <2>2, <2>6 DEF TypeOK
    <3>2. ASSUME NEW b \in Chunk(t)
          PROVE  /\ b \in 0..(cursor[i] - 1)
                 /\ \A u \in Threads : u # t => (Busy(u) /\ tbl[u] = i => b \notin Chunk(u))
      <4>1. b \in 0..(cursor[i] - 1)
        BY <1>e, <2>2, <2>6 DEF Chunk
      <4> QED
        BY <1>a, <2>1, <4>1 DEF Chunks
    <3>3. Finished(i)' = Finished(i) \union Chunk(t) /\ Finished(i) \cap Chunk(t) = {}
      BY <2>4, <2>6, <3>2
    <3>4. IsFiniteSet(Chunk(t)) /\ Cardinality(Chunk(t)) = upto[t] - from[t]
      <4>1. from[t] \in Int /\ upto[t] - 1 \in Int
        BY <2>2
      <4>2. /\ IsFiniteSet(Chunk(t))
            /\ Cardinality(Chunk(t)) = IF from[t] > upto[t] - 1 THEN 0
                                       ELSE (upto[t] - 1) - from[t] + 1
        BY <4>1, FS_Interval DEF Chunk
      <4> QED
        BY <2>2, <4>2
    <3>5. IsFiniteSet(Finished(i))
      <4>1. IsFiniteSet(0..(cursor[i] - 1)) /\ Finished(i) \subseteq 0..(cursor[i] - 1)
        <5>1. 0 \in Int /\ cursor[i] - 1 \in Int
          BY <1>e
        <5> QED
          BY <5>1, FS_Interval DEF Finished
      <4> QED
        BY <4>1, FS_Subset
    <3>6. Cardinality(Finished(i) \union Chunk(t))
            = Cardinality(Finished(i)) + Cardinality(Chunk(t))
      <4>1. Cardinality(Finished(i) \union Chunk(t))
              = Cardinality(Finished(i)) + Cardinality(Chunk(t))
                - Cardinality(Finished(i) \cap Chunk(t))
        BY <3>4, <3>5, FS_Union
      <4>2. Cardinality(Finished(i) \cap Chunk(t)) = 0
        BY <3>3, FS_EmptySet
      <4> QED
        BY <1>e, <2>2, <3>4, <4>1, <4>2
    <3> QED
      BY <1>e, <3>1, <3>3, <3>4, <3>6
  <2> QED
    BY <2>5, <2>6
<1> QED
  BY <1>q, <1>1, <1>2, <1>3, <1>4, StepsOf DEF Moves

(***************************************************************************)
(* Nodes and counters                                                      *)
(***************************************************************************)

\* A node for a key that has none is linked in front of its bucket.
LEMMA ChainsCons ==
  ASSUME TypeOK, Chains, NEW i \in Tables, NEW k \in Keys, k \notin Nodes(i),
         NEW c, c = Index(i, k),
         chain' = [chain EXCEPT ![i][c] = <<k>> \o chain[i][c]],
         \A j \in Tables : Nodes(j)' = IF j = i THEN Nodes(j) \union {k} ELSE Nodes(j)
  PROVE  Chains'
<1>1. c \in Buckets /\ chain[i][c] \in Seq(Keys)
  BY IndexInTable DEF TypeOK
<1>2. k \notin Elements(chain[i][c]) /\ Distinct(chain[i][c])
  BY <1>1 DEF Chains
<1> DEFINE s == <<k>> \o chain[i][c]
<1>3. Elements(s) = Elements(chain[i][c]) \union {k} /\ Distinct(s)
  BY <1>1, <1>2, ConsElements
<1> HIDE DEF s
<1>4. ASSUME NEW j \in Tables, NEW b \in Buckets
      PROVE  chain'[j][b] = IF j = i /\ b = c THEN s ELSE chain[j][b]
  BY <1>1 DEF TypeOK, s
<1> SUFFICES ASSUME NEW j \in Tables, NEW b \in Buckets
             PROVE  /\ \A x \in Keys : x \in Elements(chain[j][b])'
                                         <=> x \in Nodes(j)' /\ b = Index(j, x)
                    /\ Distinct(chain[j][b])'
  BY DEF Chains, Index
<1>5. Elements(chain[j][b])' = Elements(chain'[j][b]) /\ Distinct(chain[j][b])' = Distinct(chain'[j][b])
  BY DEF Elements, Distinct
<1>6. /\ \A x \in Keys : x \in Elements(chain[j][b]) <=> x \in Nodes(j) /\ b = Index(j, x)
      /\ Distinct(chain[j][b])
  BY DEF Chains
<1>7. CASE j = i /\ b = c
  <2>1. chain'[j][b] = s
    BY <1>4, <1>7
  <2> QED
    BY <1>3, <1>5, <1>6, <1>7, <2>1
<1>8. CASE ~(j = i /\ b = c)
  <2>1. chain'[j][b] = chain[j][b]
    BY <1>4, <1>8
  <2>2. ASSUME NEW x \in Keys, b = Index(j, x) PROVE x \in Nodes(j)' <=> x \in Nodes(j)
    BY <1>8, <2>2
  <2> QED
    BY <1>5, <1>6, <2>1, <2>2
<1> QED
  BY <1>7, <1>8

\* The steps that neither link a node nor count one leave the nodes.
LEMMA SameNodes ==
  ASSUME IInv, NEW t \in Threads, StepOf(t), ~Copy(t), ~PutInsert(t)
  PROVE  UNCHANGED chain /\ \A i \in Tables : Nodes(i)' = Nodes(i)
<1>a. TypeOK
  BY DEF IInv
<1>1. CASE Wayfinding(t)
  BY <1>1, <1>a, WayfindingFrame DEF nodes, Nodes
<1>2. CASE Help(t) \/ CountCopy(t)
  BY <1>2 DEF Help, TakeChunk, CountCopy, CountIn, nodes, Nodes
<1>3. CASE FreezeBucket(t) \/ FreezeHandle(t)
  BY <1>3 DEF FreezeBucket, FreezeHandle, Nodes
<1>4. CASE ChunkDone(t) \/ TryComplete(t)
  BY <1>4 DEF ChunkDone, TryComplete, SwitchRoot, nodes, Nodes
<1>5. CASE PutReplace(t)
  <2>1. UNCHANGED chain
    BY <1>5 DEF PutReplace
  <2>2. ASSUME NEW i \in Tables PROVE Nodes(i)' = Nodes(i)
    BY <1>5, PutReplaceFacts
  <2> QED
    BY <2>1, <2>2
<1> QED
  BY <1>1, <1>2, <1>3, <1>4, <1>5, StepsOf

\* Every step keeps the chains and the nodes together.
LEMMA ChainsStep == ASSUME IInv, TableStep PROVE Chains'
<1>a. TypeOK /\ Chains
  BY DEF IInv
<1>0. CASE UNCHANGED steps
  BY <1>a, <1>0 DEF steps, nodes, Chains, Nodes, Elements, Distinct, Index
<1>q. SUFFICES ASSUME NEW t \in Threads, StepOf(t) PROVE Chains'
  BY <1>0 DEF TableStep
<1>1. CASE Copy(t)
  <2>1. PICK k \in Keys, n \in Tables : Copies(t, k, n)
    BY <1>1, CopyFacts
  <2>2. \A j \in Tables : Nodes(j)' = IF j = n THEN Nodes(j) \union {k} ELSE Nodes(j)
    BY <1>a, <2>1, CopyNodes
  <2>3. k \notin Nodes(n) /\ chain' = [chain EXCEPT ![n][Index(n, k)] = <<k>> \o chain[n][Index(n, k)]]
    BY <2>1 DEF Copies
  <2> QED
    BY <1>a, <2>2, <2>3, ChainsCons
<1>2. CASE PutInsert(t)
  <2> DEFINE b == Index(root, key[t])
  <2>1. /\ key[t] \in Keys /\ key[t] \notin Nodes(root) /\ root \in Tables
        /\ chain' = [chain EXCEPT ![root][b] = <<key[t]>> \o chain[root][b]]
    BY <1>a, <1>2, PutInsertFacts DEF TypeOK
  <2>2. ASSUME NEW j \in Tables
        PROVE  Nodes(j)' = IF j = root THEN Nodes(j) \union {key[t]} ELSE Nodes(j)
    BY <1>2, PutInsertFacts
  <2>3. PICK x \in Tables, y \in Keys : x = root /\ y = key[t]
    BY <2>1
  <2> QED
    BY <1>a, <2>1, <2>2, <2>3, ChainsCons
<1>3. CASE ~Copy(t) /\ ~PutInsert(t)
  <2>1. UNCHANGED chain
    BY <1>q, <1>3, SameNodes
  <2>2. \A i \in Tables : Nodes(i)' = Nodes(i)
    BY <1>q, <1>3, SameNodes
  <2> QED
    BY <1>a, <2>1, <2>2 DEF Chains, Elements, Distinct, Index
<1> QED
  BY <1>1, <1>2, <1>3

OfShard(i, s) == {k \in Nodes(i) : Shard(k) = s}
Uncounted(i, s) == {t \in Threads : Counting(t, i, s)}

\* CountsNodes in terms of the two sets.
LEMMA CountsParts ==
  CountsNodes <=>
    \A i \in Tables :
        /\ \A s \in Shards :
             count[i][s] + Cardinality(Uncounted(i, s)) = Cardinality(OfShard(i, s))
        /\ resizing[i] => Cardinality(Nodes(i)) >= Capacity[i]
BY DEF CountsNodes, OfShard, Uncounted

\* The two sets are finite.
LEMMA FiniteCounts ==
  ASSUME TypeOK, NEW i \in Tables, NEW s \in Shards
  PROVE  /\ IsFiniteSet(OfShard(i, s)) /\ IsFiniteSet(Uncounted(i, s))
         /\ Cardinality(OfShard(i, s)) \in Nat /\ Cardinality(Uncounted(i, s)) \in Nat
         /\ count[i][s] \in Nat
<1>1. OfShard(i, s) \subseteq Keys /\ Uncounted(i, s) \subseteq Threads
  BY DEF OfShard, Uncounted, Nodes
<1>2. IsFiniteSet(OfShard(i, s)) /\ IsFiniteSet(Uncounted(i, s))
  BY <1>1, LastTableSuffices, FiniteThreads, FS_Subset
<1> QED
  BY <1>2, FS_CardinalityType DEF TypeOK

\* A thread whose hands are as they were is about to count what it was.
LEMMA CountingSame ==
  ASSUME NEW u, Hands(u)' = Hands(u), NEW i, NEW s
  PROVE  Counting(u, i, s)' <=> Counting(u, i, s)
<1>1. pc'[u] = pc[u] /\ tbl'[u] = tbl[u] /\ key'[u] = key[u] /\ todo'[u] = todo[u]
  BY HandsSame
<1> QED
  BY <1>1 DEF Counting, Shard

\* Thread t is, or is not, about to count before and after its step.
LEMMA UncountedChange ==
  ASSUME NEW t \in Threads, \A u \in Threads : u # t => Hands(u)' = Hands(u), NEW i, NEW s
  PROVE  /\ (Counting(t, i, s)' <=> Counting(t, i, s)) => Uncounted(i, s)' = Uncounted(i, s)
         /\ Counting(t, i, s)' /\ ~Counting(t, i, s) =>
                /\ Uncounted(i, s)' = Uncounted(i, s) \union {t}
                /\ t \notin Uncounted(i, s)
         /\ ~Counting(t, i, s)' /\ Counting(t, i, s) =>
                /\ Uncounted(i, s)' = Uncounted(i, s) \ {t}
                /\ t \in Uncounted(i, s)
<1>1. ASSUME NEW u \in Threads, u # t PROVE Counting(u, i, s)' <=> Counting(u, i, s)
  BY <1>1, CountingSame
<1>2. Uncounted(i, s)' = {u \in Threads : Counting(u, i, s)'}
  BY DEF Uncounted
<1>3. Uncounted(i, s) = {u \in Threads : Counting(u, i, s)}
  BY DEF Uncounted
<1> QED
  BY <1>1, <1>2, <1>3

Exact(i, s) == count[i][s] + Cardinality(Uncounted(i, s)) = Cardinality(OfShard(i, s))

\* A node that is linked is not counted before its thread counts it.
LEMMA LinkExact ==
  ASSUME TypeOK, NEW t \in Threads, \A u \in Threads : u # t => Hands(u)' = Hands(u),
         NEW i \in Tables, NEW s \in Shards, Exact(i, s), UNCHANGED count,
         NEW n \in Tables, NEW k \in Keys, k \notin Nodes(n),
         Nodes(i)' = IF i = n THEN Nodes(i) \union {k} ELSE Nodes(i),
         ~Counting(t, i, s), Counting(t, i, s)' <=> i = n /\ Shard(k) = s
  PROVE  Exact(i, s)'
<1>e. /\ IsFiniteSet(OfShard(i, s)) /\ IsFiniteSet(Uncounted(i, s))
      /\ Cardinality(OfShard(i, s)) \in Nat /\ Cardinality(Uncounted(i, s)) \in Nat
      /\ count[i][s] \in Nat
  BY FiniteCounts
<1>x. Exact(i, s)' <=>
        count'[i][s] + Cardinality(Uncounted(i, s)') = Cardinality(OfShard(i, s)')
  BY DEF Exact
<1>1. CASE i = n /\ Shard(k) = s
  <2>1. OfShard(i, s)' = OfShard(i, s) \union {k} /\ k \notin OfShard(i, s)
    BY <1>1 DEF OfShard, Shard
  <2>2. Uncounted(i, s)' = Uncounted(i, s) \union {t} /\ t \notin Uncounted(i, s)
    BY <1>1, UncountedChange
  <2>3. /\ Cardinality(OfShard(i, s)') = Cardinality(OfShard(i, s)) + 1
        /\ Cardinality(Uncounted(i, s)') = Cardinality(Uncounted(i, s)) + 1
    BY <1>e, <2>1, <2>2, FS_AddElement
  <2> QED
    BY <1>e, <1>x, <2>3 DEF Exact
<1>2. CASE ~(i = n /\ Shard(k) = s)
  <2>1. OfShard(i, s)' = OfShard(i, s)
    BY <1>2 DEF OfShard, Shard
  <2>2. Uncounted(i, s)' = Uncounted(i, s)
    BY <1>2, UncountedChange
  <2> QED
    BY <1>x, <2>1, <2>2 DEF Exact
<1> QED
  BY <1>1, <1>2

\* A thread counts the node that it has linked.
LEMMA TallyExact ==
  ASSUME TypeOK, NEW t \in Threads, \A u \in Threads : u # t => Hands(u)' = Hands(u),
         NEW i \in Tables, NEW s \in Shards, Exact(i, s), Nodes(i)' = Nodes(i),
         NEW n \in Tables, NEW k \in Keys,
         count' = [count EXCEPT ![n][Shard(k)] = count[n][Shard(k)] + 1],
         Counting(t, i, s) <=> i = n /\ Shard(k) = s, ~Counting(t, i, s)'
  PROVE  Exact(i, s)'
<1>e. /\ IsFiniteSet(OfShard(i, s)) /\ IsFiniteSet(Uncounted(i, s))
      /\ Cardinality(OfShard(i, s)) \in Nat /\ Cardinality(Uncounted(i, s)) \in Nat
      /\ count[i][s] \in Nat
  BY FiniteCounts
<1>x. Exact(i, s)' <=>
        count'[i][s] + Cardinality(Uncounted(i, s)') = Cardinality(OfShard(i, s)')
  BY DEF Exact
<1>n. count \in [Tables -> [Shards -> Nat]] /\ Shard(k) \in Shards
  BY ShardInShards DEF TypeOK
<1>s. OfShard(i, s)' = OfShard(i, s)
  BY DEF OfShard, Shard
<1>1. CASE i = n /\ Shard(k) = s
  <2>1. Uncounted(i, s)' = Uncounted(i, s) \ {t} /\ t \in Uncounted(i, s)
    BY <1>1, UncountedChange
  <2>2. Cardinality(Uncounted(i, s)') = Cardinality(Uncounted(i, s)) - 1
    BY <1>e, <2>1, FS_RemoveElement
  <2>3. count'[i][s] = count[i][s] + 1
    BY <1>n, <1>1
  <2> QED
    BY <1>e, <1>x, <1>s, <2>2, <2>3 DEF Exact
<1>2. CASE ~(i = n /\ Shard(k) = s)
  <2>1. Uncounted(i, s)' = Uncounted(i, s)
    BY <1>2, UncountedChange
  <2>2. count'[i][s] = count[i][s]
    BY <1>n, <1>2
  <2> QED
    BY <1>x, <1>s, <2>1, <2>2 DEF Exact
<1> QED
  BY <1>1, <1>2

\* Every step keeps the counters exact.
LEMMA CountsStep == ASSUME IInv, TableStep PROVE CountsNodes'
<1>a. TypeOK /\ Locals /\ Chunks /\ CountsNodes
  BY DEF IInv
<1>0. CASE UNCHANGED steps
  BY <1>a, <1>0 DEF steps, migration, nodes, args, chunk, CountsNodes, Counting, Nodes, Shard
<1>q. SUFFICES ASSUME NEW t \in Threads, StepOf(t), NEW i \in Tables
               PROVE  /\ \A s \in Shards :
                           count'[i][s] + Cardinality(Uncounted(i, s)')
                             = Cardinality(OfShard(i, s)')
                      /\ resizing'[i] => Cardinality(Nodes(i)') >= Capacity[i]
  <2>1. CountsNodes' <=>
          \A i \in Tables :
            /\ \A s \in Shards :
                 count'[i][s] + Cardinality(Uncounted(i, s)') = Cardinality(OfShard(i, s)')
            /\ resizing'[i] => Cardinality(Nodes(i)') >= Capacity[i]
    BY DEF CountsNodes, OfShard, Uncounted, Shard
  <2> QED
    BY <1>0, <2>1 DEF TableStep
<1>o. \A u \in Threads : u # t => Hands(u)' = Hands(u)
  <2> SUFFICES ASSUME NEW u \in Threads, u # t PROVE Hands(u)' = Hands(u)
    OBVIOUS
  <2> QED
    BY <1>a, <1>q, OthersStay
<1>r. resizing'[i] => Cardinality(Nodes(i)') >= Capacity[i]
  <2>1. Nodes(i) \subseteq Nodes(i)' /\ Capacity[i] \in Nat
    BY <1>q, Growth, TableAssumption
  <2>2. /\ Cardinality(Nodes(i)) \in Nat /\ Cardinality(Nodes(i)') \in Nat
        /\ Cardinality(Nodes(i)) <= Cardinality(Nodes(i)')
    BY <2>1, NodesGrow
  <2>5. resizing[i] => Cardinality(Nodes(i)) >= Capacity[i]
    BY <1>a, CountsParts
  <2>3. CASE resizing'[i] = resizing[i]
    BY <2>1, <2>2, <2>3, <2>5
  <2>4. CASE TriggerResize(t)
    <3>1. pc[t] = "trigger" /\ resizing' = [resizing EXCEPT ![tbl[t]] = TRUE]
      BY <2>4 DEF TriggerResize
    <3>2. CASE i = tbl[t]
      BY <1>a, <2>1, <2>2, <3>1, <3>2 DEF Locals, Local
    <3>3. CASE i # tbl[t]
      BY <1>a, <2>3, <3>1, <3>3 DEF TypeOK
    <3> QED
      BY <3>2, <3>3
  <2> QED
    BY <1>q, <2>3, <2>4 DEF StepOf, GetCall, PutBegins, PutWith, LoadTable, LoadNext, Help,
       TakeChunk, FreezeBucket, FreezeHandle, Copy, CountCopy, CountIn, ChunkDone,
       TryComplete, SwitchRoot, GetBucket, GetReads, ReadHandle, PutBucket, PutOld,
       PutReplace, PutReplaceFails, PutInsert, LinkNode, PutInsertFails, Count, Sum, migration
<1>s. SUFFICES ASSUME NEW s \in Shards PROVE Exact(i, s)'
  BY <1>r DEF Exact
<1>e. Exact(i, s)
  BY <1>a, CountsParts DEF Exact
<1>1. CASE Copy(t)
  <2>0. PICK k \in Keys, n \in Tables : Copies(t, k, n)
    BY <1>1, CopyFacts
  <2>1. /\ k \notin Nodes(n) /\ UNCHANGED <<count, tbl, todo>>
        /\ pc[t] = "copy" /\ pc'[t] = "tally" /\ tbl[t] + 1 = n /\ Head(todo[t]) = k
    BY <1>a, <2>0 DEF Copies, migration, args, chunk, TypeOK
  <2>2. Nodes(i)' = IF i = n THEN Nodes(i) \union {k} ELSE Nodes(i)
    BY <1>a, <2>0, CopyNodes
  <2>3. ~Counting(t, i, s) /\ (Counting(t, i, s)' <=> i = n /\ Shard(k) = s)
    BY <2>1 DEF Counting, Shard
  <2> QED
    BY <1>a, <1>e, <1>o, <2>1, <2>2, <2>3, LinkExact
<1>2. CASE PutInsert(t)
  <2>0. Nodes(i)' = IF i = root THEN Nodes(i) \union {key[t]} ELSE Nodes(i)
    BY <1>2, PutInsertFacts
  <2>1. tbl[t] = root /\ key[t] \in Keys /\ key[t] \notin Nodes(root) /\ root \in Tables
    BY <1>a, <1>2, PutInsertFacts DEF TypeOK
  <2>2. /\ pc[t] = "insert" /\ pc'[t] = "count" /\ UNCHANGED <<count, tbl, key>>
    BY <1>a, <1>2 DEF PutInsert, LinkNode, Goto, args, migration, TypeOK
  <2>3. ~Counting(t, i, s) /\ (Counting(t, i, s)' <=> i = root /\ Shard(key[t]) = s)
    BY <2>1, <2>2 DEF Counting, Shard
  <2>4. PICK n \in Tables, k \in Keys : n = root /\ k = key[t]
    BY <2>1
  <2> QED
    BY <1>a, <1>e, <1>o, <2>0, <2>1, <2>2, <2>3, <2>4, LinkExact
<1>n. ~Copy(t) /\ ~PutInsert(t) => Nodes(i)' = Nodes(i)
  BY <1>q, SameNodes
<1>3. CASE Count(t)
  <2>1. /\ pc[t] = "count" /\ UNCHANGED handle /\ pc'[t] # "count" /\ pc'[t] # "tally"
        /\ count' = [count EXCEPT ![tbl[t]][Shard(key[t])] = count[tbl[t]][Shard(key[t])] + 1]
    BY <1>a, <1>3 DEF Count, Return, Goto, nodes, TypeOK
  <2>2. PICK n \in Tables, k \in Keys : n = tbl[t] /\ k = key[t]
    BY <1>a, <2>1, InTable
  <2>3. (Counting(t, i, s) <=> i = n /\ Shard(k) = s) /\ ~Counting(t, i, s)'
    BY <2>1, <2>2 DEF Counting
  <2>4. Nodes(i)' = Nodes(i)
    BY <2>1 DEF Nodes
  <2> QED
    BY <1>a, <1>e, <1>o, <2>1, <2>2, <2>3, <2>4, TallyExact
<1>4. CASE CountCopy(t)
  <2>0. PICK k \in Keys, n \in Tables : Tallies(t, k, n)
    BY <1>4, CountCopyFacts
  <2>1. /\ pc[t] = "tally" /\ tbl[t] + 1 = n /\ Head(todo[t]) = k
        /\ pc'[t] # "count" /\ pc'[t] # "tally"
    BY <2>0 DEF Tallies
  <2>c. count' = [count EXCEPT ![n][Shard(k)] = count[n][Shard(k)] + 1]
    BY <2>0 DEF Tallies
  <2>2. Nodes(i)' = Nodes(i)
    BY <2>0 DEF Tallies, nodes, Nodes
  <2>3. (Counting(t, i, s) <=> i = n /\ Shard(k) = s) /\ ~Counting(t, i, s)'
    BY <2>1 DEF Counting
  <2> QED
    BY <1>a, <1>e, <1>o, <2>c, <2>2, <2>3, TallyExact
<1>5. CASE ~Copy(t) /\ ~CountCopy(t) /\ ~PutInsert(t) /\ ~Count(t)
  <2>1. OfShard(i, s)' = OfShard(i, s)
    BY <1>n, <1>5 DEF OfShard, Shard
  <2>2. UNCHANGED count
    BY <1>q, <1>5 DEF StepOf, GetCall, PutBegins, PutWith, LoadTable, LoadNext, Help,
       TakeChunk, FreezeBucket, FreezeHandle, ChunkDone, TryComplete, SwitchRoot,
       GetBucket, GetReads, ReadHandle, PutBucket, PutOld, PutReplace, PutReplaceFails,
       PutInsertFails, Sum, TriggerResize, migration
  <2>3. pc[t] \notin {"count", "tally"} /\ pc'[t] \notin {"count", "tally"}
    <3>1. CASE FreezeBucket(t) \/ FreezeHandle(t)
      BY <1>a, <3>1 DEF FreezeBucket, FreezeHandle, NextBucket, Goto, TypeOK
    <3>2. CASE ChunkDone(t)
      BY <1>a, <3>2 DEF ChunkDone, LeaveChunk, Goto, TypeOK
    <3>3. CASE ~FreezeBucket(t) /\ ~FreezeHandle(t) /\ ~ChunkDone(t)
      BY <1>a, <1>q, <1>5, <3>3
      DEF StepOf, GetCall, PutBegins, PutWith, LoadTable, LoadNext, Help, TakeChunk,
          TryComplete, SwitchRoot, Goto, Return, TypeOK, SeeOld, GetBucket, GetReads,
          ReadHandle, PutBucket, PutOld, PutReplace, PutReplaceFails, PutInsertFails, Sum,
          TriggerResize
    <3> QED
      BY <3>1, <3>2, <3>3
  <2>4. ~Counting(t, i, s) /\ ~Counting(t, i, s)'
    BY <2>3 DEF Counting
  <2>5. Uncounted(i, s)' = Uncounted(i, s)
    BY <1>o, <2>4, UncountedChange
  <2> QED
    BY <1>e, <2>1, <2>2, <2>5 DEF Exact
<1> QED
  BY <1>1, <1>2, <1>3, <1>4, <1>5

(***************************************************************************)
(* The migration                                                           *)
(***************************************************************************)

FrozenFine(i) == \A b \in 0..(Capacity[i] - 1) : Untouched(i, b) \/ frozen[i][b]
KeyFine(i, k) ==
    IF Left(i, k) THEN k \notin Nodes(i + 1)
    ELSE /\ k \in Nodes(i) => sealed[i][k] /\ k \in Nodes(i + 1)
         /\ root = i => handle[i + 1][k] = handle[i][k]
TodoFine(t) ==
    pc[t] \in {"seal", "copy", "tally"} =>
        /\ todo[t] # <<>> /\ Distinct(todo[t])
        /\ Elements(todo[t]) \subseteq Elements(chain[tbl[t]][at[t]])
        /\ pc[t] \in {"copy", "tally"} => sealed[tbl[t]][Head(todo[t])]

\* The parts of Migrating, one by one.
LEMMA MigratingParts ==
  Migrating <=> /\ \A i \in Tables : i + 1 \in Tables =>
                     FrozenFine(i) /\ \A k \in Keys : KeyFine(i, k)
                /\ \A t \in Threads : TodoFine(t)
BY DEF Migrating, FrozenFine, KeyFine, TodoFine

\* A bucket to which the moving thread neither comes nor goes.
LEMMA UntouchedSame ==
  ASSUME NEW i, NEW b, cursor'[i] = cursor[i],
         NEW t \in Threads, \A u \in Threads : u # t => Hands(u)' = Hands(u),
         Ahead(i, b, t)' <=> Ahead(i, b, t)
  PROVE  Untouched(i, b)' <=> Untouched(i, b)
<1>1. ASSUME NEW u \in Threads PROVE Ahead(i, b, u)' <=> Ahead(i, b, u)
  <2>1. CASE u = t
    BY <2>1
  <2>2. CASE u # t
    BY <2>2, HandsSame DEF Ahead
  <2> QED
    BY <2>1, <2>2
<1>2. Untouched(i, b) <=> b >= cursor[i] \/ \E u \in Threads : Ahead(i, b, u)
  BY DEF Untouched
<1>3. Untouched(i, b)' <=> b >= cursor'[i] \/ \E u \in Threads : Ahead(i, b, u)'
  BY DEF Untouched
<1> QED
  BY <1>1, <1>2, <1>3

\* Thread t has the node of key k in table i before it.
ToCopy(i, k, t) == Copying(i, Index(i, k), t) /\ k \in Elements(Remaining(t))

\* A key of such a bucket that the moving thread does not copy.
LEMMA LeftSame ==
  ASSUME NEW i, NEW k, NEW b, b = Index(i, k), Untouched(i, b)' <=> Untouched(i, b),
         NEW t \in Threads, \A u \in Threads : u # t => Hands(u)' = Hands(u),
         ToCopy(i, k, t)' <=> ToCopy(i, k, t)
  PROVE  Left(i, k)' <=> Left(i, k)
<1>1. ASSUME NEW u \in Threads PROVE ToCopy(i, k, u)' <=> ToCopy(i, k, u)
  <2>1. CASE u = t
    BY <2>1
  <2>2. CASE u # t
    <3>1. /\ pc'[u] = pc[u] /\ tbl'[u] = tbl[u] /\ at'[u] = at[u] /\ todo'[u] = todo[u]
      BY <2>2, HandsSame
    <3>2. Remaining(u)' = Remaining(u)
      BY <3>1 DEF Remaining
    <3> QED
      BY <3>1, <3>2 DEF ToCopy, Copying, Elements, Index
  <2> QED
    BY <2>1, <2>2
<1>2. Left(i, k) <=> Untouched(i, b) \/ \E u \in Threads : ToCopy(i, k, u)
  BY DEF Left, ToCopy
<1>3. Left(i, k)' <=> Untouched(i, b)' \/ \E u \in Threads : ToCopy(i, k, u)'
  BY DEF Left, ToCopy, Index
<1> QED
  BY <1>1, <1>2, <1>3

\* What has been frozen, sealed or linked stays so.
LEMMA Irrevocable ==
  ASSUME IInv, NEW t \in Threads, StepOf(t)
  PROVE  /\ \A i \in Tables, b \in Buckets :
              /\ frozen[i][b] => frozen'[i][b]
              /\ Elements(chain[i][b]) \subseteq Elements(chain'[i][b])
         /\ \A i \in Tables, k \in Keys : sealed[i][k] => sealed'[i][k]
<1>a. TypeOK /\ Locals /\ Chunks
  BY DEF IInv
<1> USE <1>a DEF TypeOK
<1>1. \A i \in Tables, b \in Buckets : frozen[i][b] => frozen'[i][b]
  <2>1. CASE UNCHANGED frozen
    BY <2>1
  <2>2. CASE FreezeBucket(t)
    BY <2>2 DEF FreezeBucket
  <2> QED
    BY <2>1, <2>2, StepsOf, WayfindingFrame
    DEF Help, TakeChunk, FreezeHandle, Copy, CountCopy, CountIn, ChunkDone, TryComplete,
        SwitchRoot, PutReplace, PutInsert, LinkNode, nodes
<1>2. \A i \in Tables, k \in Keys : sealed[i][k] => sealed'[i][k]
  <2>1. CASE UNCHANGED sealed
    BY <2>1
  <2>2. CASE FreezeHandle(t)
    BY <2>2 DEF FreezeHandle
  <2> QED
    BY <2>1, <2>2, StepsOf, WayfindingFrame
    DEF Help, TakeChunk, FreezeBucket, Copy, CountCopy, CountIn, ChunkDone, TryComplete,
        SwitchRoot, PutReplace, PutInsert, LinkNode, nodes
<1>3. ASSUME NEW n \in Tables, NEW k \in Keys, NEW c, c = Index(n, k),
             chain' = [chain EXCEPT ![n][c] = <<k>> \o chain[n][c]],
             NEW i \in Tables, NEW b \in Buckets
      PROVE  Elements(chain[i][b]) \subseteq Elements(chain'[i][b])
  <2> DEFINE s == <<k>> \o chain[n][c]
  <2>1. c \in Buckets /\ chain[n][c] \in Seq(Keys)
    BY <1>3, IndexInTable
  <2>2. Elements(s) = Elements(chain[n][c]) \union {k}
    BY <2>1, ConsElements
  <2> HIDE DEF s
  <2>3. chain'[i][b] = IF i = n /\ b = c THEN s ELSE chain[i][b]
    BY <1>3, <2>1 DEF s
  <2> QED
    BY <2>2, <2>3
<1>4. ASSUME NEW i \in Tables, NEW b \in Buckets
      PROVE  Elements(chain[i][b]) \subseteq Elements(chain'[i][b])
  <2>1. CASE Copy(t)
    <3>1. PICK k \in Keys, n \in Tables : Copies(t, k, n)
      BY <2>1, CopyFacts
    <3>2. chain' = [chain EXCEPT ![n][Index(n, k)] = <<k>> \o chain[n][Index(n, k)]]
      BY <3>1 DEF Copies
    <3> QED
      BY <1>3, <3>2
  <2>2. CASE PutInsert(t)
    <3> DEFINE c == Index(root, key[t])
    <3>1. /\ key[t] \in Keys /\ root \in Tables
          /\ chain' = [chain EXCEPT ![root][c] = <<key[t]>> \o chain[root][c]]
      BY <2>2, PutInsertFacts
    <3>2. PICK n \in Tables, k \in Keys : n = root /\ k = key[t]
      BY <3>1
    <3> QED
      BY <1>3, <3>1, <3>2
  <2>3. CASE ~Copy(t) /\ ~PutInsert(t)
    BY <2>3, SameNodes
  <2> QED
    BY <2>1, <2>2, <2>3
<1> QED
  BY <1>1, <1>2, <1>4

\* What another thread has still to copy stays in its bucket.
LEMMA TodoOthers ==
  ASSUME IInv, NEW t \in Threads, StepOf(t), NEW u \in Threads, u # t
  PROVE  TodoFine(u)'
<1>a. TypeOK /\ Locals /\ Chunks /\ TodoFine(u)
  BY MigratingParts DEF IInv
<1>1. /\ pc'[u] = pc[u] /\ todo'[u] = todo[u] /\ tbl'[u] = tbl[u] /\ at'[u] = at[u]
  BY <1>a, OthersStay, HandsSame
<1>2. CASE pc[u] \in {"seal", "copy", "tally"}
  <2>1. Busy(u) /\ pc[u] # "done"
    BY <1>2 DEF Busy
  <2>2. PICK i \in Tables, b \in Buckets : tbl[u] = i /\ at[u] = b
    BY <1>a, <2>1, InChunk DEF TypeOK
  <2>3. PICK s \in Seq(Keys) : s = todo[u]
    BY <1>a DEF TypeOK
  <2>4. s # <<>> /\ Distinct(s) /\ Elements(s) \subseteq Elements(chain[i][b])
    BY <1>2, <1>a, <2>2, <2>3 DEF TodoFine
  <2>5. PICK k \in Keys : k = Head(s)
    BY <2>4, TailElements
  <2>6. sealed[i][k] => sealed'[i][k]
    BY Irrevocable
  <2>7. Elements(s) \subseteq Elements(chain'[i][b])
    BY <2>4, Irrevocable
  <2>8. pc[u] \in {"copy", "tally"} => sealed'[i][k]
    BY <1>a, <1>2, <2>2, <2>3, <2>5, <2>6 DEF TodoFine
  <2>9. TodoFine(u)' <=> (pc'[u] \in {"seal", "copy", "tally"} =>
           /\ todo'[u] # <<>> /\ Distinct(todo'[u])
           /\ Elements(todo'[u]) \subseteq Elements(chain'[tbl'[u]][at'[u]])
           /\ pc'[u] \in {"copy", "tally"} => sealed'[tbl'[u]][Head(todo'[u])])
    BY DEF TodoFine, Distinct, Elements
  <2> QED
    BY <1>1, <2>2, <2>3, <2>4, <2>5, <2>7, <2>8, <2>9
<1>3. CASE pc[u] \notin {"seal", "copy", "tally"}
  BY <1>1, <1>3 DEF TodoFine
<1> QED
  BY <1>2, <1>3

\* The steps that advance no migration.
Steady(t) ==
    Wayfinding(t) \/ PutReplace(t) \/ PutInsert(t) \/ TryComplete(t) \/ ChunkDone(t)

\* They leave what is still to be done.
LEMMA SteadyFrame ==
  ASSUME IInv, NEW t \in Threads, Steady(t), StepOf(t)
  PROVE  /\ \A i \in Tables : \A b \in 0..(Capacity[i] - 1) : Untouched(i, b)' <=> Untouched(i, b)
         /\ \A i \in Tables : \A k \in Keys : Left(i, k)' <=> Left(i, k)
         /\ TodoFine(t)'
<1>a. TypeOK /\ Locals /\ Chunks
  BY DEF IInv
<1>o. \A u \in Threads : u # t => Hands(u)' = Hands(u)
  <2> SUFFICES ASSUME NEW u \in Threads, u # t PROVE Hands(u)' = Hands(u)
    OBVIOUS
  <2> QED
    BY <1>a, OthersStay
<1>1. UNCHANGED cursor /\ ~Busy(t)' /\ (Busy(t) => pc[t] = "done")
  BY <1>a, OutsideFacts, DoneFacts DEF Steady
<1>2. ASSUME NEW i \in Tables, NEW b \in 0..(Capacity[i] - 1)
      PROVE  Untouched(i, b)' <=> Untouched(i, b)
  <2>1. ~Ahead(i, b, t)'
    BY <1>1 DEF Ahead
  <2>2. ~Ahead(i, b, t)
    <3>1. CASE Busy(t)
      <4>1. at[t] = upto[t] /\ upto[t] \in Nat /\ from[t] \in Nat /\ pc[t] = "done"
        BY <1>1, <1>a, <3>1, InChunk
      <4>2. b \in Chunk(t) => b < at[t]
        BY <4>1 DEF Chunk
      <4>3. b \in Nat
        BY TableAssumption
      <4> QED
        BY <4>1, <4>2, <4>3 DEF Ahead
    <3>2. CASE ~Busy(t)
      BY <3>2 DEF Ahead
    <3> QED
      BY <3>1, <3>2
  <2> QED
    BY <1>1, <1>o, <2>1, <2>2, UntouchedSame
<1>3. ASSUME NEW i \in Tables, NEW k \in Keys PROVE Left(i, k)' <=> Left(i, k)
  <2>1. PICK b \in 0..(Capacity[i] - 1) : b = Index(i, k)
    BY IndexInTable
  <2>2. ~ToCopy(i, k, t) /\ ~ToCopy(i, k, t)'
    BY <1>1 DEF ToCopy, Copying, Busy
  <2>3. Untouched(i, b)' <=> Untouched(i, b)
    BY <1>2
  <2> QED
    BY <1>o, <2>1, <2>2, <2>3, LeftSame
<1>4. TodoFine(t)'
  BY <1>1 DEF TodoFine, Busy
<1> QED
  BY <1>2, <1>3, <1>4

\* Nothing has been copied out of a table without a successor.
LEMMA AllLeft ==
  ASSUME TypeOK, Chunks, NEW n \in Tables, n > root, NEW k \in Keys
  PROVE  Left(n, k)
<1>1. n \in Nat /\ root \in Nat /\ cursor[n] = 0
  BY DEF TypeOK, Chunks, Tables
<1>2. Index(n, k) >= 0
  BY IndexInTable, TableAssumption
<1> QED
  BY <1>1, <1>2 DEF Left, Untouched

\* The same nodes, buckets and seals: only the handles of the current table count.
LEMMA KeyKept ==
  ASSUME NEW i, NEW k \in Keys, KeyFine(i, k), Left(i, k)' <=> Left(i, k),
         k \in Nodes(i)' <=> k \in Nodes(i), k \in Nodes(i + 1)' <=> k \in Nodes(i + 1),
         sealed[i][k] => sealed'[i][k],
         ~Left(i, k) /\ root' = i =>
            root = i /\ handle'[i + 1][k] = handle[i + 1][k] /\ handle'[i][k] = handle[i][k]
  PROVE  KeyFine(i, k)'
BY DEF KeyFine

\* They keep what has been migrated: a put finds its key not yet copied, and
\* the new current table has no successor.
LEMMA SteadyMigrating ==
  ASSUME IInv, NEW t \in Threads, Steady(t), StepOf(t), NEW i \in Tables, i + 1 \in Tables
  PROVE  FrozenFine(i)' /\ \A k \in Keys : KeyFine(i, k)'
<1>a. /\ TypeOK /\ Locals /\ Chunks /\ DoneExact
      /\ FrozenFine(i) /\ \A k \in Keys : KeyFine(i, k)
  BY MigratingParts DEF IInv
<1>c. root \in Nat /\ i \in Nat /\ root \in Tables
  BY <1>a DEF TypeOK, Tables
<1>1. FrozenFine(i)'
  <2> SUFFICES ASSUME NEW b \in 0..(Capacity[i] - 1) PROVE Untouched(i, b)' \/ frozen'[i][b]
    BY DEF FrozenFine
  <2>1. b \in Buckets
    BY DEF Buckets
  <2>2. Untouched(i, b) \/ frozen[i][b]
    BY <1>a DEF FrozenFine
  <2>3. Untouched(i, b)' <=> Untouched(i, b)
    BY SteadyFrame
  <2>4. frozen[i][b] => frozen'[i][b]
    BY <2>1, Irrevocable
  <2> QED
    BY <2>2, <2>3, <2>4
<1>q. SUFFICES ASSUME NEW k \in Keys PROVE KeyFine(i, k)'
  BY <1>1
<1>2. Left(i, k)' <=> Left(i, k)
  BY SteadyFrame
<1>3. KeyFine(i, k) /\ (sealed[i][k] => sealed'[i][k])
  BY <1>a, Irrevocable
<1>4. CASE Wayfinding(t) \/ ChunkDone(t)
  <2>1. UNCHANGED <<root, handle>>
    BY <1>4, <1>a, WayfindingFrame, DoneFacts DEF nodes
  <2> QED
    BY <1>2, <1>3, <2>1, KeyKept DEF Nodes
<1>5. CASE TryComplete(t)
  <2>1. UNCHANGED handle /\ (root' = root \/ root' = root + 1)
    BY <1>5 DEF TryComplete, SwitchRoot, nodes
  <2>2. root' = i => root = i \/ Left(i, k)
    BY <1>a, <1>c, <2>1, AllLeft
  <2> QED
    BY <1>2, <1>3, <2>1, <2>2, KeyKept DEF Nodes
<1>6. CASE PutReplace(t)
  <2>0. PICK x \in Keys : x = key[t]
    BY <1>6, PutReplaceFacts
  <2>1. /\ handle' = [handle EXCEPT ![root][x] = new[t]]
        /\ root + 1 \in Tables => Left(root, x)
    BY <1>6, <2>0, PutReplaceFacts
  <2>2. \A j \in Tables : Nodes(j)' = Nodes(j)
    BY <1>6, PutReplaceFacts
  <2>3. UNCHANGED root
    BY <1>6 DEF PutReplace
  <2>4. ASSUME ~Left(i, k), root = i
        PROVE  handle'[i + 1][k] = handle[i + 1][k] /\ handle'[i][k] = handle[i][k]
    <3>1. k # x
      BY <2>1, <2>4
    <3> QED
      BY <1>a, <1>c, <2>1, <2>4, <3>1 DEF TypeOK
  <2> QED
    BY <1>2, <1>3, <2>2, <2>3, <2>4, KeyKept
<1>7. CASE PutInsert(t)
  <2>0. PICK x \in Keys, b \in Buckets : x = key[t] /\ b = Index(root, x)
    BY <1>7, PutInsertFacts
  <2>1. /\ handle' = [handle EXCEPT ![root][x] = new[t]]
        /\ root + 1 \in Tables => Untouched(root, b)
    BY <1>7, <2>0, PutInsertFacts
  <2>2. \A j \in Tables : Nodes(j)' = IF j = root THEN Nodes(j) \union {x} ELSE Nodes(j)
    <3> SUFFICES ASSUME NEW j \in Tables
                 PROVE  Nodes(j)' = IF j = root THEN Nodes(j) \union {x} ELSE Nodes(j)
      OBVIOUS
    <3> QED
      BY <1>7, <2>0, PutInsertFacts
  <2>3. UNCHANGED root
    BY <1>7 DEF PutInsert, LinkNode
  <2>4. root + 1 \in Tables => Left(root, x)
    BY <2>0, <2>1 DEF Left
  <2>5. CASE i = root
    <3>1. Nodes(i)' = Nodes(i) \union {x} /\ Nodes(i + 1)' = Nodes(i + 1)
      BY <1>c, <2>2, <2>5
    <3>2. CASE k = x
      BY <1>2, <1>3, <2>4, <2>5, <3>1, <3>2 DEF KeyFine
    <3>3. CASE k # x
      <4>1. handle'[i + 1][k] = handle[i + 1][k] /\ handle'[i][k] = handle[i][k]
        BY <1>a, <1>c, <2>1, <2>5, <3>3 DEF TypeOK
      <4> QED
        BY <1>2, <1>3, <2>3, <2>5, <3>1, <3>3, <4>1, KeyKept
    <3> QED
      BY <3>2, <3>3
  <2>6. CASE i # root
    <3>1. Nodes(i)' = Nodes(i)
      BY <2>2, <2>6
    <3>2. CASE i + 1 # root
      <4>1. Nodes(i + 1)' = Nodes(i + 1)
        BY <2>2, <3>2
      <4> QED
        BY <1>2, <1>3, <2>3, <2>6, <3>1, <4>1, KeyKept
    <3>3. CASE i + 1 = root
      <4>1. Nodes(i + 1)' = Nodes(i + 1) \union {x}
        BY <2>2, <3>3
      <4>2. ~Left(i, k)
        BY <1>c, <3>3, LeftBehind
      <4> QED
        BY <1>2, <1>3, <2>3, <2>6, <3>1, <4>1, <4>2 DEF KeyFine
    <3> QED
      BY <3>2, <3>3
  <2> QED
    BY <2>5, <2>6
<1> QED
  BY <1>4, <1>5, <1>6, <1>7 DEF Steady

\* The bucket that a thread is at is nobody else's.
LEMMA OwnBucket ==
  ASSUME TypeOK, Locals, Chunks, NEW t \in Threads, Busy(t), pc[t] # "done",
         NEW u \in Threads, u # t, Busy(u)
  PROVE  at[t] \notin Chunk(u) /\ (pc[u] # "done" => at[u] # at[t])
<1>1. at[t] \in Chunk(t)
  BY InChunk DEF Chunk
<1>2. pc[u] # "done" => at[u] \in Chunk(u)
  BY InChunk DEF Chunk
<1>3. Chunk(t) \cap Chunk(u) = {}
  BY DEF Chunks
<1> QED
  BY <1>1, <1>2, <1>3

\* The other buckets are where they were after a step in a chunk, and the
\* bucket at hand has been come to.
LEMMA MoveStages ==
  ASSUME IInv, NEW t \in Threads, Moves(t), NEW i \in Tables, NEW b \in 0..(Capacity[i] - 1)
  PROVE  IF i = root /\ b = at[t] THEN ~Untouched(i, b)'
         ELSE Untouched(i, b)' <=> Untouched(i, b)
<1>a. TypeOK /\ Locals /\ Chunks
  BY DEF IInv
<1>q. StepOf(t)
  BY DEF Moves, StepOf
<1>o. \A u \in Threads : u # t => Hands(u)' = Hands(u)
  <2> SUFFICES ASSUME NEW u \in Threads, u # t PROVE Hands(u)' = Hands(u)
    OBVIOUS
  <2> QED
    BY <1>a, <1>q, OthersStay
<1>1. /\ Busy(t) /\ pc[t] # "done" /\ Busy(t)' /\ Chunk(t)' = Chunk(t)
      /\ UNCHANGED <<root, cursor, from, upto, tbl>>
      /\ \/ at'[t] = at[t] /\ pc'[t] # "done"
         \/ at'[t] = at[t] + 1 /\ (pc'[t] = "done" <=> ~(at[t] + 1 < upto[t]))
  BY <1>a, MoveFacts DEF args
<1>2. /\ tbl[t] = root /\ from[t] \in Nat /\ upto[t] \in Nat /\ at[t] \in Nat
      /\ at[t] < upto[t] /\ upto[t] <= cursor[root] /\ cursor[root] \in Nat
  BY <1>a, <1>1, InChunk
<1>3. /\ at'[t] = at[t] => pc'[t] # "freeze"
      /\ at'[t] = at[t] + 1 => pc'[t] \in {"freeze", "done"}
  BY <1>a, <1>2 DEF Moves, FreezeBucket, FreezeHandle, Copy, CountCopy, CountIn, NextBucket,
        Goto, TypeOK, chunk
<1>4. b \in Nat /\ i \in Nat
  BY TableAssumption DEF Tables
<1>5. CASE i = root /\ b = at[t]
  <2>1. ASSUME NEW u \in Threads PROVE ~Ahead(i, b, u)'
    <3>1. CASE u = t
      <4>1. at'[t] \in Nat /\ ~(at'[t] < b) /\ (at'[t] = b => pc'[t] # "freeze")
        BY <1>1, <1>2, <1>3, <1>5
      <4> QED
        BY <3>1, <4>1 DEF Ahead
    <3>2. CASE u # t
      <4>1. Ahead(i, b, u)' => Ahead(i, b, u)
        BY <1>o, <3>2, HandsSame DEF Ahead
      <4> QED
        BY <1>a, <1>1, <1>5, <3>2, <4>1, OwnBucket DEF Ahead
    <3> QED
      BY <3>1, <3>2
  <2>2. ~(b >= cursor'[i])
    BY <1>1, <1>2, <1>5
  <2> QED
    BY <1>5, <2>1, <2>2 DEF Untouched
<1>6. CASE ~(i = root /\ b = at[t])
  <2>1. Ahead(i, b, t)' <=> Ahead(i, b, t)
    <3>1. CASE i # root
      BY <1>1, <1>2, <3>1 DEF Ahead
    <3>2. CASE b # at[t] /\ at'[t] = at[t]
      BY <1>1, <1>2, <1>4, <3>2 DEF Ahead
    <3>3. CASE i = root /\ b # at[t] /\ at'[t] = at[t] + 1
      <4>1. b \in Chunk(t) => b < upto[t]
        BY <1>2, <1>4 DEF Chunk
      <4>2. Ahead(i, b, t) <=> b \in Chunk(t) /\ at[t] < b
        BY <1>1, <1>2, <3>3 DEF Ahead
      <4>3. Ahead(i, b, t)' <=> b \in Chunk(t) /\
              (at[t] + 1 < b \/ (at[t] + 1 = b /\ pc'[t] = "freeze"))
        BY <1>1, <1>2, <3>3 DEF Ahead
      <4>4. at[t] + 1 = b /\ b < upto[t] => pc'[t] = "freeze"
        BY <1>1, <1>2, <1>3, <3>3
      <4> QED
        BY <1>2, <1>4, <4>1, <4>2, <4>3, <4>4
    <3> QED
      BY <1>1, <1>6, <3>1, <3>2, <3>3
  <2> QED
    BY <1>o, <1>1, <1>6, <2>1, UntouchedSame
<1> QED
  BY <1>5, <1>6

\* ... and so are their keys.
LEMMA MoveLeft ==
  ASSUME IInv, NEW t \in Threads, Moves(t), NEW i \in Tables, NEW k \in Keys
  PROVE  IF i = root /\ Index(i, k) = at[t] THEN Left(i, k)' <=> ToCopy(i, k, t)'
         ELSE Left(i, k)' <=> Left(i, k)
<1>a. TypeOK /\ Locals /\ Chunks
  BY DEF IInv
<1>q. StepOf(t)
  BY DEF Moves, StepOf
<1>o. \A u \in Threads : u # t => Hands(u)' = Hands(u)
  <2> SUFFICES ASSUME NEW u \in Threads, u # t PROVE Hands(u)' = Hands(u)
    OBVIOUS
  <2> QED
    BY <1>a, <1>q, OthersStay
<1>1. /\ Busy(t) /\ pc[t] # "done" /\ UNCHANGED <<root, tbl>>
      /\ at'[t] = at[t] \/ at'[t] = at[t] + 1
  BY <1>a, MoveFacts DEF args
<1>2. tbl[t] = root /\ at[t] \in Nat
  BY <1>a, <1>1, InChunk
<1>3. at'[t] = at[t] + 1 => pc'[t] \in {"freeze", "done"}
  BY <1>a, <1>2 DEF Moves, FreezeBucket, FreezeHandle, Copy, CountCopy, CountIn, NextBucket,
        Goto, TypeOK, chunk
<1>4. PICK b \in 0..(Capacity[i] - 1) : b = Index(i, k)
  BY IndexInTable
<1>5. CASE i = root /\ b = at[t]
  <2>1. ~Untouched(i, b)'
    BY <1>5, MoveStages
  <2>2. ASSUME NEW u \in Threads, u # t PROVE ~Copying(i, b, u)'
    <3>1. Copying(i, b, u)' => Copying(i, b, u)
      BY <1>o, <2>2, HandsSame DEF Copying
    <3>2. Copying(i, b, u) => Busy(u) /\ pc[u] # "done" /\ at[u] = b
      BY DEF Copying, Busy
    <3> QED
      BY <1>a, <1>1, <1>5, <2>2, <3>1, <3>2, OwnBucket
  <2>3. Left(i, k)' <=> Untouched(i, b)' \/ \E u \in Threads : ToCopy(i, k, u)'
    BY <1>4 DEF Left, ToCopy, Index
  <2>4. \A u \in Threads : ToCopy(i, k, u)' => Copying(i, b, u)'
    BY <1>4 DEF ToCopy, Index
  <2> QED
    BY <1>4, <1>5, <2>1, <2>2, <2>3, <2>4
<1>6. CASE ~(i = root /\ b = at[t])
  <2>1. Untouched(i, b)' <=> Untouched(i, b)
    BY <1>6, MoveStages
  <2>2. ~ToCopy(i, k, t)
    BY <1>2, <1>4, <1>6 DEF ToCopy, Copying
  <2>3. ~ToCopy(i, k, t)'
    <3>1. CASE at'[t] = at[t]
      BY <1>1, <1>2, <1>4, <1>6, <3>1 DEF ToCopy, Copying, Index
    <3>2. CASE at'[t] = at[t] + 1
      BY <1>3, <3>2 DEF ToCopy, Copying
    <3> QED
      BY <1>1, <3>1, <3>2
  <2> QED
    BY <1>o, <1>4, <1>6, <2>1, <2>2, <2>3, LeftSame
<1> QED
  BY <1>4, <1>5, <1>6

\* A bucket that has been come to is frozen.
LEMMA MoveFrozen ==
  ASSUME IInv, NEW t \in Threads, Moves(t), NEW i \in Tables, i + 1 \in Tables
  PROVE  FrozenFine(i)'
<1>a. TypeOK /\ Locals /\ Chunks /\ FrozenFine(i)
  BY MigratingParts DEF IInv
<1>q. StepOf(t)
  BY DEF Moves, StepOf
<1>1. Busy(t) /\ pc[t] # "done" /\ tbl[t] = root /\ at[t] \in Buckets /\ root \in Tables
  BY <1>a, MoveFacts, InChunk DEF TypeOK
<1>s. SUFFICES ASSUME NEW b \in 0..(Capacity[i] - 1) PROVE Untouched(i, b)' \/ frozen'[i][b]
  BY DEF FrozenFine
<1>2. b \in Buckets
  BY DEF Buckets
<1>3. Untouched(i, b) \/ frozen[i][b]
  BY <1>a DEF FrozenFine
<1>4. frozen[i][b] => frozen'[i][b]
  BY <1>2, <1>q, Irrevocable
<1>5. CASE i = root /\ b = at[t]
  <2>1. CASE pc[t] = "freeze"
    <3>1. frozen' = [frozen EXCEPT ![root][b] = TRUE]
      BY <1>1, <1>5, <2>1 DEF Moves, FreezeBucket, FreezeHandle, Copy, CountCopy, CountIn
    <3> QED
      BY <1>a, <1>1, <1>2, <1>5, <3>1 DEF TypeOK
  <2>2. CASE pc[t] # "freeze"
    <3>1. ASSUME NEW u \in Threads PROVE ~Ahead(i, b, u)
      <4>1. CASE u = t
        <5>1. at[t] \in Nat
          BY <1>a, <1>1, InChunk
        <5> QED
          BY <1>5, <2>2, <4>1, <5>1 DEF Ahead
      <4>2. CASE u # t
        BY <1>a, <1>1, <1>5, <4>2, OwnBucket DEF Ahead
      <4> QED
        BY <4>1, <4>2
    <3>2. ~(b >= cursor[i])
      <4>1. at[t] \in Nat /\ upto[t] \in Nat /\ at[t] < upto[t] /\ upto[t] <= cursor[root]
        BY <1>a, <1>1, InChunk
      <4>2. cursor[root] \in Nat
        BY <1>a, <1>1 DEF TypeOK
      <4> QED
        BY <1>5, <4>1, <4>2
    <3> QED
      BY <1>3, <1>4, <3>1, <3>2 DEF Untouched
  <2> QED
    BY <2>1, <2>2
<1>6. CASE ~(i = root /\ b = at[t])
  BY <1>3, <1>4, <1>6, MoveStages
<1> QED
  BY <1>5, <1>6

\* In the bucket that a thread is copying, what is left is what is before it.
LEMMA OwnLeft ==
  ASSUME TypeOK, Locals, Chunks, NEW t \in Threads, pc[t] \in {"seal", "copy", "tally"},
         root \in Tables, NEW k \in Keys, Index(root, k) = at[t]
  PROVE  Left(root, k) <=> k \in Elements(Remaining(t))
<1>1. Busy(t) /\ pc[t] # "done"
  BY DEF Busy
<1>2. /\ tbl[t] = root /\ at[t] \in Nat /\ upto[t] \in Nat /\ at[t] < upto[t]
      /\ upto[t] <= cursor[root] /\ cursor[root] \in Nat
  BY <1>1, InChunk
<1>3. ASSUME NEW u \in Threads PROVE ~Ahead(root, at[t], u)
  BY <1>1, <1>2, OwnBucket DEF Ahead
<1>4. ~Untouched(root, at[t])
  BY <1>2, <1>3 DEF Untouched
<1>5. ASSUME NEW u \in Threads, u # t PROVE ~Copying(root, at[t], u)
  <2>1. Copying(root, at[t], u) => Busy(u) /\ pc[u] # "done"
    BY DEF Copying, Busy
  <2> QED
    BY <1>1, <1>5, <2>1, OwnBucket DEF Copying
<1>6. Copying(root, at[t], t)
  BY <1>2 DEF Copying
<1> QED
  BY <1>4, <1>5, <1>6 DEF Left

\* A bucket that is frozen has its nodes before it; its other keys are in
\* neither table.
LEMMA FreezeBucketMigrating ==
  ASSUME IInv, NEW t \in Threads, FreezeBucket(t)
  PROVE  /\ \A i \in Tables : i + 1 \in Tables => \A k \in Keys : KeyFine(i, k)'
         /\ TodoFine(t)'
<1>a. /\ TypeOK /\ Locals /\ Chunks /\ Chains
      /\ \A i \in Tables : i + 1 \in Tables => \A k \in Keys : KeyFine(i, k)
  BY MigratingParts DEF IInv
<1>1. Moves(t) /\ Busy(t) /\ pc[t] = "freeze" /\ UNCHANGED <<root, chain, handle, sealed, tbl>>
  BY DEF Moves, FreezeBucket, Busy, args
<1>2. /\ tbl[t] = root /\ root \in Tables /\ at[t] \in Buckets
      /\ at[t] \in Nat /\ upto[t] \in Nat /\ at[t] < upto[t]
  BY <1>a, <1>1, InChunk
<1>3. PICK s \in Seq(Keys) : s = chain[root][at[t]]
  BY <1>a, <1>2 DEF TypeOK
<1>4. /\ todo'[t] = s
      /\ \/ s = <<>> /\ pc'[t] \notin {"seal", "copy", "tally"}
         \/ s # <<>> /\ pc'[t] = "seal" /\ at'[t] = at[t]
  BY <1>a, <1>1, <1>2, <1>3 DEF FreezeBucket, NextBucket, Goto, TypeOK
<1>5. TodoFine(t)'
  <2>1. CASE pc'[t] \notin {"seal", "copy", "tally"}
    BY <2>1 DEF TodoFine
  <2>2. CASE s # <<>> /\ pc'[t] = "seal" /\ at'[t] = at[t]
    <3>1. Distinct(s) /\ chain'[tbl'[t]][at'[t]] = s
      BY <1>a, <1>1, <1>2, <1>3, <2>2 DEF Chains
    <3>2. TodoFine(t)' <=> (pc'[t] \in {"seal", "copy", "tally"} =>
             /\ todo'[t] # <<>> /\ Distinct(todo'[t])
             /\ Elements(todo'[t]) \subseteq Elements(chain'[tbl'[t]][at'[t]])
             /\ pc'[t] \in {"copy", "tally"} => sealed'[tbl'[t]][Head(todo'[t])])
      BY DEF TodoFine, Distinct, Elements
    <3> QED
      BY <1>4, <2>2, <3>1, <3>2
  <2> QED
    BY <1>4, <2>1, <2>2
<1>6. ASSUME NEW i \in Tables, i + 1 \in Tables, NEW k \in Keys PROVE KeyFine(i, k)'
  <2>0. KeyFine(i, k)
    BY <1>a, <1>6
  <2>1. CASE i = root /\ Index(i, k) = at[t]
    <3>1. Left(i, k)
      <4>1. Ahead(root, at[t], t)
        BY <1>1, <1>2, <1>a, InChunk DEF Ahead, Chunk
      <4> QED
        BY <2>1, <4>1 DEF Left, Untouched
    <3>2. k \notin Nodes(i + 1) /\ handle[i + 1][k] = NULL
      BY <2>0, <3>1 DEF KeyFine, Nodes
    <3>3. Left(i, k)' <=> ToCopy(i, k, t)'
      BY <1>1, <2>1, MoveLeft
    <3>4. CASE k \in Elements(s)
      <4>1. s # <<>>
        BY <3>4, NoElements
      <4>2. ToCopy(i, k, t)'
        <5>1. ToCopy(i, k, t)' <=> /\ pc'[t] \in {"seal", "copy", "tally"} /\ tbl'[t] = i
                                   /\ at'[t] = Index(i, k)
                                   /\ k \in Elements(IF pc'[t] = "tally" THEN Tail(todo'[t])
                                                      ELSE todo'[t])
          BY DEF ToCopy, Copying, Index, Elements, Remaining
        <5> QED
          BY <1>1, <1>2, <1>4, <2>1, <3>4, <4>1, <5>1
      <4> QED
        BY <1>1, <3>2, <3>3, <4>2 DEF KeyFine, Nodes
    <3>5. CASE k \notin Elements(s)
      <4>1. k \notin Nodes(i)
        BY <1>a, <1>2, <1>3, <2>1, <3>5 DEF Chains
      <4>2. handle[i][k] = NULL
        BY <4>1 DEF Nodes
      <4>3. KeyFine(i, k)' <=>
              IF Left(i, k)' THEN k \notin Nodes(i + 1)'
              ELSE /\ k \in Nodes(i)' => sealed'[i][k] /\ k \in Nodes(i + 1)'
                   /\ root' = i => handle'[i + 1][k] = handle'[i][k]
        BY DEF KeyFine
      <4>4. Nodes(i)' = Nodes(i) /\ Nodes(i + 1)' = Nodes(i + 1)
        BY <1>1 DEF Nodes
      <4> QED
        BY <1>1, <3>2, <4>1, <4>2, <4>3, <4>4
    <3> QED
      BY <3>4, <3>5
  <2>2. CASE ~(i = root /\ Index(i, k) = at[t])
    <3>1. Left(i, k)' <=> Left(i, k)
      BY <1>1, <2>2, MoveLeft
    <3> QED
      BY <1>1, <2>0, <3>1, KeyKept DEF Nodes
  <2> QED
    BY <2>1, <2>2
<1> QED
  BY <1>5, <1>6

\* A handle is sealed before its node is copied.
LEMMA FreezeHandleMigrating ==
  ASSUME IInv, NEW t \in Threads, FreezeHandle(t)
  PROVE  /\ \A i \in Tables : i + 1 \in Tables => \A k \in Keys : KeyFine(i, k)'
         /\ TodoFine(t)'
<1>a. /\ TypeOK /\ Locals /\ Chunks /\ TodoFine(t)
      /\ \A i \in Tables : i + 1 \in Tables => \A k \in Keys : KeyFine(i, k)
  BY MigratingParts DEF IInv
<1>1. /\ Moves(t) /\ Busy(t) /\ pc[t] = "seal" /\ pc'[t] = "copy"
      /\ sealed' = [sealed EXCEPT ![tbl[t]][Head(todo[t])] = TRUE]
      /\ UNCHANGED <<root, chain, handle, tbl, at, todo>>
  BY <1>a DEF Moves, FreezeHandle, Busy, args, chunk, Goto, TypeOK
<1>q. StepOf(t)
  BY <1>1 DEF Moves, StepOf
<1>2. tbl[t] = root /\ root \in Tables
  BY <1>a, <1>1, InChunk DEF TypeOK
<1>3. PICK s \in Seq(Keys) : s = todo[t]
  BY <1>a DEF TypeOK
<1>4. s # <<>> /\ Distinct(s) /\ Elements(s) \subseteq Elements(chain[root][at[t]])
  BY <1>a, <1>1, <1>2, <1>3 DEF TodoFine
<1>5. PICK x \in Keys : x = Head(s)
  BY <1>4, TailElements
<1>6. TodoFine(t)'
  <2>1. sealed'[root][x]
    BY <1>a, <1>1, <1>2, <1>3, <1>5 DEF TypeOK
  <2>2. TodoFine(t)' <=> (pc'[t] \in {"seal", "copy", "tally"} =>
           /\ todo'[t] # <<>> /\ Distinct(todo'[t])
           /\ Elements(todo'[t]) \subseteq Elements(chain'[tbl'[t]][at'[t]])
           /\ pc'[t] \in {"copy", "tally"} => sealed'[tbl'[t]][Head(todo'[t])])
    BY DEF TodoFine, Distinct, Elements
  <2> QED
    BY <1>1, <1>2, <1>3, <1>4, <1>5, <2>1, <2>2
<1>7. ASSUME NEW i \in Tables, i + 1 \in Tables, NEW k \in Keys PROVE KeyFine(i, k)'
  <2>0. KeyFine(i, k)
    BY <1>a, <1>7
  <2>1. Left(i, k)' <=> Left(i, k)
    <3>1. CASE i = root /\ Index(i, k) = at[t]
      <4>1. Left(i, k) <=> k \in Elements(todo[t])
        BY <1>a, <1>1, <1>2, <3>1, OwnLeft DEF Remaining
      <4>2. Left(i, k)' <=> ToCopy(i, k, t)'
        BY <1>1, <3>1, MoveLeft
      <4>3. ToCopy(i, k, t)' <=> /\ pc'[t] \in {"seal", "copy", "tally"} /\ tbl'[t] = i
                                 /\ at'[t] = Index(i, k)
                                 /\ k \in Elements(IF pc'[t] = "tally" THEN Tail(todo'[t])
                                                    ELSE todo'[t])
        BY DEF ToCopy, Copying, Index, Elements, Remaining
      <4> QED
        BY <1>1, <1>2, <3>1, <4>1, <4>2, <4>3
    <3>2. CASE ~(i = root /\ Index(i, k) = at[t])
      BY <1>1, <3>2, MoveLeft
    <3> QED
      BY <3>1, <3>2
  <2>2. sealed[i][k] => sealed'[i][k]
    BY <1>q, Irrevocable
  <2> QED
    BY <1>1, <2>0, <2>1, <2>2, KeyKept DEF Nodes
<1> QED
  BY <1>6, <1>7

\* A copy is the key's turn: now both tables have it.
LEMMA CopyMigrating ==
  ASSUME IInv, NEW t \in Threads, Copy(t)
  PROVE  /\ \A i \in Tables : i + 1 \in Tables => \A k \in Keys : KeyFine(i, k)'
         /\ TodoFine(t)'
<1>a. /\ TypeOK /\ Locals /\ Chunks /\ TodoFine(t)
      /\ \A i \in Tables : i + 1 \in Tables => \A k \in Keys : KeyFine(i, k)
  BY MigratingParts DEF IInv
<1>1. PICK x \in Keys, n \in Tables : Copies(t, x, n)
  BY CopyFacts
<1>2. /\ Moves(t) /\ n = root + 1 /\ tbl[t] = root /\ pc[t] = "copy" /\ Busy(t)
      /\ x = Head(todo[t]) /\ x \in Elements(todo[t]) /\ at[t] = Index(root, x)
      /\ x \in Nodes(root) /\ x \notin Nodes(n) /\ sealed[root][x]
      /\ handle' = [handle EXCEPT ![n][x] = handle[root][x]]
      /\ chain' = [chain EXCEPT ![n][Index(n, x)] = <<x>> \o chain[n][Index(n, x)]]
      /\ pc'[t] = "tally"
      /\ UNCHANGED <<root, cursor, frozen, sealed, tbl, at, todo>>
  BY <1>a, <1>1 DEF Copies, Moves, args, migration, chunk, TypeOK
<1>q. StepOf(t)
  BY DEF StepOf
<1>c. /\ root \in Tables /\ root \in Nat /\ n # root /\ root # n + 1
      /\ at[t] \in Buckets /\ at[t] \in Nat
  <2>1. root \in Tables /\ at[t] \in Buckets /\ at[t] \in Nat
    BY <1>a, <1>2, InChunk
  <2> QED
    BY <1>2, <2>1 DEF Tables
<1>3. PICK s \in Seq(Keys) : s = todo[t]
  BY <1>a DEF TypeOK
<1>4. s # <<>> /\ Distinct(s) /\ Elements(s) \subseteq Elements(chain[root][at[t]])
  BY <1>a, <1>2, <1>3 DEF TodoFine
<1>5. PICK r \in Seq(Keys) : r = Tail(s)
  BY <1>4, TailElements
<1>6. Elements(r) = Elements(s) \ {x} /\ Distinct(r)
  BY <1>2, <1>3, <1>4, <1>5, TailElements
<1>8. chain'[root] = chain[root]
  BY <1>a, <1>c, <1>2 DEF TypeOK
<1>9. TodoFine(t)'
  <2>1. TodoFine(t)' <=> (pc'[t] \in {"seal", "copy", "tally"} =>
           /\ todo'[t] # <<>> /\ Distinct(todo'[t])
           /\ Elements(todo'[t]) \subseteq Elements(chain'[tbl'[t]][at'[t]])
           /\ pc'[t] \in {"copy", "tally"} => sealed'[tbl'[t]][Head(todo'[t])])
    BY DEF TodoFine, Distinct, Elements
  <2>2. chain'[tbl'[t]][at'[t]] = chain[root][at[t]]
    BY <1>2, <1>8
  <2> QED
    BY <1>2, <1>3, <1>4, <2>1, <2>2
<1>10. \A i \in Tables : Nodes(i)' = IF i = n THEN Nodes(i) \union {x} ELSE Nodes(i)
  BY <1>a, <1>1, CopyNodes
<1>11. ASSUME NEW i \in Tables, i + 1 \in Tables, NEW k \in Keys PROVE KeyFine(i, k)'
  <2>0. KeyFine(i, k)
    BY <1>a, <1>11
  <2>e. KeyFine(i, k)' <=>
          IF Left(i, k)' THEN k \notin Nodes(i + 1)'
          ELSE /\ k \in Nodes(i)' => sealed'[i][k] /\ k \in Nodes(i + 1)'
               /\ root' = i => handle'[i + 1][k] = handle'[i][k]
    BY DEF KeyFine
  <2>1. CASE i = root /\ k = x
    <3>1. Left(i, k)' <=> ToCopy(i, k, t)'
      BY <1>2, <2>1, MoveLeft
    <3>2. ToCopy(i, k, t)' =>
            k \in Elements(IF pc'[t] = "tally" THEN Tail(todo'[t]) ELSE todo'[t])
      BY DEF ToCopy, Copying, Elements, Remaining
    <3>3. ~Left(i, k)'
      BY <1>2, <1>3, <1>5, <1>6, <2>1, <3>1, <3>2
    <3>4. k \in Nodes(i + 1)' /\ sealed'[i][k]
      BY <1>2, <1>10, <1>11, <2>1
    <3>5. handle'[i + 1][k] = handle'[i][k]
      BY <1>a, <1>2, <1>c, <2>1 DEF TypeOK
    <3> QED
      BY <2>e, <3>3, <3>4, <3>5
  <2>2. CASE i = root /\ k # x
    <3>1. Left(i, k)' <=> Left(i, k)
      <4>1. CASE Index(i, k) = at[t]
        <5>1. Left(i, k) <=> k \in Elements(s)
          BY <1>a, <1>2, <1>3, <1>c, <2>2, <4>1, OwnLeft DEF Remaining
        <5>2. Left(i, k)' <=> ToCopy(i, k, t)'
          BY <1>2, <2>2, <4>1, MoveLeft
        <5>3. ToCopy(i, k, t)' <=> /\ pc'[t] \in {"seal", "copy", "tally"} /\ tbl'[t] = i
                                   /\ at'[t] = Index(i, k)
                                   /\ k \in Elements(IF pc'[t] = "tally" THEN Tail(todo'[t])
                                                      ELSE todo'[t])
          BY DEF ToCopy, Copying, Index, Elements, Remaining
        <5> QED
          BY <1>2, <1>3, <1>5, <1>6, <2>2, <4>1, <5>1, <5>2, <5>3
      <4>2. CASE Index(i, k) # at[t]
        BY <1>2, <4>2, MoveLeft
      <4> QED
        BY <4>1, <4>2
    <3>2. /\ k \in Nodes(i)' <=> k \in Nodes(i)
          /\ k \in Nodes(i + 1)' <=> k \in Nodes(i + 1)
      BY <1>10, <1>11, <2>2
    <3>3. handle'[i + 1][k] = handle[i + 1][k] /\ handle'[i][k] = handle[i][k]
      BY <1>a, <1>2, <1>c, <2>2 DEF TypeOK
    <3>4. sealed'[i][k] = sealed[i][k] /\ root' = root
      BY <1>2
    <3> QED
      BY <2>0, <2>2, <3>1, <3>2, <3>3, <3>4, KeyKept
  <2>3. CASE i = n
    <3>1. Left(i, k)
      BY <1>a, <1>2, <1>c, <2>3, AllLeft
    <3>2. Left(i, k)'
      BY <1>2, <1>c, <2>3, <3>1, MoveLeft
    <3>3. Nodes(i + 1)' = Nodes(i + 1)
      <4>1. n + 1 # n
        BY <1>2, <1>c
      <4> QED
        BY <1>10, <1>11, <2>3, <4>1
    <3> QED
      BY <2>0, <3>1, <3>2, <3>3 DEF KeyFine
  <2>4. CASE i # root /\ i # n
    <3>1. Left(i, k)' <=> Left(i, k)
      BY <1>2, <2>4, MoveLeft
    <3>2. i + 1 # n
      BY <1>2, <1>c, <2>4 DEF Tables
    <3>3. Nodes(i)' = Nodes(i) /\ Nodes(i + 1)' = Nodes(i + 1)
      BY <1>10, <1>11, <2>4, <3>2
    <3> QED
      BY <1>2, <2>0, <2>4, <3>1, <3>3, KeyKept
  <2> QED
    BY <2>1, <2>2, <2>3, <2>4
<1> QED
  BY <1>9, <1>11

\* Counting a copy changes nothing of that.
LEMMA CountCopyMigrating ==
  ASSUME IInv, NEW t \in Threads, CountCopy(t)
  PROVE  /\ \A i \in Tables : i + 1 \in Tables => \A k \in Keys : KeyFine(i, k)'
         /\ TodoFine(t)'
<1>a. /\ TypeOK /\ Locals /\ Chunks /\ TodoFine(t)
      /\ \A i \in Tables : i + 1 \in Tables => \A k \in Keys : KeyFine(i, k)
  BY MigratingParts DEF IInv
<1>1. PICK x \in Keys, n \in Tables : Tallies(t, x, n)
  BY CountCopyFacts
<1>2. /\ Moves(t) /\ tbl[t] = root /\ pc[t] = "tally" /\ Busy(t)
      /\ UNCHANGED <<root, chain, handle, sealed, tbl>>
  BY <1>1 DEF Tallies, Moves, args, nodes
<1>c. root \in Tables
  BY <1>a DEF TypeOK
<1>3. PICK s \in Seq(Keys) : s = todo[t]
  BY <1>a DEF TypeOK
<1>4. s # <<>> /\ Distinct(s) /\ Elements(s) \subseteq Elements(chain[root][at[t]])
  BY <1>a, <1>2, <1>3 DEF TodoFine
<1>5. PICK r \in Seq(Keys) : r = Tail(s)
  BY <1>4, TailElements
<1>6. Elements(r) \subseteq Elements(s) /\ Distinct(r)
  BY <1>3, <1>4, <1>5, TailElements
<1>7. /\ todo'[t] = r
      /\ \/ r = <<>> /\ pc'[t] \notin {"seal", "copy", "tally"}
         \/ r # <<>> /\ pc'[t] = "seal" /\ at'[t] = at[t]
  BY <1>a, <1>1, <1>3, <1>5 DEF Tallies, TypeOK
<1>8. TodoFine(t)'
  <2>1. CASE pc'[t] \notin {"seal", "copy", "tally"}
    BY <2>1 DEF TodoFine
  <2>2. CASE r # <<>> /\ pc'[t] = "seal" /\ at'[t] = at[t]
    <3>1. TodoFine(t)' <=> (pc'[t] \in {"seal", "copy", "tally"} =>
             /\ todo'[t] # <<>> /\ Distinct(todo'[t])
             /\ Elements(todo'[t]) \subseteq Elements(chain'[tbl'[t]][at'[t]])
             /\ pc'[t] \in {"copy", "tally"} => sealed'[tbl'[t]][Head(todo'[t])])
      BY DEF TodoFine, Distinct, Elements
    <3>2. chain'[tbl'[t]][at'[t]] = chain[root][at[t]]
      BY <1>2, <2>2
    <3> QED
      BY <1>4, <1>6, <1>7, <2>2, <3>1, <3>2
  <2> QED
    BY <1>7, <2>1, <2>2
<1>9. ASSUME NEW i \in Tables, i + 1 \in Tables, NEW k \in Keys PROVE KeyFine(i, k)'
  <2>0. KeyFine(i, k)
    BY <1>a, <1>9
  <2>1. Left(i, k)' <=> Left(i, k)
    <3>1. CASE i = root /\ Index(i, k) = at[t]
      <4>1. Left(i, k) <=> k \in Elements(r)
        BY <1>a, <1>2, <1>3, <1>5, <1>c, <3>1, OwnLeft DEF Remaining
      <4>2. Left(i, k)' <=> ToCopy(i, k, t)'
        BY <1>2, <3>1, MoveLeft
      <4>3. ToCopy(i, k, t)' <=> /\ pc'[t] \in {"seal", "copy", "tally"} /\ tbl'[t] = i
                                 /\ at'[t] = Index(i, k)
                                 /\ k \in Elements(IF pc'[t] = "tally" THEN Tail(todo'[t])
                                                   ELSE todo'[t])
        BY DEF ToCopy, Copying, Index, Elements, Remaining
      <4>4. CASE r = <<>>
        BY <1>7, <4>1, <4>2, <4>3, <4>4, NoElements
      <4>5. CASE r # <<>>
        BY <1>2, <1>7, <3>1, <4>1, <4>2, <4>3, <4>5
      <4> QED
        BY <4>4, <4>5
    <3>2. CASE ~(i = root /\ Index(i, k) = at[t])
      BY <1>2, <3>2, MoveLeft
    <3> QED
      BY <3>1, <3>2
  <2> QED
    BY <1>2, <2>0, <2>1, KeyKept DEF Nodes
<1> QED
  BY <1>8, <1>9

\* A chunk that is taken stays ahead of its thread.
LEMMA HelpMigrating ==
  ASSUME IInv, NEW t \in Threads, Help(t)
  PROVE  /\ \A i \in Tables : i + 1 \in Tables =>
              FrozenFine(i)' /\ \A k \in Keys : KeyFine(i, k)'
         /\ TodoFine(t)'
<1>a. /\ TypeOK /\ Locals /\ Chunks
      /\ \A i \in Tables : i + 1 \in Tables => FrozenFine(i) /\ \A k \in Keys : KeyFine(i, k)
  BY MigratingParts DEF IInv
<1>q. StepOf(t)
  BY DEF StepOf
<1>o. \A u \in Threads : u # t => Hands(u)' = Hands(u)
  <2> SUFFICES ASSUME NEW u \in Threads, u # t PROVE Hands(u)' = Hands(u)
    OBVIOUS
  <2> QED
    BY <1>a, <1>q, OthersStay
<1>0. PICK j \in Tables, m \in Nat : j = tbl[t] /\ m = Lesser(cursor[j] + CHUNK, Capacity[j])
  BY <1>a, HelpFacts
<1>1. /\ ~Busy(t) /\ UNCHANGED <<root, nodes, tbl, handle, sealed, frozen>>
      /\ cursor' = [cursor EXCEPT ![j] = m]
      /\ cursor[j] \in Nat /\ cursor[j] <= m
      /\ \/ cursor' = cursor /\ ~Busy(t)'
         \/ /\ j = root /\ cursor[j] < m
            /\ Busy(t)' /\ pc'[t] = "freeze" /\ from'[t] = cursor[j] /\ at'[t] = cursor[j]
            /\ upto'[t] = m
  BY <1>a, <1>0, HelpFacts DEF args, nodes
<1>2. pc[t] \notin {"seal", "copy", "tally"} /\ pc'[t] \notin {"seal", "copy", "tally"}
  BY <1>1 DEF Busy
<1>3. ASSUME NEW i \in Tables, NEW b \in 0..(Capacity[i] - 1)
      PROVE  Untouched(i, b)' <=> Untouched(i, b)
  <2>0. b \in Nat /\ cursor[i] \in Nat
    BY <1>a, TableAssumption DEF TypeOK
  <2>1. ~Ahead(i, b, t)
    BY <1>1 DEF Ahead
  <2>2. CASE cursor' = cursor /\ ~Busy(t)'
    <3>1. ~Ahead(i, b, t)'
      BY <2>2 DEF Ahead
    <3> QED
      BY <1>o, <2>1, <2>2, <3>1, UntouchedSame
  <2>3. CASE /\ Busy(t)' /\ pc'[t] = "freeze" /\ from'[t] = cursor[j] /\ at'[t] = cursor[j]
             /\ upto'[t] = m
    <3>1. CASE i # j
      <4>1. ~Ahead(i, b, t)'
        BY <1>0, <1>1, <3>1 DEF Ahead
      <4>2. cursor'[i] = cursor[i]
        BY <1>a, <1>1, <3>1 DEF TypeOK
      <4> QED
        BY <1>o, <2>1, <4>1, <4>2, UntouchedSame
    <3>2. CASE i = j
      <4>1. cursor'[i] = m
        BY <1>a, <1>1, <3>2 DEF TypeOK
      <4>2. Ahead(i, b, t)' <=> b \in cursor[i]..(m - 1)
        <5>1. Ahead(i, b, t)' <=> /\ Busy(t)' /\ tbl'[t] = i /\ b \in from'[t]..(upto'[t] - 1)
                                  /\ at'[t] < b \/ (at'[t] = b /\ pc'[t] = "freeze")
          BY DEF Ahead, Chunk
        <5> QED
          BY <1>0, <1>1, <2>0, <2>3, <3>2, <5>1
      <4>3. ASSUME NEW u \in Threads, u # t PROVE Ahead(i, b, u)' <=> Ahead(i, b, u)
        BY <1>o, <4>3, HandsSame DEF Ahead
      <4>4. Untouched(i, b) <=> b >= cursor[i] \/ \E u \in Threads : Ahead(i, b, u)
        BY DEF Untouched
      <4>5. Untouched(i, b)' <=> b >= m \/ \E u \in Threads : Ahead(i, b, u)'
        BY <4>1 DEF Untouched
      <4>6. b >= cursor[i] <=> b >= m \/ b \in cursor[i]..(m - 1)
        BY <1>1, <2>0, <3>2
      <4> HIDE DEF Ahead
      <4> QED
        BY <2>1, <4>2, <4>3, <4>4, <4>5, <4>6
    <3> QED
      BY <3>1, <3>2
  <2> QED
    BY <1>1, <2>2, <2>3
<1>4. ASSUME NEW i \in Tables, NEW k \in Keys PROVE Left(i, k)' <=> Left(i, k)
  <2>1. PICK b \in 0..(Capacity[i] - 1) : b = Index(i, k)
    BY IndexInTable
  <2>2. ~ToCopy(i, k, t) /\ ~ToCopy(i, k, t)'
    BY <1>2 DEF ToCopy, Copying
  <2>3. Untouched(i, b)' <=> Untouched(i, b)
    BY <1>3
  <2> QED
    BY <1>o, <2>1, <2>2, <2>3, LeftSame
<1>5. TodoFine(t)'
  BY <1>2 DEF TodoFine
<1>6. ASSUME NEW i \in Tables, i + 1 \in Tables
      PROVE  FrozenFine(i)' /\ \A k \in Keys : KeyFine(i, k)'
  <2>1. FrozenFine(i) /\ \A k \in Keys : KeyFine(i, k)
    BY <1>a, <1>6
  <2>2. ASSUME NEW b \in 0..(Capacity[i] - 1) PROVE Untouched(i, b)' \/ frozen'[i][b]
    BY <1>1, <1>3, <2>1 DEF FrozenFine
  <2>3. ASSUME NEW k \in Keys PROVE KeyFine(i, k)'
    <3>1. KeyFine(i, k) /\ (Left(i, k)' <=> Left(i, k))
      BY <1>4, <2>1
    <3> QED
      BY <1>1, <3>1, KeyKept DEF Nodes
  <2> QED
    BY <2>2, <2>3 DEF FrozenFine
<1> QED
  BY <1>5, <1>6

\* Every step keeps a migration exact.
LEMMA MigratingStep == ASSUME IInv, TableStep PROVE Migrating'
<1>0. CASE UNCHANGED steps
  <2>1. UNCHANGED <<root, cursor, chain, frozen, handle, sealed, pc, tbl, from, upto, at, todo>>
    BY <1>0 DEF steps, migration, nodes, args, chunk
  <2>2. ASSUME NEW b, NEW n PROVE Untouched(n, b)' <=> Untouched(n, b)
    BY <2>1 DEF Untouched, Ahead, Busy, Chunk
  <2>3. ASSUME NEW k, NEW n PROVE Left(n, k)' <=> Left(n, k)
    BY <2>1 DEF Left, Untouched, Ahead, Busy, Chunk, Copying, Remaining, Elements, Index
  <2>4. ASSUME NEW n PROVE FrozenFine(n)' <=> FrozenFine(n)
    BY <2>1, <2>2 DEF FrozenFine
  <2>5. ASSUME NEW n, NEW k PROVE KeyFine(n, k)' <=> KeyFine(n, k)
    BY <2>1, <2>3 DEF KeyFine, Nodes
  <2>6. ASSUME NEW t PROVE TodoFine(t)' <=> TodoFine(t)
    BY <2>1 DEF TodoFine, Distinct, Elements
  <2>7. Migrating
    BY DEF IInv
  <2>8. /\ \A n \in Tables : n + 1 \in Tables => FrozenFine(n) /\ \A k \in Keys : KeyFine(n, k)
        /\ \A t \in Threads : TodoFine(t)
    BY <2>7, MigratingParts
  <2>9. /\ \A n \in Tables : n + 1 \in Tables => FrozenFine(n)' /\ \A k \in Keys : KeyFine(n, k)'
        /\ \A t \in Threads : TodoFine(t)'
    BY <2>4, <2>5, <2>6, <2>8
  <2> QED
    BY <2>9 DEF Migrating, FrozenFine, KeyFine, TodoFine
<1>q. SUFFICES ASSUME NEW t \in Threads, StepOf(t)
               PROVE  /\ \A i \in Tables : i + 1 \in Tables =>
                           FrozenFine(i)' /\ \A k \in Keys : KeyFine(i, k)'
                      /\ TodoFine(t)'
  <2>1. ASSUME NEW t \in Threads, StepOf(t),
               \A i \in Tables : i + 1 \in Tables =>
                 FrozenFine(i)' /\ \A k \in Keys : KeyFine(i, k)',
               TodoFine(t)'
        PROVE  Migrating'
    <3>1. ASSUME NEW u \in Threads PROVE TodoFine(u)'
      BY <2>1, TodoOthers
    <3> QED
      BY <2>1, <3>1 DEF Migrating, FrozenFine, KeyFine, TodoFine
  <2> QED
    BY <1>0, <2>1 DEF TableStep
<1>1. CASE Steady(t)
  BY <1>q, <1>1, SteadyMigrating, SteadyFrame
<1>2. CASE Help(t)
  BY <1>2, HelpMigrating
<1>3. CASE FreezeBucket(t)
  BY <1>3, FreezeBucketMigrating, MoveFrozen DEF Moves
<1>4. CASE FreezeHandle(t)
  BY <1>4, FreezeHandleMigrating, MoveFrozen DEF Moves
<1>5. CASE Copy(t)
  BY <1>5, CopyMigrating, MoveFrozen DEF Moves
<1>6. CASE CountCopy(t)
  BY <1>6, CountCopyMigrating, MoveFrozen DEF Moves
<1> QED
  BY <1>q, <1>1, <1>2, <1>3, <1>4, <1>5, <1>6, StepsOf DEF Steady

(***************************************************************************)
(* What the store holds                                                    *)
(***************************************************************************)

\* When the successor takes over, it holds what its predecessor held.
LEMMA Switched ==
  ASSUME IInv, done[root] >= Capacity[root], root + 1 \in Tables, NEW k \in Keys
  PROVE  handle[root + 1][k] = handle[root][k]
<1>a. TypeOK /\ Locals /\ Chunks /\ DoneExact /\ Migrating
  BY DEF IInv
<1>1. root \in Tables /\ cursor[root] = Capacity[root] /\ \A t \in Threads : Busy(t) => tbl[t] # root
  BY <1>a, AllDone DEF TypeOK
<1>2. PICK b \in 0..(Capacity[root] - 1) : b = Index(root, k)
  BY <1>1, IndexInTable
<1>3. Capacity[root] \in Nat /\ ~(b >= cursor[root])
  BY <1>1, <1>2, TableAssumption
<1>4. ~Left(root, k)
  BY <1>1, <1>2, <1>3 DEF Left, Untouched, Ahead, Copying, Busy
<1> QED
  BY <1>a, <1>1, <1>4 DEF Migrating

\* But for the puts nothing that can be read changes.
LEMMA ValuesKept ==
  ASSUME IInv, NEW t \in Threads, StepOf(t), ~PutReplace(t), ~PutInsert(t), NEW k \in Keys
  PROVE  /\ \A i \in Tables : i <= root => handle'[i][k] = handle[i][k]
         /\ Value(k)' = Value(k)
<1>a. TypeOK /\ Locals /\ Chunks
  BY DEF IInv
<1>c. root \in Tables /\ root \in Nat /\ root <= root
  BY <1>a DEF TypeOK, Tables
<1>1. CASE \/ Wayfinding(t) \/ Help(t) \/ FreezeBucket(t) \/ FreezeHandle(t)
           \/ CountCopy(t) \/ ChunkDone(t)
  <2>1. UNCHANGED <<root, handle>>
    BY <1>1, <1>a, WayfindingFrame
    DEF nodes, Help, TakeChunk, FreezeBucket, FreezeHandle, CountCopy, CountIn, ChunkDone
  <2> QED
    BY <2>1 DEF Value
<1>2. CASE TryComplete(t)
  <2>1. /\ UNCHANGED handle /\ pc[t] = "complete"
        /\ \/ root' = root
           \/ root' = root + 1 /\ root = tbl[t] /\ done[root] >= Capacity[root]
    BY <1>2 DEF TryComplete, SwitchRoot, nodes
  <2>2. CASE root' = root
    BY <2>1, <2>2 DEF Value
  <2>3. CASE root' = root + 1 /\ root = tbl[t] /\ done[root] >= Capacity[root]
    <3>1. root + 1 \in Tables
      BY <1>a, <1>c, <2>1, <2>3 DEF Locals, Local, Chunks
    <3>2. handle[root + 1][k] = handle[root][k]
      BY <2>3, <3>1, Switched
    <3> QED
      BY <2>1, <2>3, <3>2 DEF Value
  <2> QED
    BY <2>1, <2>2, <2>3
<1>3. CASE Copy(t)
  <2>1. PICK x \in Keys, n \in Tables : Copies(t, x, n)
    BY <1>3, CopyFacts
  <2>2. n = root + 1 /\ root' = root /\ handle' = [handle EXCEPT ![n][x] = handle[root][x]]
    BY <2>1 DEF Copies
  <2>3. ASSUME NEW i \in Tables, i <= root PROVE handle'[i][k] = handle[i][k]
    <3>1. i # n
      BY <1>c, <2>2, <2>3 DEF Tables
    <3> QED
      BY <1>a, <2>2, <3>1 DEF TypeOK
  <2> QED
    BY <1>c, <2>2, <2>3 DEF Value
<1> QED
  BY <1>1, <1>2, <1>3, StepsOf

\* A put changes its key's handle in the current table, and that only.
LEMMA PutChanges ==
  ASSUME IInv, NEW t \in Threads, PutReplace(t) \/ PutInsert(t), NEW x, x = key[t]
  PROVE  /\ x \in Keys /\ root' = root /\ new[t] # NULL /\ pc[t] # "idle"
         /\ Lands(x, new[t])
         /\ \A i \in Tables, k \in Keys :
              handle'[i][k] = IF i = root /\ k = x THEN new[t] ELSE handle[i][k]
         /\ \A k \in Keys : Value(k)' = IF k = x THEN new[t] ELSE Value(k)
<1>a. TypeOK /\ root \in Tables
  BY DEF IInv, TypeOK
<1>1. /\ x \in Keys /\ new[t] \in Handles /\ handle' = [handle EXCEPT ![root][x] = new[t]]
  BY PutReplaceFacts, PutInsertFacts
<1>2. root' = root /\ Lands(x, new[t]) /\ pc[t] # "idle"
  BY DEF PutReplace, PutInsert, LinkNode
<1>3. new[t] # NULL
  BY <1>1, DistinguishedValues
<1>4. \A i \in Tables, k \in Keys :
        handle'[i][k] = IF i = root /\ k = x THEN new[t] ELSE handle[i][k]
  BY <1>a, <1>1 DEF TypeOK
<1>5. \A k \in Keys : Value(k)' = handle'[root][k]
  BY <1>2 DEF Value
<1> QED
  BY <1>a, <1>1, <1>2, <1>3, <1>4, <1>5 DEF Value

WindowFine(t) ==
    /\ pc[t] = "idle" \/ new[t] # NULL => window[t] = {}
    /\ window[t] # {} => Value(key[t]) \in window[t]
    /\ window[t] # {} /\ pc[t] # "table" => handle[tbl[t]][key[t]] \in window[t]

\* Windows, thread by thread.
LEMMA WindowParts == Windows <=> \A t \in Threads : WindowFine(t)
BY DEF Windows, WindowFine

\* Who has a window is inside a get.
LEMMA Reading ==
  ASSUME IInv, NEW u \in Threads, window[u] # {}
  PROVE  /\ pc[u] # "idle" /\ new[u] = NULL /\ key[u] \in Keys
         /\ pc[u] # "table" => tbl[u] \in Tables /\ tbl[u] <= root
         /\ Value(key[u]) \in window[u]
         /\ pc[u] # "table" => handle[tbl[u]][key[u]] \in window[u]
<1>1. TypeOK /\ Locals /\ WindowFine(u)
  BY WindowParts DEF IInv
<1>2. pc[u] # "idle" /\ new[u] = NULL
  BY <1>1 DEF WindowFine
<1>3. key[u] \in Keys
  BY <1>1, <1>2 DEF TypeOK, Locals, Local
<1>4. pc[u] # "table" => tbl[u] \in Tables /\ tbl[u] <= root
  BY <1>1, <1>2, InTable
<1> QED
  BY <1>1, <1>2, <1>3, <1>4 DEF WindowFine

\* The window of a thread that stays where it is: it grows with what is put.
LEMMA WindowKept ==
  ASSUME IInv, NEW t \in Threads, StepOf(t), NEW u \in Threads, WindowFine(u),
         \/ ~PutReplace(t) /\ ~PutInsert(t) /\ window'[u] = window[u]
         \/ PutReplace(t) \/ PutInsert(t),
         key'[u] = key[u], new'[u] = new[u],
         pc'[u] # "idle" \/ window[u] = {},
         pc'[u] # "table" => tbl'[u] = tbl[u] /\ pc[u] # "table"
  PROVE  WindowFine(u)'
<1>a. TypeOK
  BY DEF IInv
<1>e. WindowFine(u)' <=>
        /\ pc'[u] = "idle" \/ new'[u] # NULL => window'[u] = {}
        /\ window'[u] # {} => Value(key[u])' \in window'[u]
        /\ window'[u] # {} /\ pc'[u] # "table" => handle'[tbl'[u]][key'[u]] \in window'[u]
  BY DEF WindowFine
<1>1. CASE window[u] = {}
  <2>1. window'[u] = {}
    <3>1. CASE window'[u] = window[u]
      BY <1>1, <3>1
    <3>2. CASE PutReplace(t) \/ PutInsert(t)
      <4>1. Lands(key[t], new[t])
        BY <3>2, PutChanges
      <4> QED
        BY <1>1, <4>1 DEF Lands
    <3> QED
      BY <3>1, <3>2
  <2> QED
    BY <1>e, <2>1
<1>2. CASE window[u] # {}
  <2>1. PICK k \in Keys : k = key[u]
    BY <1>2, Reading
  <2>2. /\ new[u] = NULL /\ Value(k) \in window[u]
        /\ pc[u] # "table" =>
             tbl[u] \in Tables /\ tbl[u] <= root /\ handle[tbl[u]][k] \in window[u]
    BY <1>2, <2>1, Reading
  <2>v. Value(key[u])' = Value(k)'
    BY <2>1 DEF Value
  <2>3. CASE ~PutReplace(t) /\ ~PutInsert(t) /\ window'[u] = window[u]
    <3>1. /\ \A i \in Tables : i <= root => handle'[i][k] = handle[i][k]
          /\ Value(k)' = Value(k)
      BY <2>3, ValuesKept
    <3> QED
      BY <1>2, <1>e, <2>1, <2>2, <2>v, <2>3, <3>1
  <2>4. CASE PutReplace(t) \/ PutInsert(t)
    <3>0. PICK x \in Keys : x = key[t]
      BY <2>4, PutChanges
    <3>1. /\ Lands(x, new[t])
          /\ \A i \in Tables : handle'[i][k] = IF i = root /\ k = x THEN new[t] ELSE handle[i][k]
          /\ Value(k)' = IF k = x THEN new[t] ELSE Value(k)
      BY <2>4, <3>0, PutChanges
    <3>2. window'[u] = IF k = x THEN window[u] \union {new[t]} ELSE window[u]
      BY <1>2, <2>1, <3>1 DEF Lands
    <3> QED
      BY <1>2, <1>e, <2>1, <2>2, <2>v, <3>1, <3>2
  <2> QED
    BY <2>3, <2>4
<1> QED
  BY <1>1, <1>2

\* Only its own steps and the puts touch the window of a thread.
LEMMA OwnWindow ==
  ASSUME TypeOK, NEW t \in Threads, StepOf(t), ~PutReplace(t), ~PutInsert(t),
         NEW u \in Threads, u # t
  PROVE  window'[u] = window[u]
<1> USE DEF TypeOK
<1>1. CASE window' = window
  BY <1>1
<1>2. CASE GetCall(t)
  BY <1>2 DEF GetCall
<1>3. CASE GetBucket(t)
  BY <1>3 DEF GetBucket
<1>4. CASE GetReads(t)
  BY <1>4 DEF GetReads, ReadHandle
<1> QED
  BY <1>1, <1>2, <1>3, <1>4
  DEF StepOf, PutBegins, PutWith, LoadTable, LoadNext, Help, TakeChunk, FreezeBucket,
      FreezeHandle, Copy, CountCopy, CountIn, ChunkDone, TryComplete, SwitchRoot, PutBucket,
      PutOld, PutReplaceFails, PutInsertFails, Count, Sum, TriggerResize

\* A step of a call that neither begins, ends nor reads table_.
LEMMA Onward ==
  ASSUME TypeOK, Locals, NEW t \in Threads, StepOf(t), ~PutReplace(t), ~PutInsert(t), ~LoadTable(t),
         pc[t] # "idle"
  PROVE  \/ /\ window'[t] = window[t] /\ key'[t] = key[t] /\ new'[t] = new[t]
            /\ pc'[t] # "idle" /\ tbl'[t] = tbl[t] /\ pc[t] # "table"
         \/ window'[t] = {}
         \/ window'[t] = window[t] /\ new[t] # NULL /\ new'[t] = NULL
<1> USE DEF TypeOK, Locals, Local, Goto, args
<1>1. CASE LoadNext(t)
  BY <1>1 DEF LoadNext
<1>2. CASE Help(t)
  BY <1>2 DEF Help, TakeChunk
<1>3. CASE FreezeBucket(t)
  BY <1>3 DEF FreezeBucket, NextBucket
<1>4. CASE FreezeHandle(t)
  BY <1>4 DEF FreezeHandle
<1>5. CASE Copy(t)
  BY <1>5 DEF Copy
<1>5b. CASE CountCopy(t)
  BY <1>5b DEF CountCopy, CountIn, NextBucket
<1>6. CASE ChunkDone(t)
  BY <1>6 DEF ChunkDone, LeaveChunk
<1>7. CASE TryComplete(t)
  BY <1>7 DEF TryComplete, SwitchRoot
<1>8. CASE GetBucket(t)
  BY <1>8 DEF GetBucket, Return
<1>9. CASE GetReads(t)
  BY <1>9 DEF GetReads, ReadHandle
<1>10. CASE PutBucket(t)
  BY <1>10 DEF PutBucket
<1>11. CASE PutOld(t)
  BY <1>11 DEF PutOld, SeeOld
<1>12. CASE PutReplaceFails(t)
  BY <1>12 DEF PutReplaceFails, SeeOld
<1>13. CASE PutInsertFails(t)
  BY <1>13 DEF PutInsertFails
<1>14. CASE Count(t)
  BY <1>14 DEF Count, Return
<1>15. CASE Sum(t)
  BY <1>15 DEF Sum, Return
<1>16. CASE TriggerResize(t)
  BY <1>16 DEF TriggerResize, Return
<1> QED
  BY <1>1, <1>2, <1>3, <1>4, <1>5, <1>5b, <1>6, <1>7, <1>8, <1>9, <1>10, <1>11, <1>12, <1>13,
     <1>14, <1>15, <1>16 DEF StepOf, GetCall, PutBegins, PutWith

\* Every step keeps what a get may return in its window.
LEMMA WindowsStep == ASSUME IInv, TableStep, TypeOK' PROVE Windows'
<1>a. TypeOK /\ Locals /\ Windows
  BY DEF IInv
<1>0. CASE UNCHANGED steps
  BY <1>a, <1>0 DEF steps, nodes, args, Windows, Value
<1>q. SUFFICES ASSUME NEW t \in Threads, StepOf(t), NEW u \in Threads PROVE WindowFine(u)'
  <2>1. (\A u \in Threads : WindowFine(u))' => Windows'
    BY DEF Windows, WindowFine
  <2> QED
    BY <1>0, <2>1 DEF TableStep
<1>w. WindowFine(u)
  BY <1>a, WindowParts
<1>e. WindowFine(u)' <=>
        /\ pc'[u] = "idle" \/ new'[u] # NULL => window'[u] = {}
        /\ window'[u] # {} => Value(key[u])' \in window'[u]
        /\ window'[u] # {} /\ pc'[u] # "table" => handle'[tbl'[u]][key'[u]] \in window'[u]
  BY DEF WindowFine
<1>1. CASE u # t
  <2>1. /\ pc'[u] = pc[u] /\ key'[u] = key[u] /\ new'[u] = new[u] /\ tbl'[u] = tbl[u]
    BY <1>a, <1>q, <1>1, OthersStay, HandsSame
  <2>2. pc'[u] # "idle" \/ window[u] = {}
    BY <1>w, <2>1 DEF WindowFine
  <2>3. CASE PutReplace(t) \/ PutInsert(t)
    BY <1>q, <1>w, <2>1, <2>2, <2>3, WindowKept
  <2>4. CASE ~PutReplace(t) /\ ~PutInsert(t)
    <3>1. window'[u] = window[u]
      BY <1>a, <1>q, <1>1, <2>4, OwnWindow
    <3> QED
      BY <1>q, <1>w, <2>1, <2>2, <2>4, <3>1, WindowKept
  <2> QED
    BY <2>3, <2>4
<1>2. CASE u = t
  <2>i. pc[t] = "idle" => window[t] = {} /\ new[t] = NULL
    BY <1>a, <1>w, <1>2 DEF WindowFine, Locals, Local
  <2>n. new[t] # NULL => window[t] = {}
    BY <1>w, <1>2 DEF WindowFine
  <2>1. CASE PutReplace(t) \/ PutInsert(t)
    <3>1. window[t] = {} /\ Lands(key[t], new[t])
      BY <2>n, <2>1, PutChanges
    <3>2. window'[t] = {}
      BY <3>1 DEF Lands
    <3> QED
      BY <1>2, <1>e, <3>2
  <2>2. CASE GetCall(t)
    <3>1. PICK k \in Keys : /\ key' = [key EXCEPT ![t] = k]
                            /\ window' = [window EXCEPT ![t] = {Value(k)}]
      BY <2>2 DEF GetCall
    <3>2. /\ pc'[t] = "table" /\ key'[t] = k /\ window'[t] = {Value(k)} /\ new'[t] = NULL
          /\ root' = root /\ handle' = handle
      BY <1>a, <2>2, <2>i, <3>1 DEF GetCall, Goto, TypeOK, nodes
    <3>3. Value(key[t])' = Value(k)
      BY <3>2 DEF Value
    <3> QED
      BY <1>2, <1>e, <3>2, <3>3
  <2>3. CASE PutBegins(t)
    <3>1. window' = window /\ pc[t] = "idle"
      BY <2>3 DEF PutBegins, PutWith
    <3> QED
      BY <1>2, <1>e, <2>i, <3>1
  <2>4. CASE LoadTable(t)
    <3>1. /\ pc[t] = "table" /\ pc'[t] = "next" /\ tbl'[t] = root
          /\ UNCHANGED <<root, handle, key, new, window>>
      BY <1>a, <2>4 DEF LoadTable, Goto, TypeOK, nodes
    <3>2. Value(key[t])' = Value(key[t]) /\ Value(key[t]) = handle[root][key[t]]
      BY <3>1 DEF Value
    <3> QED
      BY <1>2, <1>e, <1>w, <3>1, <3>2 DEF WindowFine
  <2>5. CASE ~PutReplace(t) /\ ~PutInsert(t) /\ ~LoadTable(t) /\ pc[t] # "idle"
    <3>1. CASE /\ window'[t] = window[t] /\ key'[t] = key[t] /\ new'[t] = new[t]
               /\ pc'[t] # "idle" /\ tbl'[t] = tbl[t] /\ pc[t] # "table"
      BY <1>q, <1>w, <1>2, <2>5, <3>1, WindowKept
    <3>2. CASE window'[t] = {}
      BY <1>2, <1>e, <3>2
    <3>3. CASE window'[t] = window[t] /\ new[t] # NULL /\ new'[t] = NULL
      BY <1>2, <1>e, <2>n, <3>3
    <3> QED
      BY <1>a, <1>q, <2>5, <3>1, <3>2, <3>3, Onward
  <2>6. pc[t] = "idle" => GetCall(t) \/ PutBegins(t)
    BY <1>q DEF StepOf, LoadTable, LoadNext, Help, TakeChunk, FreezeBucket, FreezeHandle, Copy,
       CountCopy, CountIn, ChunkDone, TryComplete, SwitchRoot, GetBucket, GetReads, ReadHandle,
       PutBucket, PutOld, PutReplace, PutReplaceFails, PutInsert, PutInsertFails, Count, Sum,
       TriggerResize
  <2> QED
    BY <2>1, <2>2, <2>3, <2>4, <2>5, <2>6
<1> QED
  BY <1>1, <1>2

(***************************************************************************)
(* The theorems                                                            *)
(***************************************************************************)

\* At first there is nothing to count.
LEMMA FirstCounts ==
  ASSUME Init, NEW i \in Tables, NEW s \in Shards
  PROVE  count[i][s] + Cardinality(Uncounted(i, s)) = Cardinality(OfShard(i, s))
<1>1. Uncounted(i, s) = {} /\ OfShard(i, s) = {}
  BY DEF Init, Uncounted, Counting, OfShard, Nodes
<1> QED
  BY <1>1, FS_EmptySet DEF Init

\* The initial state satisfies the invariant.
LEMMA InitIInv == Init => IInv
<1> SUFFICES ASSUME Init PROVE IInv
  OBVIOUS
<1>c. 1 \in Tables /\ \A i \in Tables : i \in Nat /\ i >= 1 /\ Capacity[i] \in Nat
  BY TableAssumption DEF Tables
<1>e. <<>> \in Seq(Keys) /\ Elements(<<>>) = {} /\ Distinct(<<>>)
  <2>1. <<>> \in Seq(Keys)
    OBVIOUS
  <2>2. PICK s \in Seq(Keys) : s = <<>>
    BY <2>1
  <2> QED
    BY <2>1, <2>2, NoElements
<1>n. NULL \notin Keys
  BY DistinguishedValues
<1>1. TypeOK
  <2>1. chain \in [Tables -> [Buckets -> Seq(Keys)]]
    <3>1. [b \in Buckets |-> <<>>] \in [Buckets -> Seq(Keys)]
      BY <1>e
    <3> QED
      BY <3>1 DEF Init
  <2>2. /\ count \in [Tables -> [Shards -> Nat]] /\ frozen \in [Tables -> [Buckets -> BOOLEAN]]
        /\ handle \in [Tables -> [Keys -> Handles \union {NULL}]]
        /\ sealed \in [Tables -> [Keys -> BOOLEAN]]
    BY DEF Init
  <2>3. head \in [Threads -> Seq(Keys)] /\ todo \in [Threads -> Seq(Keys)]
    BY <1>e DEF Init
  <2> QED
    BY <1>c, <2>1, <2>2, <2>3 DEF Init, TypeOK, PCs
<1>2. Locals
  BY <1>c, <1>n DEF Init, Locals, Local
<1>b. \A t \in Threads : ~Busy(t)
  BY DEF Init, Busy
<1>3. Chunks
  BY <1>b, <1>c DEF Init, Chunks
<1>4. DoneExact
  <2> SUFFICES ASSUME NEW i \in Tables PROVE done[i] = Cardinality(Finished(i))
    BY DEF DoneExact
  <2>1. 0..(cursor[i] - 1) = {}
    BY DEF Init
  <2>2. Finished(i) = {}
    BY <2>1 DEF Finished
  <2> QED
    BY <2>2, FS_EmptySet DEF Init
<1>5. Chains
  <2> SUFFICES ASSUME NEW i \in Tables, NEW b \in Buckets
               PROVE  /\ \A k \in Keys : k \in Elements(chain[i][b])
                                           <=> k \in Nodes(i) /\ b = Index(i, k)
                      /\ Distinct(chain[i][b])
    BY DEF Chains
  <2>1. chain[i][b] = <<>> /\ Nodes(i) = {}
    BY DEF Init, Nodes
  <2> QED
    BY <1>e, <2>1
<1>6. Migrating
  <2>1. ASSUME NEW i \in Tables, NEW b \in 0..(Capacity[i] - 1) PROVE Untouched(i, b)
    BY <1>c DEF Init, Untouched
  <2>2. ASSUME NEW i \in Tables, NEW k \in Keys PROVE Left(i, k)
    BY <2>1, IndexInTable DEF Left
  <2>3. ASSUME NEW i \in Tables PROVE Nodes(i) = {}
    BY DEF Init, Nodes
  <2>4. \A t \in Threads : pc[t] \notin {"seal", "copy", "tally"}
    BY DEF Init
  <2> QED
    BY <2>1, <2>2, <2>3, <2>4 DEF Migrating
<1>7. CountsNodes
  <2>1. ASSUME NEW i \in Tables PROVE ~resizing[i]
    BY DEF Init
  <2> QED
    BY <2>1, FirstCounts, CountsParts
<1>8. Windows
  BY DEF Init, Windows
<1> QED
  BY <1>1, <1>2, <1>3, <1>4, <1>5, <1>6, <1>7, <1>8 DEF IInv

\* Every step keeps it.
LEMMA StepIInv == ASSUME IInv, TableStep PROVE IInv'
<1>1. TypeOK'
  BY TypeStep
<1> QED
  BY <1>1, LocalsStep, ChunksStep, DoneStep, ChainsStep, MigratingStep, CountsStep, WindowsStep
  DEF IInv

LEMMA NextIInv == IInv /\ [Next]_vars => IInv'
BY Kinds, StepIInv DEF IInv

\* The inductive invariant holds, for any tables, threads and keys: it says for
\* every key whose turn it is in a migration, which neither MigrationExact nor
\* OneNodePerKey does.
THEOREM Inductive == Spec => []IInv
BY InitIInv, NextIInv, PTL DEF Spec

\* A key has one node at most in a table, in the bucket of its hash, in which no
\* key is listed twice: no two puts link a node for it, and no copy is made of
\* a node that has one (migrate_bucket, and the exchange of the head in put).
THEOREM OneNode == Spec => []OneNodePerKey
<1>1. IInv => OneNodePerKey
  <2> SUFFICES ASSUME IInv, NEW i \in Tables, NEW b \in Buckets
               PROVE  /\ \A k \in Keys : k \in Elements(chain[i][b])
                                           <=> k \in Nodes(i) /\ b = Index(i, k)
                      /\ Cardinality(Elements(chain[i][b])) = Len(chain[i][b])
    BY DEF OneNodePerKey
  <2>1. TypeOK /\ Chains
    BY DEF IInv
  <2>2. chain[i][b] \in Seq(Keys) /\ Distinct(chain[i][b])
    BY <2>1 DEF TypeOK, Chains
  <2> QED
    BY <2>1, <2>2, DistinctCounts DEF Chains
<1> QED
  BY <1>1, Inductive, PTL

\* A migration copies every node, and copies only what can no longer change: the
\* successor never takes over too early (help_migrate_one, try_complete_resize).
THEOREM NothingLost == Spec => []MigrationExact
<1>1. IInv => MigrationExact
  <2> SUFFICES ASSUME IInv, NEW i \in Tables, i + 1 \in Tables
               PROVE  /\ root = i => \A k \in Nodes(i + 1) :
                                        sealed[i][k] /\ handle[i + 1][k] = handle[i][k]
                      /\ root > i => /\ \A b \in 0..(Capacity[i] - 1) : frozen[i][b]
                                     /\ \A k \in Nodes(i) : sealed[i][k] /\ k \in Nodes(i + 1)
    BY DEF MigrationExact
  <2>1. TypeOK /\ Migrating
    BY DEF IInv
  <2>2. ASSUME root = i, NEW k \in Nodes(i + 1)
        PROVE  sealed[i][k] /\ handle[i + 1][k] = handle[i][k]
    <3>1. k \in Keys /\ handle[i + 1][k] # NULL
      BY <2>2 DEF Nodes
    <3>2. ~Left(i, k)
      BY <2>1, <2>2, <3>1 DEF Migrating
    <3>3. handle[i + 1][k] = handle[i][k]
      BY <2>1, <2>2, <3>1, <3>2 DEF Migrating
    <3>4. k \in Nodes(i)
      BY <3>1, <3>3 DEF Nodes
    <3> QED
      BY <2>1, <3>1, <3>2, <3>3, <3>4 DEF Migrating
  <2>3. ASSUME root > i
        PROVE  /\ \A b \in 0..(Capacity[i] - 1) : frozen[i][b]
               /\ \A k \in Nodes(i) : sealed[i][k] /\ k \in Nodes(i + 1)
    <3>1. i < root
      BY <2>1, <2>3 DEF TypeOK, Tables
    <3>2. /\ \A b \in 0..(Capacity[i] - 1) : frozen[i][b]
          /\ \A k \in Keys : ~Left(i, k)
      BY <3>1, LeftBehind
    <3>3. Nodes(i) \subseteq Keys
      BY DEF Nodes
    <3> QED
      BY <2>1, <3>2, <3>3 DEF Migrating
  <2> QED
    BY <2>2, <2>3
<1> QED
  BY <1>1, Inductive, PTL

\* The shards count every node once, and a table is replaced only when it has as
\* many nodes as buckets (maybe_trigger_resize in put).
THEOREM CountsHold == Spec => []CountsNodes
<1>1. IInv => CountsNodes
  BY DEF IInv
<1> QED
  BY <1>1, Inductive, PTL

\* A put takes effect in the step of its compare-exchange, for every reader, and
\* no step of a migration changes what the store holds for a key.
THEOREM PutsStay == Spec => PutsLand
<1> DEFINE Stays ==
             /\ \A t \in Threads, k \in Keys :
                  key[t] = k /\ (PutReplace(t) \/ PutInsert(t)) => Value(k)' = new[t]
             /\ \A k \in Keys : Value(k)' # Value(k) =>
                  \E t \in Threads : key[t] = k /\ (PutReplace(t) \/ PutInsert(t))
<1>1. IInv /\ [Next]_vars => [Stays]_vars
  <2> SUFFICES ASSUME IInv, [Next]_vars PROVE Stays \/ UNCHANGED vars
    OBVIOUS
  <2>1. ASSUME NEW t \in Threads, NEW k \in Keys, key[t] = k, PutReplace(t) \/ PutInsert(t)
        PROVE  Value(k)' = new[t]
    BY <2>1, PutChanges
  <2>2. ASSUME NEW k \in Keys, Value(k)' # Value(k), NEW t \in Threads, StepOf(t)
        PROVE  key[t] = k /\ (PutReplace(t) \/ PutInsert(t))
    <3>1. PutReplace(t) \/ PutInsert(t)
      BY <2>2, ValuesKept
    <3>2. PICK x \in Keys : x = key[t]
      BY <3>1, PutChanges
    <3> QED
      BY <2>2, <3>1, <3>2, PutChanges
  <2>3. ASSUME UNCHANGED steps, NEW k \in Keys PROVE Value(k)' = Value(k)
    BY <2>3 DEF steps, Value, nodes
  <2>4. TableStep
    BY Kinds DEF IInv
  <2> QED
    BY <2>1, <2>2, <2>3, <2>4 DEF TableStep
<1>2. [][Stays]_vars => PutsLand
  BY DEF PutsLand
<1> QED
  BY <1>1, <1>2, Inductive, PTL DEF Spec

\* A step of a get that ends it with a value.
LEMMA GetEnds ==
  ASSUME IInv, NEW t \in Threads, StepOf(t), GetReads(t) => ReadHandle(t, FALSE), window[t] # {}, pc'[t] = "idle"
  PROVE  result'[t] \in window[t]
<1>a. TypeOK /\ Locals /\ Chains
  BY DEF IInv
<1>1. /\ pc[t] # "idle" /\ new[t] = NULL /\ key[t] \in Keys
      /\ pc[t] # "table" => handle[tbl[t]][key[t]] \in window[t]
  BY Reading
<1>2. CASE GetBucket(t)
  <2>1. pc[t] = "bucket"
    BY <1>2 DEF GetBucket
  <2>2. PICK i \in Tables, b \in Buckets, k \in Keys : i = tbl[t] /\ k = key[t] /\ b = Index(i, k)
    BY <1>a, <2>1, InTable
  <2>3. k \notin Elements(chain[i][b]) /\ result' = [result EXCEPT ![t] = NULL]
    BY <1>a, <1>2, <2>2 DEF GetBucket, Goto, TypeOK
  <2>4. handle[i][k] = NULL
    BY <1>a, <2>2, <2>3 DEF Chains, Nodes
  <2> QED
    BY <1>a, <1>1, <2>1, <2>2, <2>3, <2>4 DEF TypeOK
<1>3. CASE GetReads(t)
  BY <1>a, <1>1, <1>3 DEF ReadHandle, TypeOK
<1>4. CASE ~GetBucket(t) /\ ~GetReads(t)
  <2>1. \/ pc[t] \in {"idle", "old", "swap", "insert", "count", "sum", "trigger"}
        \/ pc'[t] # "idle"
    BY <1>a, <1>4 DEF StepOf, GetCall, PutBegins, PutWith, LoadTable, LoadNext, Help, TakeChunk,
       FreezeBucket, FreezeHandle, Copy, CountCopy, CountIn, NextBucket, ChunkDone, LeaveChunk,
       TryComplete, SwitchRoot, PutBucket, PutOld, PutReplace, PutReplaceFails, PutInsert,
       LinkNode, PutInsertFails, Count, Sum, TriggerResize, Goto, TypeOK
  <2> QED
    BY <1>a, <1>1, <2>1 DEF Locals, Local
<1> QED
  BY <1>2, <1>3, <1>4

\* The get of hp_store.cpp reads a handle frozen or not.
LEMMA MindsNot ==
  ASSUME TypeOK, ~FrozenIsMiss, [Next]_vars, ~UNCHANGED vars
  PROVE  \E t \in Threads : StepOf(t) /\ (GetReads(t) => ReadHandle(t, FALSE))
<1>1. PICK t \in Threads : Continue(t) \/ GetCall(t) \/ PutCall(t)
  BY DEF Next
<1>2. StepOf(t)
  BY <1>1, TableAssumption DEF Continue, StepOf, PutCall, PutBegins, GetLoad, GetReads
<1>3. CASE GetLoad(t)
  <2>1. FrozenIsMiss = FALSE
    BY TableAssumption
  <2>2. ReadHandle(t, FALSE)
    BY <1>3, <2>1 DEF GetLoad
  <2> QED
    BY <1>2, <2>2
<1>4. CASE ~GetLoad(t) /\ pc[t] = "load"
  <2>1. ~GetCall(t) /\ ~PutCall(t) /\ ~LoadTable(t) /\ ~LoadNext(t)
    BY <1>4 DEF GetCall, PutCall, PutWith, LoadTable, LoadNext
  <2>2. /\ ~Help(t) /\ ~FreezeBucket(t) /\ ~FreezeHandle(t) /\ ~Copy(t) /\ ~CountCopy(t)
        /\ ~ChunkDone(t) /\ ~TryComplete(t)
    BY <1>4 DEF Help, TakeChunk, FreezeBucket, FreezeHandle, Copy, CountCopy, CountIn, ChunkDone,
       TryComplete, SwitchRoot
  <2>3. ~GetBucket(t) /\ ~PutBucket(t) /\ ~PutOld(t) /\ ~PutReplace(t) /\ ~PutReplaceFails(t)
    BY <1>4 DEF GetBucket, PutBucket, PutOld, PutReplace, PutReplaceFails
  <2>4. ~PutInsert(t) /\ ~PutInsertFails(t) /\ ~Count(t) /\ ~Sum(t) /\ ~TriggerResize(t)
    BY <1>4 DEF PutInsert, PutInsertFails, Count, Sum, TriggerResize
  <2> QED
    BY <1>1, <1>4, <2>1, <2>2, <2>3, <2>4 DEF Continue
<1>5. CASE pc[t] # "load"
  BY <1>2, <1>5 DEF GetReads, ReadHandle
<1> QED
  BY <1>3, <1>4, <1>5

\* Where a get looks through the frozen bit, as it does in hp_store.cpp, it
\* returns a value that its key has had during the call, whatever migrations it
\* meets.  In ebr_store.cpp it does not look through it: the assumption is
\* needed.
THEOREM GetsFind == ASSUME ~FrozenIsMiss PROVE Spec => GetsFresh
<1> DEFINE Finds == \A t \in Threads : window[t] # {} /\ pc[t] # "idle" /\ pc'[t] = "idle"
                                         => result'[t] \in window[t]
<1>1. IInv /\ [Next]_vars => [Finds]_vars
  <2> SUFFICES ASSUME IInv, [Next]_vars, ~UNCHANGED vars, NEW t \in Threads,
                      window[t] # {}, pc[t] # "idle", pc'[t] = "idle"
               PROVE  result'[t] \in window[t]
    OBVIOUS
  <2>1. PICK u \in Threads : StepOf(u) /\ (GetReads(u) => ReadHandle(u, FALSE))
    BY MindsNot DEF IInv
  <2>2. u = t
    BY <2>1, OthersStay, HandsSame DEF IInv
  <2> QED
    BY <2>1, <2>2, GetEnds
<1>2. [][Finds]_vars => GetsFresh
  BY DEF GetsFresh
<1> QED
  BY <1>1, <1>2, Inductive, PTL DEF Spec

=============================================================================
