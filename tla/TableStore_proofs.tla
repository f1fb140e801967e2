------------------------ MODULE TableStore_proofs -------------------------
(***************************************************************************)
(* Both table stores, for any number of keys, handles, threads and tables: *)
(* whatever is replaced or outgrown under the calls that use it is freed   *)
(* once, when nobody can reach it any more, and every count is exact.      *)
(*                                                                         *)
(* Every step of a store is a step of HashTable or leaves the table alone, *)
(* so IInv holds here too.  SInv says on top of it who owns a handle or a  *)
(* table and who keeps it from being freed.                                *)
(*                                                                         *)
(* Of the epoch store the theorems speak under the contract of GracePeriod *)
(* (TableStore!Freeable), which EbrGrace_proofs proves of the timely       *)
(* behaviours of ebr.cpp; no theorem here covers a stale announcement.     *)
(***************************************************************************)
EXTENDS TableStore, HashTable_proofs

(***************************************************************************)
(* The steps                                                               *)
(***************************************************************************)

\* A step of thread t, in the store.
ActOf(t) ==
    \/ SGetCall(t) \/ SPutCall(t) \/ Plain(t) \/ SGetBucket(t) \/ TakeTable(t)
    \/ ProtectLoad(t) \/ ProtectPublish(t) \/ ProtectRetry(t) \/ ProtectValidate(t)
    \/ ReadInside(t) \/ Incref(t) \/ Unprotect(t)
    \/ SPutReplace(t) \/ STryComplete(t) \/ Leave(t)
    \/ BeginWalk(t) \/ ReadHazard(t) \/ Reclaim(t) \/ EndScan(t)
    \/ Exit(t) \/ Close(t)

\* A step of a behaviour in which no get takes a frozen handle amiss.
SettledStep ==
    /\ SNext
    /\ \A t \in Threads : TakesFrozen(t) => smr = "hp" /\ root = tbl[t]

\* Whose step it is.
LEMMA Steps ==
  ASSUME [SettledStep]_svars
  PROVE  (\E t \in Threads : ActOf(t)) \/ TeardownStore \/ TeardownDomain \/ UNCHANGED svars
BY DEF SettledStep, SNext, ActOf, Terminated

\* The threads' steps that change the table, by what they do to it.
LEMMA TableActs ==
  ASSUME NEW t \in Threads
  PROVE  /\ SGetCall(t) => StepOf(t) /\ GetCall(t)
         /\ SPutCall(t) => StepOf(t) /\ PutBegins(t)
         /\ Plain(t) => StepOf(t)
         /\ SGetBucket(t) => StepOf(t) /\ GetBucket(t)
         /\ TakeTable(t) => StepOf(t) /\ LoadTable(t)
         /\ ProtectValidate(t) => StepOf(t) /\ (LoadTable(t) \/ ReadHandle(t, FALSE))
         /\ ReadInside(t) => StepOf(t) /\ ReadHandle(t, TRUE)
         /\ SPutReplace(t) => StepOf(t) /\ PutReplace(t)
         /\ STryComplete(t) => StepOf(t) /\ TryComplete(t)
<1>1. \A m \in BOOLEAN : ReadHandle(t, m) => StepOf(t)
  BY DEF StepOf, GetReads
<1>2. SPutCall(t) => PutBegins(t)
  BY DEF SPutCall, PutBegins
<1> QED
  BY <1>1, <1>2 DEF SGetCall, Plain, SGetBucket, TakeTable, ProtectValidate, ReadInside,
     SPutReplace, STryComplete, StepOf

\* The other steps leave it alone.
Aside(t) ==
    \/ ProtectLoad(t) \/ ProtectPublish(t) \/ ProtectRetry(t) \/ Incref(t) \/ Unprotect(t)
    \/ Leave(t) \/ BeginWalk(t) \/ ReadHazard(t) \/ Reclaim(t) \/ EndScan(t)
    \/ Exit(t) \/ Close(t)

\* Such a step is none of HashTable.
LEMMA AsideFrame == ASSUME NEW t \in Threads, Aside(t) PROVE UNCHANGED steps
<1>1. CASE ProtectLoad(t) \/ ProtectPublish(t) \/ ProtectRetry(t) \/ Unprotect(t)
  BY <1>1 DEF ProtectLoad, ProtectPublish, ProtectRetry, Unprotect, vars, steps
<1>2. CASE Leave(t) \/ BeginWalk(t) \/ ReadHazard(t) \/ EndScan(t) \/ Exit(t)
  BY <1>2 DEF Leave, BeginWalk, ReadHazard, EndScan, Exit, vars, steps
<1>3. CASE Incref(t) \/ Reclaim(t) \/ Close(t)
  BY <1>3 DEF Incref, Reclaim, Close, table
<1> QED
  BY <1>1, <1>2, <1>3 DEF Aside

\* The table sees a step of its own, or none.
LEMMA StoreSteps == ASSUME STypeOK, [SettledStep]_svars PROVE TableStep
<1>1. TypeOK /\ fresh \subseteq Handles /\ result \in [Threads -> Handles \union {NULL}]
  BY DEF STypeOK, TypeOK
<1>2. ASSUME UNCHANGED vars PROVE TableStep
  BY <1>1, <1>2 DEF vars, steps, TableStep
<1>3. ASSUME UNCHANGED table, NEW E, FreeAll(E) PROVE TableStep
  BY <1>1, <1>3 DEF table, TableStep, FreeAll, DropAll
<1>4. ASSUME NEW t \in Threads, Incref(t) PROVE TableStep
  BY <1>1, <1>4 DEF Incref, TableStep
<1>5. ASSUME NEW t \in Threads, ActOf(t) PROVE TableStep
  <2>1. CASE ProtectLoad(t) \/ ProtectPublish(t) \/ ProtectRetry(t) \/ Unprotect(t)
    BY <2>1, <1>2 DEF ProtectLoad, ProtectPublish, ProtectRetry, Unprotect
  <2>2. CASE Leave(t) \/ BeginWalk(t) \/ ReadHazard(t) \/ EndScan(t) \/ Exit(t)
    BY <2>2, <1>2 DEF Leave, BeginWalk, ReadHazard, EndScan, Exit
  <2>3. CASE Reclaim(t)
    BY <2>3, <1>3 DEF Reclaim
  <2>4. CASE Close(t)
    BY <2>4, <1>3 DEF Close
  <2>5. ASSUME StepOf(t) PROVE TableStep
    BY <2>5 DEF TableStep
  <2> QED
    BY <1>4, <1>5, <2>1, <2>2, <2>3, <2>4, <2>5, TableActs DEF ActOf
<1>6. CASE TeardownStore
  BY <1>6, <1>3 DEF TeardownStore
<1>7. CASE TeardownDomain
  BY <1>7, <1>3 DEF TeardownDomain
<1>8. CASE UNCHANGED svars
  BY <1>8, <1>2 DEF svars
<1> QED
  BY <1>5, <1>6, <1>7, <1>8, Steps

(***************************************************************************)
(* Frames                                                                  *)
(***************************************************************************)

\* What a step of Plain does to the call: it is not one that begins, takes a
\* table or reads a handle; and only PutInsert hands over the put's handle.
LEMMA PlainFacts ==
  ASSUME STypeOK, NEW t \in Threads, Plain(t)
  PROVE  /\ pc[t] \notin {"idle", "table", "load"} /\ stage[t] = "run"
         /\ root' = root /\ fresh' = fresh /\ result' = result
         /\ pc'[t] \notin {"idle", "table"} => pc[t] # "complete" /\ tbl'[t] = tbl[t]
         /\ \/ pc'[t] # "idle" /\ new'[t] = new[t]
            \/ pc'[t] = "idle" /\ new'[t] = NULL /\ pc[t] \in {"count", "sum", "trigger"}
         /\ pc'[t] \in {"count", "sum", "trigger"} =>
              pc[t] \in {"count", "sum", "trigger"} \/ PutInsert(t)
         /\ pc[t] \in {"count", "sum", "trigger"} => pc'[t] \in {"idle", "sum", "trigger"}
         /\ PutInsert(t) => pc'[t] = "count" /\ pc[t] = "insert"
         /\ ~PutReplace(t)
<1> USE DEF Goto, STypeOK, TypeOK, migration, nodes, chunk, args, PutReplace
<1>0. stage[t] = "run"
  BY DEF Plain, Running
<1>1. CASE LoadNext(t)
  BY <1>0, <1>1 DEF LoadNext, PutInsert
<1>2. CASE Help(t)
  BY <1>0, <1>2 DEF Help, TakeChunk, PutInsert
<1>3. CASE FreezeBucket(t)
  BY <1>0, <1>3 DEF FreezeBucket, NextBucket, PutInsert
<1>4. CASE FreezeHandle(t)
  BY <1>0, <1>4 DEF FreezeHandle, PutInsert
<1>5. CASE Copy(t)
  BY <1>0, <1>5 DEF Copy, PutInsert
<1>5b. CASE CountCopy(t)
  BY <1>0, <1>5b DEF CountCopy, CountIn, NextBucket, PutInsert
<1>6. CASE ChunkDone(t)
  BY <1>0, <1>6 DEF ChunkDone, LeaveChunk, PutInsert
<1>7. CASE PutBucket(t)
  BY <1>0, <1>7 DEF PutBucket, PutInsert
<1>8. CASE PutOld(t)
  BY <1>0, <1>8 DEF PutOld, SeeOld, PutInsert
<1>9. CASE PutReplaceFails(t)
  BY <1>0, <1>9 DEF PutReplaceFails, SeeOld, PutInsert
<1>10. CASE PutInsert(t)
  BY <1>0, <1>10 DEF PutInsert, LinkNode
<1>11. CASE PutInsertFails(t)
  BY <1>0, <1>11 DEF PutInsertFails, PutInsert, LinkNode
<1>12. CASE Count(t)
  BY <1>0, <1>12 DEF Count, Return, PutInsert
<1>13. CASE Sum(t)
  BY <1>0, <1>13 DEF Sum, Return, PutInsert
<1>14. CASE TriggerResize(t)
  BY <1>0, <1>14 DEF TriggerResize, Return, PutInsert
<1> QED
  BY <1>1, <1>2, <1>3, <1>4, <1>5, <1>5b, <1>6, <1>7, <1>8, <1>9, <1>10, <1>11, <1>12, <1>13,
     <1>14 DEF Plain

\* What thread u has in its slot, its reference and its stage.
Mine(u) ==
    <<result[u], ref[u], stage[u], leaving[u], ptrs[u], cand[u], retired[u], visit[u], active[u]>>

\* No thread's step disturbs another one, or the phase.
LEMMA Alone ==
  ASSUME STypeOK, NEW t \in Threads, ActOf(t)
  PROVE  /\ smr' = smr /\ phase' = phase
         /\ \A u \in Threads : u # t => /\ Mine(u)' = Mine(u) /\ Hands(u)' = Hands(u)
                                        /\ (u \in inside)' <=> u \in inside
<1>1. ASSUME NEW u \in Threads, u # t PROVE Hands(u)' = Hands(u)
  <2>1. CASE StepOf(t)
    BY <2>1, <1>1, OthersStay DEF STypeOK
  <2>2. CASE Aside(t)
    BY <2>2, AsideFrame DEF steps, Hands, args, chunk, sum
  <2> QED
    BY <2>1, <2>2, TableActs DEF ActOf, Aside
<1>2. ASSUME NEW u \in Threads, u # t
      PROVE  Mine(u)' = Mine(u) /\ ((u \in inside)' <=> u \in inside)
  <2> USE <1>2 DEF STypeOK, Mine, counts, hazards, sections, scan, reclamation, To
  <2>1. CASE SGetCall(t)
    BY <2>1 DEF SGetCall, Enter, Grace!Enter, GetCall, TypeOK
  <2>2. CASE SPutCall(t)
    BY <2>2 DEF SPutCall, Enter, Grace!Enter, PutWith, TypeOK
  <2>3. CASE Plain(t)
    BY <2>3, PlainFacts DEF Plain, Proceed
  <2>4. CASE SGetBucket(t)
    BY <2>4 DEF SGetBucket, GetBucket, Proceed, TypeOK
  <2>5. CASE TakeTable(t)
    BY <2>5 DEF TakeTable, LoadTable
  <2>6. CASE ProtectLoad(t) \/ ProtectPublish(t) \/ ProtectRetry(t) \/ Unprotect(t)
    BY <2>6 DEF ProtectLoad, ProtectPublish, ProtectRetry, Unprotect, vars
  <2>7. CASE ProtectValidate(t)
    BY <2>7 DEF ProtectValidate, LoadTable, ReadHandle, TypeOK
  <2>8. CASE ReadInside(t)
    BY <2>8 DEF ReadInside, ReadHandle, TypeOK
  <2>9. CASE Incref(t)
    BY <2>9 DEF Incref, TypeOK
  <2>10. CASE SPutReplace(t)
    BY <2>10 DEF SPutReplace, Retire, Grace!Retire, Proceed, PutReplace
  <2>11. CASE STryComplete(t)
    BY <2>11 DEF STryComplete, Retire, Grace!Retire, Proceed, TryComplete, SwitchRoot
  <2>12. CASE Leave(t)
    BY <2>12 DEF Leave, Grace!Leave, vars
  <2>13. CASE BeginWalk(t) \/ ReadHazard(t) \/ EndScan(t) \/ Exit(t)
    BY <2>13 DEF BeginWalk, ReadHazard, EndScan, Exit, vars
  <2>14. CASE Reclaim(t)
    BY <2>14 DEF Reclaim, Grace!Free, table
  <2>15. CASE Close(t)
    BY <2>15 DEF Close, table
  <2> QED
    BY <2>1, <2>2, <2>3, <2>4, <2>5, <2>6, <2>7, <2>8, <2>9, <2>10, <2>11, <2>12, <2>13,
       <2>14, <2>15 DEF ActOf
<1>3. smr' = smr /\ phase' = phase
  BY DEF ActOf, SGetCall, SPutCall, Plain, SGetBucket, TakeTable, ProtectLoad, ProtectPublish,
     ProtectRetry, ProtectValidate, ReadInside, Incref, Unprotect, SPutReplace, STryComplete,
     Leave, BeginWalk, ReadHazard, Reclaim, EndScan, Exit, Close
<1> QED
  BY <1>1, <1>2, <1>3

(***************************************************************************)
(* The stages                                                              *)
(***************************************************************************)

\* The thread that makes a step knows where it goes on.
LEMMA OwnStage ==
  ASSUME STypeOK, IInv, AllStaged, NEW t \in Threads, ActOf(t) PROVE Staged(t)'
<1>a. Staged(t) /\ TypeOK /\ Local(t) /\ smr' = smr /\ phase' = phase
  BY Alone DEF AllStaged, STypeOK, IInv, Locals
<1>b. pc[t] = "load" => /\ tbl[t] \in Tables /\ key[t] \in Keys
                        /\ handle[tbl[t]][key[t]] \in Handles
                        /\ sealed[tbl[t]][key[t]] \in BOOLEAN
  BY <1>a, InTable DEF IInv, Nodes, TypeOK, Local
<1> USE <1>a, RefAssumption, EntryAssumption, DistinguishedValues
    DEF STypeOK, Staged, Running, To, Goto, counts, hazards, reclamation, sections, scan, args
<1>1. CASE SGetCall(t)
  BY <1>1 DEF SGetCall, GetCall, Enter, Grace!Enter, TypeOK, Local
<1>2. CASE SPutCall(t)
  BY <1>2 DEF SPutCall, PutWith, Enter, Grace!Enter, TypeOK, Local
<1>3. CASE Plain(t)
  <2>1. /\ pc[t] \notin {"idle", "table", "load"} /\ stage[t] = "run" /\ result' = result
        /\ (pc'[t] # "idle" /\ new'[t] = new[t]) \/ (pc'[t] = "idle" /\ new'[t] = NULL)
    BY <1>3, PlainFacts
  <2>2. /\ stage' = [stage EXCEPT ![t] = IF smr = "ebr" /\ pc'[t] = "idle" THEN "leave" ELSE "run"]
        /\ UNCHANGED <<ref, leaving, ptrs, cand, inside>>
    BY <1>3 DEF Plain, Proceed
  <2> QED
    BY <2>1, <2>2
<1>4. CASE SGetBucket(t)
  BY <1>4 DEF SGetBucket, GetBucket, Return, Proceed, TypeOK, Local
<1>5. CASE TakeTable(t)
  BY <1>5 DEF TakeTable, LoadTable, TypeOK, Local
<1>6. CASE ProtectLoad(t)
  BY <1>6, <1>b DEF ProtectLoad, vars, Shared, TypeOK, Local
<1>7. CASE ProtectPublish(t)
  <2>1. Which(t) \in {0, 1} /\ Which(t)' = Which(t)
    BY <1>7 DEF Which, ProtectPublish, vars
  <2> QED
    BY <1>7, <2>1 DEF ProtectPublish, vars, TypeOK, Local
<1>8. CASE ProtectRetry(t)
  BY <1>8 DEF ProtectRetry, vars, TypeOK, Local
<1>8b. CASE Unprotect(t)
  BY <1>8b DEF Unprotect, vars, TypeOK, Local
<1>9. CASE ProtectValidate(t)
  <2>1. CASE LoadTable(t)
    BY <1>9, <2>1 DEF ProtectValidate, LoadTable, ReadHandle, TypeOK, Local
  <2>2. CASE ReadHandle(t, FALSE)
    BY <1>9, <1>b, <2>2 DEF ProtectValidate, LoadTable, ReadHandle, Return, TypeOK, Local
  <2> QED
    BY <1>9, <2>1, <2>2 DEF ProtectValidate
<1>10. CASE ReadInside(t)
  BY <1>10, <1>b DEF ReadInside, ReadHandle, Return, TypeOK, Local
<1>11. CASE Incref(t)
  BY <1>11 DEF Incref, steps, TypeOK, Local
<1>12. CASE SPutReplace(t)
  <2>1. /\ pc[t] = "swap" /\ stage[t] = "run" /\ ~leaving[t] /\ phase = "open"
        /\ smr = "ebr" => t \in inside
    BY <1>12 DEF SPutReplace, PutReplace
  <2>2. /\ pc'[t] = "idle" /\ new'[t] = NULL /\ UNCHANGED <<ref, leaving, ptrs, cand, inside>>
    BY <1>12 DEF SPutReplace, PutReplace, Return, Retire, Grace!Retire, TypeOK
  <2>3. \/ stage'[t] = IF smr = "ebr" THEN "leave" ELSE "run"
        \/ stage'[t] = "collect" /\ smr = "hp"
    BY <1>12, <2>2 DEF SPutReplace, Retire, Proceed
  <2> QED
    BY <2>1, <2>2, <2>3
<1>13. CASE STryComplete(t)
  <2>1. /\ pc[t] = "complete" /\ stage[t] = "run"
        /\ pc' = [pc EXCEPT ![t] = "table"]
        /\ UNCHANGED <<key, new, ref, leaving, ptrs, cand, result>>
    BY <1>13 DEF STryComplete, TryComplete, SwitchRoot
  <2>2. /\ inside' = inside
        /\ \/ stage' = stage
           \/ stage' = [stage EXCEPT ![t] = "run"]
           \/ smr = "hp" /\ stage' = [stage EXCEPT ![t] = "collect"]
    <3>1. CASE root' = root
      BY <1>13, <3>1 DEF STryComplete
    <3>2. CASE root' # root
      BY <1>13, <2>1, <3>2 DEF STryComplete, Retire, Proceed, Grace!Retire, TypeOK
    <3> QED
      BY <3>1, <3>2
  <2>3. stage'[t] = "run" \/ (smr = "hp" /\ stage'[t] = "collect")
    BY <2>1, <2>2
  <2> QED
    BY <2>1, <2>2, <2>3 DEF TypeOK
<1>14. CASE Leave(t)
  BY <1>14 DEF Leave, Grace!Leave, vars, TypeOK, Local
<1>15. CASE BeginWalk(t) \/ ReadHazard(t)
  <2>1. stage[t] = "collect" \/ stage[t] = "scan"
    BY <1>15 DEF BeginWalk, ReadHazard
  <2>2. stage'[t] = "scan" /\ UNCHANGED <<pc, new, ref, leaving, ptrs, cand, result, inside>>
    BY <1>15 DEF BeginWalk, ReadHazard, vars
  <2> QED
    BY <2>1, <2>2
<1>15b. CASE EndScan(t)
  <2>1. /\ stage[t] = "scan" /\ phase = "open"
        /\ IF leaving[t] THEN stage'[t] = "gone" ELSE stage'[t] = "run"
    BY <1>15b DEF EndScan
  <2>2. UNCHANGED <<pc, new, ref, leaving, ptrs, cand, result, inside>>
    BY <1>15b DEF EndScan, vars
  <2> QED
    BY <2>1, <2>2 DEF TypeOK, Local
<1>16. CASE Reclaim(t)
  BY <1>16 DEF Reclaim, Grace!Free, table, steps, TypeOK, Local
<1>17. CASE Exit(t)
  BY <1>17 DEF Exit, vars, TypeOK, Local
<1>18. CASE Close(t)
  BY <1>18 DEF Close, table, steps, Which, TypeOK, Local
<1> QED
  BY <1>1, <1>2, <1>3, <1>4, <1>5, <1>6, <1>7, <1>8, <1>8b, <1>9, <1>10, <1>11, <1>12, <1>13,
     <1>14, <1>15, <1>15b, <1>16, <1>17, <1>18 DEF ActOf

\* Who does nothing stays where it was.
LEMMA StagedStep ==
  ASSUME STypeOK, IInv, AllStaged, [SettledStep]_svars PROVE AllStaged'
<1>1. ASSUME NEW t \in Threads, ActOf(t), NEW u \in Threads PROVE Staged(u)'
  <2>1. CASE u = t
    BY <1>1, <2>1, OwnStage
  <2>2. CASE u # t
    <3>1. /\ Mine(u)' = Mine(u) /\ Hands(u)' = Hands(u) /\ ((u \in inside)' <=> u \in inside)
          /\ smr' = smr /\ phase' = phase
      BY <1>1, <2>2, Alone
    <3> QED
      BY <3>1 DEF AllStaged, Staged, Mine, Hands, Which
  <2> QED
    BY <2>1, <2>2
<1>2. ASSUME TeardownStore \/ TeardownDomain, NEW u \in Threads PROVE Staged(u)'
  BY <1>2 DEF TeardownStore, TeardownDomain, Grace!Free, AllStaged, Staged, Which, table, steps,
     args, hazards, scan
<1>3. ASSUME UNCHANGED svars, NEW u \in Threads PROVE Staged(u)'
  BY <1>3 DEF svars, vars, AllStaged, Staged, Which, args, counts, hazards, sections, scan,
     reclamation
<1> QED
  BY <1>1, <1>2, <1>3, Steps DEF AllStaged

(***************************************************************************)
(* Who owns what                                                           *)
(***************************************************************************)

\* What the store holds are the values of its keys.
LEMMA Contents == Content = {Value(k) : k \in Keys} \ {NULL}
BY DEF Content, Value

\* A put replaces a handle that the store holds.
LEMMA Replaced ==
  ASSUME IInv, NEW t \in Threads, PutReplace(t)
  PROVE  /\ old[t] \in Handles /\ old[t] = handle[root][key[t]] /\ key[t] \in Keys
         /\ new[t] \in Handles /\ pc[t] = "swap"
         /\ handle' = [handle EXCEPT ![root][key[t]] = new[t]] /\ root' = root
         /\ pc' = [pc EXCEPT ![t] = "idle"] /\ new' = [new EXCEPT ![t] = NULL]
         /\ fresh' = fresh /\ result' = result
<1>1. /\ tbl[t] = root /\ key[t] \in Keys /\ key[t] \in Nodes(root) /\ new[t] \in Handles
      /\ handle' = [handle EXCEPT ![root][key[t]] = new[t]]
  BY PutReplaceFacts
<1>2. /\ handle[tbl[t]][key[t]] = old[t] /\ pc[t] = "swap" /\ root' = root
      /\ pc' = [pc EXCEPT ![t] = "idle"] /\ new' = [new EXCEPT ![t] = NULL]
      /\ fresh' = fresh /\ result' = result
  BY DEF PutReplace, Return, Goto
<1>3. old[t] \in Handles
  BY <1>1, <1>2 DEF Nodes, IInv, TypeOK
<1> QED
  BY <1>1, <1>2, <1>3

(***************************************************************************)
(* The references to a handle                                              *)
(***************************************************************************)

Holders(h) == {t \in Threads : ref[t] = h}

\* There are finitely many, threads being so.
LEMMA FewHolders ==
  ASSUME NEW h
  PROVE  /\ IsFiniteSet(Holders(h)) /\ Cardinality(Holders(h)) \in Nat
         /\ \A t \in Threads : ref[t] = h => Cardinality(Holders(h)) > 0
<1>1. IsFiniteSet(Holders(h))
  BY FiniteThreads, FS_Subset DEF Holders
<1>2. Cardinality(Holders(h)) \in Nat
  BY <1>1, FS_CardinalityType
<1>3. ASSUME NEW t \in Threads, ref[t] = h PROVE Cardinality(Holders(h)) # 0
  BY <1>1, <1>3, FS_EmptySet DEF Holders
<1> QED
  BY <1>1, <1>2, <1>3

\* A reference is given a handle.
LEMMA OneMore ==
  ASSUME NEW t \in Threads, ref \in [Threads -> Handles \union {NULL, Unborn}],
         ref[t] \notin Handles, NEW h \in Handles, ref' = [ref EXCEPT ![t] = h],
         NEW g \in Handles
  PROVE  Cardinality(Holders(g))' = Cardinality(Holders(g)) + (IF g = h THEN 1 ELSE 0)
<1>1. CASE g = h
  <2>1. Holders(g)' = Holders(g) \union {t} /\ t \notin Holders(g)
    BY <1>1 DEF Holders
  <2> QED
    BY <1>1, <2>1, FewHolders, FS_AddElement
<1>2. CASE g # h
  <2>1. Holders(g)' = Holders(g)
    BY <1>2 DEF Holders
  <2> QED
    BY <1>2, <2>1, FewHolders
<1> QED
  BY <1>1, <1>2

\* A reference gives up what it held, or takes nothing where it held nothing.
LEMMA OneLess ==
  ASSUME NEW t \in Threads, ref \in [Threads -> Handles \union {NULL, Unborn}],
         NEW x \in {NULL, Unborn}, ref' = [ref EXCEPT ![t] = x], NEW g \in Handles
  PROVE  Cardinality(Holders(g))' = Cardinality(Holders(g)) - (IF g = ref[t] THEN 1 ELSE 0)
<1>1. x # g
  BY RefAssumption, DistinguishedValues
<1>2. CASE g = ref[t]
  <2>1. Holders(g)' = Holders(g) \ {t} /\ t \in Holders(g)
    BY <1>1, <1>2 DEF Holders
  <2> QED
    BY <1>2, <2>1, FewHolders, FS_RemoveElement
<1>3. CASE g # ref[t]
  <2>1. Holders(g)' = Holders(g)
    BY <1>1, <1>3 DEF Holders
  <2> QED
    BY <1>3, <2>1, FewHolders
<1> QED
  BY <1>2, <1>3

\* What is owned or referred to is counted.
LEMMA Counted ==
  ASSUME RefcountExact, NEW h \in Handles
  PROVE  /\ refcount[h] = Cardinality(Holders(h)) + (IF Owned(h) THEN 1 ELSE 0)
         /\ refcount[h] \in Nat
         /\ Owned(h) \/ (\E t \in Threads : ref[t] = h) => refcount[h] > 0
<1>1. refcount[h] = Cardinality(Holders(h)) + (IF Owned(h) THEN 1 ELSE 0)
  BY DEF RefcountExact, Holders
<1> QED
  BY <1>1, FewHolders

(***************************************************************************)
(* The shape of the state                                                  *)
(***************************************************************************)

\* Dropping keeps counts from sinking below zero, if there is one to drop.
LEMMA DropTypes ==
  ASSUME STypeOK, NEW E, \A h \in Handles : h \in E => refcount[h] > 0, FreeAll(E)
  PROVE  refcount' \in [Handles -> Nat] /\ freed' \in [Tables -> Nat]
BY DEF STypeOK, FreeAll, DropAll, CountFreed

\* A handle or a table is retired; a scan may follow.
LEMMA RetireTypes ==
  ASSUME STypeOK, NEW t \in Threads, NEW e \in Handles \union Tables, Retire(t, e)
  PROVE  /\ retired' \in [Threads -> SUBSET (Handles \union Tables)]
         /\ stage' \in [Threads -> Stages]
         /\ inside' = inside /\ Grace!Retired' \subseteq Handles \union Tables
         /\ smr = "hp" => Grace!Retired' = Grace!Retired
<1> USE DEF STypeOK, Retire, Proceed, To, Stages, sections, Grace!Retire, Grace!Retired
<1>1. retired' \in [Threads -> SUBSET (Handles \union Tables)]
  OBVIOUS
<1>2. stage' \in [Threads -> Stages]
  OBVIOUS
<1>3. CASE smr = "hp"
  BY <1>1, <1>2, <1>3
<1>4. CASE smr = "ebr"
  <2>1. waits' = [d \in DOMAIN waits \union {e} |-> IF d = e THEN inside ELSE waits[d]]
    BY <1>4
  <2>2. DOMAIN waits' = DOMAIN waits \union {e}
    BY <2>1
  <2> QED
    BY <1>1, <1>2, <1>4, <2>2
<1> QED
  BY <1>3, <1>4

\* The hazards that a scan has before it, and those that it has seen.
LEMMA ScanTypes ==
  ASSUME STypeOK, NEW t \in Threads, BeginWalk(t) \/ ReadHazard(t)
  PROVE  /\ visit' \in [Threads -> SUBSET (Threads \X {0, 1})]
         /\ active' \in [Threads -> SUBSET (Handles \union Tables)]
<1> DEFINE Stands(u, i) == {ptrs[u][i]} \ {NULL}
<1>1. \A u \in Threads, i \in {0, 1} : Stands(u, i) \subseteq Handles \union Tables
  BY DEF STypeOK
<1>2. CASE BeginWalk(t)
  <2>1. /\ visit' = [visit EXCEPT ![t] = (Threads \ {t}) \X {0, 1}]
        /\ active' = [active EXCEPT ![t] = Stands(t, 0) \union Stands(t, 1)]
    BY <1>2 DEF BeginWalk
  <2>2. (Threads \ {t}) \X {0, 1} \subseteq Threads \X {0, 1}
    OBVIOUS
  <2> HIDE DEF Stands
  <2> QED
    BY <1>1, <2>1, <2>2 DEF STypeOK
<1>3. CASE ReadHazard(t)
  <2>1. PICK v \in visit[t] :
          /\ visit' = [visit EXCEPT ![t] = @ \ {v}]
          /\ active' = [active EXCEPT ![t] = @ \union Stands(v[1], v[2])]
    BY <1>3 DEF ReadHazard
  <2>2. v \in Threads \X {0, 1}
    BY DEF STypeOK
  <2>3. Stands(v[1], v[2]) \subseteq Handles \union Tables
    BY <1>1, <2>2
  <2> HIDE DEF Stands
  <2> QED
    BY <2>1, <2>3 DEF STypeOK
<1> QED
  BY <1>2, <1>3

\* No variable leaves its set.
LEMMA StoreTypes ==
  ASSUME STypeOK, IInv, AllStaged, RefcountExact, [SettledStep]_svars PROVE STypeOK'
<1>a. TypeOK /\ TypeOK'
  BY StoreSteps, TypeStep DEF STypeOK
<1>b. \A h \in Handles : Owned(h) \/ (\E t \in Threads : ref[t] = h) => refcount[h] > 0
  BY Counted
<1>c. ASSUME NEW t \in Threads, pc[t] = "load"
      PROVE  /\ tbl[t] \in Tables /\ key[t] \in Keys
             /\ handle[tbl[t]][key[t]] \in Handles \union {NULL}
             /\ sealed[tbl[t]][key[t]] \in BOOLEAN
  <2>1. tbl[t] \in Tables /\ key[t] \in Keys
    BY <1>c, InTable DEF IInv
  <2>2. /\ handle \in [Tables -> [Keys -> Handles \union {NULL}]]
        /\ sealed \in [Tables -> [Keys -> BOOLEAN]]
    BY <1>a DEF TypeOK
  <2> QED
    BY <2>1, <2>2
<1> USE <1>a, RefAssumption, EntryAssumption, DistinguishedValues
    DEF STypeOK, Stages, Running, To, counts, hazards, reclamation, sections, scan,
        Grace!Retired
<1>1. ASSUME NEW t \in Threads, ActOf(t) PROVE STypeOK'
  <2>1. CASE SGetCall(t)
    BY <2>1 DEF SGetCall, Enter, Grace!Enter
  <2>2. CASE SPutCall(t)
    <3>1. PICK h \in fresh : refcount' = [refcount EXCEPT ![h] = 1]
      BY <2>2 DEF SPutCall
    <3>2. refcount' \in [Handles -> Nat]
      BY <3>1
    <3> QED
      BY <2>2, <3>2 DEF SPutCall, Enter, Grace!Enter
  <2>3. CASE Plain(t)
    BY <2>3 DEF Plain, Proceed
  <2>4. CASE SGetBucket(t)
    BY <2>4 DEF SGetBucket, Proceed
  <2>5. CASE TakeTable(t)
    BY <2>5 DEF TakeTable
  <2>6. CASE ProtectLoad(t)
    <3>1. Shared(t) \in [ptr : Handles \union Tables \union {NULL}, frozen : BOOLEAN]
      BY <2>6, <1>c DEF ProtectLoad, Shared, TypeOK
    <3> QED
      BY <2>6, <3>1 DEF ProtectLoad
  <2>7. CASE ProtectPublish(t)
    <3>1. /\ smr = "hp" /\ pc[t] \in {"table", "load"}
          /\ cand[t].ptr \in IF pc[t] = "table" THEN Tables ELSE Handles \union {NULL}
      BY <2>7 DEF ProtectPublish, AllStaged, Staged
    <3>2. ptrs' = [ptrs EXCEPT ![t][IF pc[t] = "table" THEN 1 ELSE 0] = cand[t].ptr]
      BY <2>7 DEF ProtectPublish, Which
    <3>3. /\ ptrs' \in [Threads -> [{0, 1} -> Handles \union Tables \union {NULL}]]
          /\ \A u \in Threads : ptrs'[u][0] \notin Tables /\ ptrs'[u][1] \notin Handles
      BY <3>1, <3>2
    <3> QED
      BY <2>7, <3>1, <3>3 DEF ProtectPublish
  <2>8. CASE ProtectRetry(t)
    BY <2>8 DEF ProtectRetry, NoEntry
  <2>9. CASE ProtectValidate(t)
    BY <2>9 DEF ProtectValidate, NoEntry
  <2>10. CASE ReadInside(t)
    BY <2>10 DEF ReadInside
  <2>11. CASE Incref(t)
    <3>1. result[t] \in Handles
      BY <2>11 DEF Incref, AllStaged, Staged
    <3> QED
      BY <2>11, <3>1 DEF Incref
  <2>12. CASE Unprotect(t)
    <3>1. smr = "hp" /\ ptrs' = [ptrs EXCEPT ![t][0] = NULL]
      BY <2>12 DEF Unprotect, AllStaged, Staged
    <3>2. /\ ptrs' \in [Threads -> [{0, 1} -> Handles \union Tables \union {NULL}]]
          /\ \A u \in Threads : ptrs'[u][0] \notin Tables /\ ptrs'[u][1] \notin Handles
      BY <3>1
    <3> QED
      BY <2>12, <3>1, <3>2 DEF Unprotect
  <2>13. CASE SPutReplace(t)
    <3>1. old[t] \in Handles
      BY <2>13, Replaced DEF SPutReplace
    <3> QED
      BY <2>13, <3>1, RetireTypes DEF SPutReplace
  <2>14. CASE STryComplete(t)
    <3>1. CASE root' = root
      BY <2>14, <3>1 DEF STryComplete
    <3>2. CASE root' # root
      <4>1. tbl[t] \in Tables
        BY <2>14, <3>2 DEF STryComplete, TryComplete, SwitchRoot, TypeOK
      <4> QED
        BY <2>14, <3>2, <4>1, RetireTypes DEF STryComplete
    <3> QED
      BY <3>1, <3>2
  <2>15. CASE Leave(t)
    <3>1. smr = "ebr"
      BY <2>15 DEF Leave, AllStaged, Staged
    <3> QED
      BY <2>15, <3>1 DEF Leave, Grace!Leave
  <2>16. CASE BeginWalk(t) \/ ReadHazard(t)
    BY <2>16, ScanTypes DEF BeginWalk, ReadHazard
  <2>17. CASE EndScan(t)
    BY <2>17 DEF EndScan
  <2>18. CASE Reclaim(t)
    <3>1. PICK e \in retired[t] : /\ FreeAll({e})
                                  /\ retired' = [retired EXCEPT ![t] = @ \ {e}]
                                  /\ IF smr = "ebr" THEN Grace!Free({e}) ELSE UNCHANGED sections
      BY <2>18 DEF Reclaim, Freeable
    <3>2. refcount' \in [Handles -> Nat] /\ freed' \in [Tables -> Nat]
      BY <1>b, <3>1, DropTypes DEF Owned
    <3> QED
      BY <2>18, <3>1, <3>2 DEF Reclaim, Grace!Free, table
  <2>19. CASE Exit(t)
    BY <2>19 DEF Exit
  <2>20. CASE Close(t)
    <3>1. refcount' \in [Handles -> Nat] /\ freed' \in [Tables -> Nat]
      BY <1>b, <2>20, DropTypes DEF Close
    <3> QED
      BY <2>20, <3>1 DEF Close
  <2> QED
    BY <1>1, <2>1, <2>2, <2>3, <2>4, <2>5, <2>6, <2>7, <2>8, <2>9, <2>10, <2>11, <2>12, <2>13,
       <2>14, <2>15, <2>16, <2>17, <2>18, <2>19, <2>20 DEF ActOf
<1>2. CASE TeardownStore
  <2>1. refcount' \in [Handles -> Nat] /\ freed' \in [Tables -> Nat]
    <3>1. phase = "open" /\ FreeAll(Content \union LastTables)
      BY <1>2 DEF TeardownStore
    <3>2. LastTables \subseteq Tables
      BY DEF LastTables, TypeOK
    <3>3. \A h \in Handles : h \in Content \union LastTables => refcount[h] > 0
      BY <1>b, <3>1, <3>2 DEF Owned
    <3> QED
      BY <3>1, <3>3, DropTypes
  <2> QED
    BY <1>2, <2>1 DEF TeardownStore
<1>3. CASE TeardownDomain
  <2>1. refcount' \in [Handles -> Nat] /\ freed' \in [Tables -> Nat]
    BY <1>b, <1>3, DropTypes DEF TeardownDomain, Owned
  <2> QED
    BY <1>3, <2>1 DEF TeardownDomain, Grace!Free
<1>4. CASE UNCHANGED svars
  BY <1>4 DEF svars
<1> QED
  BY <1>1, <1>2, <1>3, <1>4, Steps

(***************************************************************************)
(* Owners                                                                  *)
(***************************************************************************)

\* The owners that a handle can have: a key, a put, a retired list.
KeyOf(k, h) == phase = "open" /\ Value(k) = h
PutOf(u, h) == Unpublished(u) /\ new[u] = h
ListOf(u, h) == h \in retired[u]

\* Ownership in these terms.
OwnsBy(h) ==
    /\ InStore(h) <=> \E k \in Keys : KeyOf(k, h)
    /\ InPut(h) <=> \E u \in Threads : PutOf(u, h)
    /\ Listed(h) <=> \E u \in Threads : ListOf(u, h)
    /\ Owned(h) <=> InStore(h) \/ InPut(h) \/ Listed(h)
    /\ SoleOwner(h) <=>
         /\ \A k, l \in Keys : KeyOf(k, h) /\ KeyOf(l, h) => k = l
         /\ \A u, v \in Threads : PutOf(u, h) /\ PutOf(v, h) => u = v
         /\ \A u, v \in Threads : ListOf(u, h) /\ ListOf(v, h) => u = v
         /\ ~(InStore(h) /\ InPut(h)) /\ ~(InStore(h) /\ Listed(h))
         /\ ~(InPut(h) /\ Listed(h))

\* It is the same.
LEMMA Ownership == ASSUME NEW h \in Handles PROVE OwnsBy(h)
<1>1. InStore(h) <=> \E k \in Keys : KeyOf(k, h)
  BY DistinguishedValues, Contents DEF InStore, KeyOf
<1>2. InPut(h) <=> \E u \in Threads : PutOf(u, h)
  BY DEF InPut, PutOf
<1>3. Listed(h) <=> \E u \in Threads : ListOf(u, h)
  BY DEF Listed, ListOf
<1>4. Owned(h) <=> InStore(h) \/ InPut(h) \/ Listed(h)
  BY DEF Owned, InStore, InPut, Listed
<1>5. SoleOwner(h) <=>
        /\ \A k, l \in Keys : KeyOf(k, h) /\ KeyOf(l, h) => k = l
        /\ \A u, v \in Threads : PutOf(u, h) /\ PutOf(v, h) => u = v
        /\ \A u, v \in Threads : ListOf(u, h) /\ ListOf(v, h) => u = v
        /\ ~(InStore(h) /\ InPut(h)) /\ ~(InStore(h) /\ Listed(h)) /\ ~(InPut(h) /\ Listed(h))
  <2>1. (phase = "open" => \A k, l \in Keys : handle[root][k] = h /\ handle[root][l] = h => k = l)
          <=> \A k, l \in Keys : KeyOf(k, h) /\ KeyOf(l, h) => k = l
    BY DEF KeyOf, Value
  <2>2. (\A t, u \in Threads :
           /\ Unpublished(t) /\ Unpublished(u) /\ new[t] = h /\ new[u] = h => t = u
           /\ h \in retired[t] /\ h \in retired[u] => t = u)
          <=> /\ \A u, v \in Threads : PutOf(u, h) /\ PutOf(v, h) => u = v
              /\ \A u, v \in Threads : ListOf(u, h) /\ ListOf(v, h) => u = v
    BY DEF PutOf, ListOf
  <2> QED
    BY <2>1, <2>2 DEF SoleOwner
<1> QED
  BY <1>1, <1>2, <1>3, <1>4, <1>5 DEF OwnsBy

\* And after a step.
LEMMA OwnershipNext == ASSUME NEW h \in Handles PROVE OwnsBy(h)'
<1>1. OwnsBy(h)
  BY Ownership
<1> QED
  BY <1>1, PTL

\* No handle changes its owner.
OwnersStay ==
    \A h \in Handles :
        /\ \A k \in Keys : KeyOf(k, h)' <=> KeyOf(k, h)
        /\ \A u \in Threads : PutOf(u, h)' <=> PutOf(u, h)
        /\ \A u \in Threads : ListOf(u, h)' <=> ListOf(u, h)

\* Then it is owned, or not, as before.
LEMMA OwnedStay ==
  ASSUME OwnersStay, NEW h \in Handles
  PROVE  /\ Owned(h)' <=> Owned(h)
         /\ SoleOwner(h)' <=> SoleOwner(h)
         /\ InStore(h)' <=> InStore(h)
         /\ InPut(h)' <=> InPut(h)
         /\ Listed(h)' <=> Listed(h)
<1>1. /\ \A k \in Keys : KeyOf(k, h)' <=> KeyOf(k, h)
      /\ \A u \in Threads : PutOf(u, h)' <=> PutOf(u, h)
      /\ \A u \in Threads : ListOf(u, h)' <=> ListOf(u, h)
  BY DEF OwnersStay
<1> QED
  BY <1>1, Ownership, OwnershipNext DEF OwnsBy

\* The store holds what it held until a put takes effect.
LEMMA ValuesStay ==
  ASSUME STypeOK, IInv, NEW t \in Threads, ActOf(t), ~(Plain(t) /\ PutInsert(t)), ~SPutReplace(t),
         NEW k \in Keys
  PROVE  Value(k)' = Value(k)
<1>1. CASE Aside(t)
  BY <1>1, AsideFrame DEF steps, nodes, Value
<1>2. CASE StepOf(t) /\ ~PutReplace(t) /\ ~PutInsert(t)
  BY <1>2, ValuesKept
<1>3. CASE Plain(t)
  BY <1>2, <1>3, PlainFacts, TableActs
<1>4. CASE SGetCall(t) \/ SPutCall(t) \/ SGetBucket(t) \/ TakeTable(t) \/ ProtectValidate(t)
           \/ ReadInside(t) \/ STryComplete(t)
  <2>1. pc[t] \in {"idle", "bucket", "table", "load", "complete"} /\ StepOf(t)
    BY <1>4, TableActs DEF GetCall, PutBegins, PutWith, GetBucket, LoadTable, ReadHandle,
       TryComplete, SwitchRoot
  <2> QED
    BY <1>2, <2>1 DEF PutReplace, PutInsert
<1> QED
  BY <1>1, <1>3, <1>4 DEF ActOf, Aside

\* In every step but those of a put that begins or takes effect, and of a scan
\* that frees something.
Quiet(t) ==
    ActOf(t) /\ ~SPutCall(t) /\ ~(Plain(t) /\ PutInsert(t)) /\ ~SPutReplace(t) /\ ~Reclaim(t)

\* A handle is handed over by nobody else.
LEMMA QuietOwners ==
  ASSUME STypeOK, IInv, AllStaged, NEW t \in Threads, Quiet(t)
  PROVE  OwnersStay
<1>a. TypeOK /\ Local(t) /\ phase' = phase
  BY Alone DEF STypeOK, IInv, Locals, Quiet
<1>b. \A u \in Threads : u # t => /\ new'[u] = new[u] /\ pc'[u] = pc[u]
                                  /\ retired'[u] = retired[u]
  BY Alone DEF Quiet, Hands, Mine
<1>c. ASSUME NEW u \in Threads, pc'[u] = pc[u], new'[u] = new[u], NEW h
      PROVE  PutOf(u, h)' <=> PutOf(u, h)
  BY <1>c DEF PutOf, Unpublished
<1>d. ASSUME NEW u \in Threads, new'[u] = NULL, new[u] = NULL, NEW h
      PROVE  PutOf(u, h)' <=> PutOf(u, h)
  BY <1>d DEF PutOf, Unpublished
<1>1. \A k \in Keys : Value(k)' = Value(k)
  BY ValuesStay DEF Quiet
<1>2. ASSUME NEW h PROVE PutOf(t, h)' <=> PutOf(t, h)
  <2>1. CASE Aside(t)
    BY <2>1, <1>c, AsideFrame DEF steps, args
  <2>2. CASE Plain(t)
    BY <2>2, PlainFacts DEF PutOf, Unpublished, Quiet
  <2>3. CASE TakeTable(t) \/ STryComplete(t) \/ (ProtectValidate(t) /\ LoadTable(t))
    <3>1. /\ new'[t] = new[t]
          /\ pc[t] \in {"table", "complete"} /\ pc'[t] \in {"table", "next"}
      BY <1>a, <2>3, TableActs DEF LoadTable, TryComplete, SwitchRoot, Goto, TypeOK, args
    <3> QED
      BY <3>1 DEF PutOf, Unpublished
  <2>4. CASE SGetCall(t) \/ SGetBucket(t)
    <3>1. new'[t] = NULL /\ new[t] = NULL
      BY <1>a, <2>4, TableActs DEF GetCall, GetBucket, Return, TypeOK, Local
    <3> QED
      BY <3>1, <1>d
  <2>5. CASE ReadInside(t) \/ (ProtectValidate(t) /\ ReadHandle(t, FALSE))
    <3>1. new'[t] = NULL /\ new[t] = NULL
      BY <1>a, <2>5, TableActs DEF ReadHandle, Return, TypeOK, Local
    <3> QED
      BY <3>1, <1>d
  <2> QED
    BY <2>1, <2>2, <2>3, <2>4, <2>5, TableActs DEF Quiet, ActOf, Aside
<1>3. ASSUME NEW h \in Handles PROVE h \in retired'[t] <=> h \in retired[t]
  <2>1. CASE STryComplete(t)
    <3>1. CASE root' = root
      BY <2>1, <3>1 DEF STryComplete
    <3>2. CASE root' # root
      <4>1. tbl[t] \in Tables
        BY <1>a, <2>1, <3>2 DEF STryComplete, TryComplete, SwitchRoot, TypeOK
      <4>2. retired' = [retired EXCEPT ![t] = @ \union {tbl[t]}]
        BY <2>1, <3>2 DEF STryComplete, Retire
      <4> QED
        BY <4>1, <4>2, EntryAssumption DEF STypeOK
    <3> QED
      BY <3>1, <3>2
  <2>2. CASE ~STryComplete(t)
    <3>1. retired' = retired
      BY <2>2 DEF Quiet, ActOf, SGetCall, Plain, SGetBucket, TakeTable, ProtectLoad,
         ProtectPublish, ProtectRetry, ProtectValidate, ReadInside, Incref, Unprotect, Leave,
         BeginWalk, ReadHazard, EndScan, Exit, Close, reclamation
    <3> QED
      BY <3>1
  <2> QED
    BY <2>1, <2>2
<1>4. ASSUME NEW h \in Handles, NEW k \in Keys PROVE KeyOf(k, h)' <=> KeyOf(k, h)
  BY <1>a, <1>1 DEF KeyOf
<1>5. ASSUME NEW h \in Handles, NEW u \in Threads PROVE PutOf(u, h)' <=> PutOf(u, h)
  BY <1>b, <1>c, <1>2
<1>6. ASSUME NEW h \in Handles, NEW u \in Threads PROVE ListOf(u, h)' <=> ListOf(u, h)
  BY <1>b, <1>3 DEF ListOf
<1> QED
  BY <1>4, <1>5, <1>6 DEF OwnersStay

\* A put that begins owns a handle that nobody owned or referred to.
LEMMA BeginOwners ==
  ASSUME STypeOK, IInv, AllStaged, RefcountExact, FreshUncounted,
         NEW t \in Threads, SPutCall(t)
  PROVE  \E h \in Handles :
           /\ ~Owned(h) /\ refcount[h] = 0 /\ Owned(h)'
           /\ refcount' = [refcount EXCEPT ![h] = 1] /\ fresh' = fresh \ {h} /\ ref' = ref
           /\ OwnedOnce => SoleOwner(h)'
           /\ \A g \in Handles \ {h} : /\ Owned(g)' <=> Owned(g)
                                       /\ SoleOwner(g)' <=> SoleOwner(g)
<1>a. TypeOK /\ Local(t) /\ phase' = phase
  BY Alone DEF STypeOK, IInv, Locals, ActOf
<1>1. PICK h \in fresh : PutWith(t, h) /\ refcount' = [refcount EXCEPT ![h] = 1]
  BY DEF SPutCall
<1>2. h \in Handles /\ refcount[h] = 0
  BY <1>a, <1>1 DEF TypeOK, FreshUncounted
<1>3. ~Owned(h)
  BY <1>2, Counted
<1>4. /\ \A g \in Handles, k \in Keys : KeyOf(k, g)' <=> KeyOf(k, g)
      /\ \A g \in Handles, u \in Threads : ListOf(u, g)' <=> ListOf(u, g)
      /\ \A g \in Handles, u \in Threads \ {t} : PutOf(u, g)' <=> PutOf(u, g)
      /\ \A g \in Handles : ~PutOf(t, g) /\ (PutOf(t, g)' <=> g = h)
  <2>1. /\ new' = [new EXCEPT ![t] = h] /\ pc' = [pc EXCEPT ![t] = "table"] /\ new[t] = NULL
        /\ root' = root /\ handle' = handle /\ retired' = retired
    BY <1>a, <1>1 DEF SPutCall, PutWith, nodes, reclamation, Local, Goto
  <2>2. h # NULL
    BY <1>2, DistinguishedValues
  <2>3. \A k \in Keys : Value(k)' = Value(k)
    BY <2>1 DEF Value
  <2>4. /\ \A g \in Handles, k \in Keys : KeyOf(k, g)' <=> KeyOf(k, g)
        /\ \A g \in Handles, u \in Threads : ListOf(u, g)' <=> ListOf(u, g)
    BY <1>a, <2>1, <2>3 DEF KeyOf, ListOf
  <2>5. ASSUME NEW g \in Handles, NEW u \in Threads, u # t PROVE PutOf(u, g)' <=> PutOf(u, g)
    <3>1. new'[u] = new[u] /\ pc'[u] = pc[u]
      BY <1>a, <2>1, <2>5 DEF TypeOK
    <3> QED
      BY <3>1 DEF PutOf, Unpublished
  <2>6. new'[t] = h /\ pc'[t] = "table"
    BY <1>a, <2>1 DEF TypeOK
  <2>7. \A g \in Handles : ~PutOf(t, g) /\ (PutOf(t, g)' <=> g = h)
    BY <2>1, <2>2, <2>6 DEF PutOf, Unpublished
  <2> QED
    BY <2>4, <2>5, <2>7
<1>5. Owned(h)' /\ (OwnedOnce => SoleOwner(h)')
  BY <1>2, <1>3, <1>4, Ownership, OwnershipNext DEF OwnsBy
<1>6. ASSUME NEW g \in Handles, g # h
      PROVE  (Owned(g)' <=> Owned(g)) /\ (SoleOwner(g)' <=> SoleOwner(g))
  <2>1. \A u \in Threads : PutOf(u, g)' <=> PutOf(u, g)
    BY <1>4, <1>6
  <2> QED
    BY <1>4, <2>1, Ownership, OwnershipNext DEF OwnsBy
<1>7. fresh' = fresh \ {h} /\ ref' = ref
  BY <1>1 DEF SPutCall, PutWith
<1> QED
  BY <1>1, <1>2, <1>3, <1>5, <1>6, <1>7

\* A put that takes effect hands its handle over to a key that had none.
LEMMA InsertOwners ==
  ASSUME STypeOK, IInv, AllStaged, OwnedOnce, NEW t \in Threads, Plain(t), PutInsert(t)
  PROVE  \A h \in Handles : (Owned(h)' <=> Owned(h)) /\ SoleOwner(h)'
<1>a. TypeOK /\ Local(t) /\ Staged(t) /\ phase' = phase
  BY Alone DEF STypeOK, IInv, Locals, ActOf, AllStaged
<1>1. phase = "open"
  BY <1>a, PlainFacts DEF Staged
<1>2. PICK x \in Keys : /\ x = key[t] /\ x \notin Nodes(root)
                        /\ \A k \in Keys : Value(k)' = IF k = x THEN new[t] ELSE Value(k)
  <2>1. key[t] \in Keys /\ key[t] \notin Nodes(root)
    BY PutInsertFacts
  <2>2. \A k \in Keys : Value(k)' = IF k = key[t] THEN new[t] ELSE Value(k)
    BY PutChanges
  <2> QED
    BY <2>1, <2>2
<1>3. Value(x) = NULL /\ new[t] \in Handles
  BY <1>2, PutInsertFacts DEF Nodes, Value
<1>4. \A u \in Threads \ {t} : new'[u] = new[u] /\ pc'[u] = pc[u]
  BY Alone DEF ActOf, Hands
<1>5. pc[t] = "insert" /\ pc'[t] = "count" /\ retired' = retired
  BY PlainFacts DEF Plain, reclamation
<1> SUFFICES ASSUME NEW h \in Handles PROVE (Owned(h)' <=> Owned(h)) /\ SoleOwner(h)'
  OBVIOUS
<1>6. \A k \in Keys : KeyOf(k, h)' <=> IF k = x THEN h = new[t] ELSE KeyOf(k, h)
  BY <1>a, <1>1, <1>2 DEF KeyOf
<1>7. ~KeyOf(x, h)
  BY <1>3, DistinguishedValues DEF KeyOf
<1>8. \A u \in Threads : PutOf(u, h)' <=> u # t /\ PutOf(u, h)
  BY <1>4, <1>5 DEF PutOf, Unpublished
<1>9. PutOf(t, h) <=> h = new[t]
  BY <1>3, <1>5, DistinguishedValues DEF PutOf, Unpublished
<1>10. \A u \in Threads : ListOf(u, h)' <=> ListOf(u, h)
  BY <1>5 DEF ListOf
<1>11. SoleOwner(h)
  BY DEF OwnedOnce
<1> QED
  BY <1>2, <1>6, <1>7, <1>8, <1>9, <1>10, <1>11, Ownership, OwnershipNext DEF OwnsBy

\* And one that replaces a handle puts that on the thread's list.
LEMMA ReplaceOwners ==
  ASSUME STypeOK, IInv, AllStaged, OwnedOnce, NEW t \in Threads, SPutReplace(t)
  PROVE  /\ \A h \in Handles : (Owned(h)' <=> Owned(h)) /\ SoleOwner(h)'
         /\ old[t] \in Handles /\ InStore(old[t]) /\ ~Listed(old[t])
         /\ retired' = [retired EXCEPT ![t] = @ \union {old[t]}]
<1>a. TypeOK /\ Local(t) /\ Staged(t) /\ phase' = phase
  BY Alone DEF STypeOK, IInv, Locals, ActOf, AllStaged
<1>b. PutReplace(t) /\ phase = "open"
  BY <1>a DEF SPutReplace, Running, Staged
<1>2. PICK x \in Keys : /\ x = key[t] /\ old[t] = Value(x)
                        /\ \A k \in Keys : Value(k)' = IF k = x THEN new[t] ELSE Value(k)
  BY <1>b, Replaced, PutChanges DEF Value
<1>3. /\ old[t] \in Handles /\ new[t] \in Handles /\ pc[t] = "swap"
      /\ new'[t] = NULL
  BY <1>a, <1>b, Replaced DEF TypeOK
<1>4. \A u \in Threads \ {t} : new'[u] = new[u] /\ pc'[u] = pc[u]
  BY Alone DEF ActOf, Hands
<1>5. retired' = [retired EXCEPT ![t] = @ \union {old[t]}]
  BY DEF SPutReplace, Retire
<1>6. ASSUME NEW h \in Handles
      PROVE  /\ \A k \in Keys : KeyOf(k, h)' <=> IF k = x THEN h = new[t] ELSE KeyOf(k, h)
             /\ KeyOf(x, h) <=> h = old[t]
             /\ \A u \in Threads : PutOf(u, h)' <=> u # t /\ PutOf(u, h)
             /\ PutOf(t, h) <=> h = new[t]
             /\ \A u \in Threads : ListOf(u, h)' <=> ListOf(u, h) \/ (u = t /\ h = old[t])
  <2>1. \A k \in Keys : KeyOf(k, h)' <=> IF k = x THEN h = new[t] ELSE KeyOf(k, h)
    BY <1>a, <1>b, <1>2 DEF KeyOf
  <2>2. KeyOf(x, h) <=> h = old[t]
    BY <1>b, <1>2 DEF KeyOf
  <2>3. \A u \in Threads : PutOf(u, h)' <=> u # t /\ PutOf(u, h)
    BY <1>3, <1>4 DEF PutOf, Unpublished
  <2>4. PutOf(t, h) <=> h = new[t]
    BY <1>3, DistinguishedValues DEF PutOf, Unpublished
  <2>5. \A u \in Threads : ListOf(u, h)' <=> ListOf(u, h) \/ (u = t /\ h = old[t])
    BY <1>5 DEF ListOf, STypeOK
  <2> QED
    BY <2>1, <2>2, <2>3, <2>4, <2>5
<1>7. InStore(old[t]) /\ ~Listed(old[t])
  <2>1. SoleOwner(old[t]) /\ KeyOf(x, old[t])
    BY <1>3, <1>6 DEF OwnedOnce
  <2> QED
    BY <1>3, <2>1, Ownership DEF OwnsBy
<1>8. ASSUME NEW h \in Handles PROVE (Owned(h)' <=> Owned(h)) /\ SoleOwner(h)'
  <2>1. SoleOwner(h)
    BY DEF OwnedOnce
  <2>2. h = old[t] => ~Listed(h) /\ InStore(h)
    BY <1>7
  <2>3. OwnsBy(h) /\ OwnsBy(h)'
    BY Ownership, OwnershipNext
  <2>4. CASE h = new[t]
    <3>1. PutOf(t, h) /\ ~KeyOf(x, h)
      BY <1>6, <2>1, <2>3, <2>4 DEF OwnsBy
    <3> QED
      BY <1>2, <1>6, <2>1, <2>3, <2>4, <3>1 DEF OwnsBy
  <2>5. CASE h # new[t] /\ h = old[t]
    BY <1>2, <1>6, <2>1, <2>2, <2>3, <2>5 DEF OwnsBy
  <2>6. CASE h # new[t] /\ h # old[t]
    BY <1>2, <1>6, <2>1, <2>3, <2>6 DEF OwnsBy
  <2> QED
    BY <2>4, <2>5, <2>6
<1> QED
  BY <1>3, <1>5, <1>7, <1>8

\* What a scan has freed is owned no longer.
LEMMA ReclaimOwners ==
  ASSUME STypeOK, IInv, AllStaged, OwnedOnce, NEW t \in Threads, Reclaim(t)
  PROVE  \E e \in retired[t] :
           /\ e \in Freeable(t) /\ visit[t] = {} /\ stage[t] = "scan"
           /\ FreeAll({e}) /\ retired' = [retired EXCEPT ![t] = @ \ {e}]
           /\ \A h \in Handles : SoleOwner(h)' /\ (Owned(h)' <=> Owned(h) /\ h # e)
           /\ e \in Handles => Owned(e)
<1>a. TypeOK /\ phase' = phase /\ UNCHANGED steps
  BY Alone, AsideFrame DEF STypeOK, ActOf, Aside
<1>1. PICK e \in retired[t] : /\ e \in Freeable(t) /\ visit[t] = {} /\ stage[t] = "scan"
                              /\ FreeAll({e}) /\ retired' = [retired EXCEPT ![t] = @ \ {e}]
  BY DEF Reclaim, Freeable
<1>2. ASSUME NEW h \in Handles
      PROVE  /\ SoleOwner(h)' /\ (Owned(h)' <=> Owned(h) /\ h # e)
             /\ h = e => Owned(h)
  <2>1. \A k \in Keys : KeyOf(k, h)' <=> KeyOf(k, h)
    BY <1>a DEF KeyOf, steps, nodes, Value
  <2>2. \A u \in Threads : PutOf(u, h)' <=> PutOf(u, h)
    BY <1>a DEF PutOf, Unpublished, steps, args
  <2>3. \A u \in Threads : ListOf(u, h)' <=> ListOf(u, h) /\ ~(u = t /\ h = e)
    BY <1>1 DEF ListOf, STypeOK
  <2>4. h = e => ListOf(t, h)
    BY <1>1 DEF ListOf
  <2>5. SoleOwner(h) /\ OwnsBy(h) /\ OwnsBy(h)'
    BY Ownership, OwnershipNext DEF OwnedOnce
  <2> QED
    BY <2>1, <2>2, <2>3, <2>4, <2>5 DEF OwnsBy
<1> QED
  BY <1>1, <1>2

(***************************************************************************)
(* The counts                                                              *)
(***************************************************************************)

\* After a step there are finitely many, too.
LEMMA FewHoldersNext == ASSUME NEW h PROVE Cardinality(Holders(h))' \in Nat
<1>1. Holders(h)' \subseteq Threads
  BY DEF Holders
<1>2. IsFiniteSet(Holders(h)')
  BY <1>1, FiniteThreads, FS_Subset
<1> QED
  BY <1>2, FS_CardinalityType

\* What a count is for.
Share(h) == IF Owned(h) THEN 1 ELSE 0

\* A count that keeps step with the references and the owner stays exact.
LEMMA Tally ==
  ASSUME RefcountExact,
         \A h \in Handles :
           refcount'[h] = refcount[h] + (Cardinality(Holders(h))' - Cardinality(Holders(h)))
                                      + (Share(h)' - Share(h))
  PROVE  RefcountExact'
<1>1. ASSUME NEW h \in Handles PROVE refcount'[h] = Cardinality(Holders(h))' + Share(h)'
  <2>1. refcount[h] = Cardinality(Holders(h)) + Share(h)
    BY DEF RefcountExact, Holders, Share
  <2>2. Share(h) \in Nat /\ Share(h)' \in Nat
    BY DEF Share
  <2> QED
    BY <2>1, <2>2, FewHolders, FewHoldersNext
<1> QED
  BY <1>1 DEF RefcountExact, Holders, Share

\* References that stay as they are count for as much.
LEMMA SameHolders ==
  ASSUME ref' = ref, NEW h PROVE Cardinality(Holders(h))' = Cardinality(Holders(h))
BY DEF Holders

\* Nothing happens to a handle.
LEMMA CountsStay ==
  ASSUME STypeOK, RefcountExact, FreshUncounted, refcount' = refcount, fresh' = fresh,
         \A h \in Handles : (Owned(h)' <=> Owned(h))
                            /\ Cardinality(Holders(h))' = Cardinality(Holders(h))
  PROVE  RefcountExact' /\ FreshUncounted'
<1>1. FreshUncounted'
  BY DEF FreshUncounted
<1>2. ASSUME NEW h \in Handles
      PROVE  refcount'[h] = refcount[h] + (Cardinality(Holders(h))' - Cardinality(Holders(h)))
                                        + (Share(h)' - Share(h))
  <2>1. Share(h)' = Share(h) /\ Share(h) \in Nat /\ refcount[h] \in Nat
    BY DEF Share, STypeOK
  <2> QED
    BY <2>1, FewHolders
<1> QED
  BY <1>1, <1>2, Tally

\* Dropping, for handles that have a count.
LEMMA CountsDrop ==
  ASSUME STypeOK, FreshUncounted, NEW E, FreeAll(E), \A h \in Handles : h \in E => refcount[h] > 0
  PROVE  /\ FreshUncounted'
         /\ \A h \in Handles : refcount'[h] = refcount[h] - (IF h \in E THEN 1 ELSE 0)
<1>1. \A h \in Handles : refcount'[h] = IF h \in E THEN refcount[h] - 1 ELSE refcount[h]
  BY DEF FreeAll, DropAll
<1>2. \A h \in Handles : refcount[h] \in Nat
  BY DEF STypeOK
<1>3. ASSUME NEW h \in Handles PROVE h \in fresh' <=> refcount'[h] = 0
  <2>1. h \in fresh' <=> h \in fresh \/ (h \in E /\ refcount[h] = 1)
    BY DEF FreeAll, DropAll
  <2>2. h \in fresh <=> refcount[h] = 0
    BY DEF FreshUncounted
  <2> QED
    BY <1>1, <1>2, <2>1, <2>2
<1>4. \A h \in Handles : refcount'[h] = refcount[h] - (IF h \in E THEN 1 ELSE 0)
  BY <1>1, <1>2
<1> QED
  BY <1>3, <1>4 DEF FreshUncounted

\* A store that goes drops the handles of its keys, and a domain what its lists
\* still hold.
LEMMA TeardownOwners ==
  ASSUME STypeOK, IInv, AllStaged, OwnedOnce
  PROVE  /\ TeardownStore =>
              /\ FreeAll(Content \union LastTables) /\ LastTables \subseteq Tables
              /\ \A h \in Handles : /\ SoleOwner(h)' /\ (h \in Content => Owned(h))
                                    /\ Owned(h)' <=> Owned(h) /\ h \notin Content
         /\ TeardownDomain =>
              \A h \in Handles : /\ SoleOwner(h)' /\ ~Owned(h)'
                                 /\ Owned(h) <=> h \in UNION {retired[t] : t \in Threads}
<1>a. TypeOK /\ \A t \in Threads : Local(t) /\ Staged(t)
  BY DEF STypeOK, IInv, Locals, AllStaged
<1>b. ASSUME \A t \in Threads : stage[t] = "gone", NEW u \in Threads PROVE ~Unpublished(u)
  BY <1>a, <1>b DEF Staged, Local, Unpublished
<1>1. ASSUME TeardownStore, NEW h \in Handles
      PROVE  /\ SoleOwner(h)' /\ (h \in Content => Owned(h))
             /\ Owned(h)' <=> Owned(h) /\ h \notin Content
  <2>1. /\ phase = "open" /\ phase' = "store_reset" /\ UNCHANGED steps /\ retired' = retired
        /\ \A t \in Threads : stage[t] = "gone"
    BY <1>1 DEF TeardownStore, table
  <2>2. \A k \in Keys : ~KeyOf(k, h)'
    BY <2>1 DEF KeyOf
  <2>3. \A u \in Threads : ~PutOf(u, h) /\ ~PutOf(u, h)'
    BY <1>b, <2>1 DEF PutOf, Unpublished, steps, args
  <2>4. \A u \in Threads : ListOf(u, h)' <=> ListOf(u, h)
    BY <2>1 DEF ListOf
  <2>5. h \in Content <=> InStore(h)
    BY <2>1 DEF InStore
  <2>6. SoleOwner(h) /\ OwnsBy(h) /\ OwnsBy(h)'
    BY Ownership, OwnershipNext DEF OwnedOnce
  <2> QED
    BY <2>2, <2>3, <2>4, <2>5, <2>6 DEF OwnsBy
<1>2. TeardownStore => FreeAll(Content \union LastTables) /\ LastTables \subseteq Tables
  BY <1>a DEF TeardownStore, LastTables, TypeOK
<1>3. ASSUME TeardownDomain, NEW h \in Handles
      PROVE  /\ SoleOwner(h)' /\ ~Owned(h)'
             /\ Owned(h) <=> h \in UNION {retired[t] : t \in Threads}
  <2>1. /\ phase = "store_reset" /\ phase' = "domain_reset" /\ UNCHANGED steps
        /\ retired' = [t \in Threads |-> {}]
    BY <1>3 DEF TeardownDomain, table
  <2>2. \A k \in Keys : ~KeyOf(k, h) /\ ~KeyOf(k, h)'
    BY <2>1 DEF KeyOf
  <2>3. \A u \in Threads : ~PutOf(u, h) /\ ~PutOf(u, h)'
    BY <1>a, <1>b, <2>1 DEF PutOf, Unpublished, steps, args, Staged
  <2>4. \A u \in Threads : ~ListOf(u, h)'
    BY <2>1 DEF ListOf
  <2>5. Listed(h) <=> h \in UNION {retired[t] : t \in Threads}
    BY DEF Listed
  <2>6. SoleOwner(h) /\ OwnsBy(h) /\ OwnsBy(h)'
    BY Ownership, OwnershipNext DEF OwnedOnce
  <2> QED
    BY <2>2, <2>3, <2>4, <2>5, <2>6 DEF OwnsBy
<1> QED
  BY <1>1, <1>2, <1>3

\* What is freed was owned before and is not any more.
LEMMA Freed ==
  ASSUME STypeOK, RefcountExact, FreshUncounted, NEW E, FreeAll(E), ref' = ref,
         \A h \in Handles : /\ h \in E => Owned(h)
                            /\ Owned(h)' <=> Owned(h) /\ h \notin E
  PROVE  RefcountExact' /\ FreshUncounted'
<1>1. \A h \in Handles : h \in E => refcount[h] > 0
  BY Counted
<1>2. /\ FreshUncounted'
      /\ \A h \in Handles : refcount'[h] = refcount[h] - (IF h \in E THEN 1 ELSE 0)
  BY <1>1, CountsDrop
<1>3. ASSUME NEW h \in Handles
      PROVE  refcount'[h] = refcount[h] + (Cardinality(Holders(h))' - Cardinality(Holders(h)))
                                        + (Share(h)' - Share(h))
  <2>1. Cardinality(Holders(h))' = Cardinality(Holders(h)) /\ Cardinality(Holders(h)) \in Nat
    BY SameHolders, FewHolders
  <2>2. Share(h)' - Share(h) = 0 - (IF h \in E THEN 1 ELSE 0)
    BY DEF Share
  <2>3. refcount[h] \in Nat /\ Share(h) \in Nat /\ Share(h)' \in Nat
    BY DEF STypeOK, Share
  <2> QED
    BY <1>2, <2>1, <2>2, <2>3
<1> QED
  BY <1>2, <1>3, Tally

\* Every count is exact after every step, every handle has one owner at most,
\* and the addresses without a handle are those that may be given out.
LEMMA BalanceStep ==
  ASSUME STypeOK, IInv, AllStaged, OwnedOnce, RefcountExact, FreshUncounted, HandlesGuarded,
         [SettledStep]_svars
  PROVE  OwnedOnce' /\ RefcountExact' /\ FreshUncounted'
<1>a. \A h \in Handles : Owned(h) \/ (\E t \in Threads : ref[t] = h) => refcount[h] > 0
  BY Counted
<1>b. \A h \in Handles : SoleOwner(h) /\ refcount[h] \in Nat
  BY DEF OwnedOnce, STypeOK
<1>c. ref \in [Threads -> Handles \union {NULL, Unborn}]
  BY DEF STypeOK
<1>1. ASSUME NEW t \in Threads, Quiet(t) PROVE OwnedOnce' /\ RefcountExact' /\ FreshUncounted'
  <2>a. Staged(t) /\ OwnersStay
    BY <1>1, QuietOwners DEF AllStaged
  <2>b. \A h \in Handles : Owned(h)' <=> Owned(h)
    BY <2>a, OwnedStay
  <2>1. OwnedOnce'
    BY <1>b, <2>a, OwnedStay DEF OwnedOnce
  <2>2. CASE refcount' = refcount /\ ref' = ref /\ fresh' = fresh
    BY <2>1, <2>2, <2>b, SameHolders, CountsStay
  <2>3. CASE SGetBucket(t) \/ ReadInside(t)
    <3>1. /\ refcount' = refcount /\ fresh' = fresh
          /\ ref' = ref \/ ref' = [ref EXCEPT ![t] = NULL]
          /\ pc[t] \in {"bucket", "load"} /\ new[t] = NULL
      BY <2>3 DEF SGetBucket, GetBucket, ReadInside, ReadHandle, IInv, Locals, Local
    <3>2. ref[t] = Unborn
      BY <2>a, <3>1 DEF Staged
    <3>3. CASE ref' = ref
      BY <2>2, <3>1, <3>3
    <3>4. CASE ref' = [ref EXCEPT ![t] = NULL]
      <4>1. ASSUME NEW h \in Handles
            PROVE  Cardinality(Holders(h))' = Cardinality(Holders(h))
        <5>1. h # ref[t]
          BY <3>2, RefAssumption
        <5>2. Cardinality(Holders(h))' = Cardinality(Holders(h)) - (IF h = ref[t] THEN 1 ELSE 0)
          BY <1>c, <3>4, OneLess
        <5> QED
          BY <5>1, <5>2, FewHolders
      <4> QED
        BY <2>1, <2>b, <3>1, <4>1, CountsStay
    <3> QED
      BY <3>1, <3>3, <3>4
  <2>4. CASE Incref(t)
    <3>1. PICK h \in Handles : h = result[t]
      BY <2>a, <2>4 DEF Incref, Staged
    <3>2. /\ refcount' = [refcount EXCEPT ![h] = @ + 1] /\ ref' = [ref EXCEPT ![t] = h]
          /\ ref[t] = Unborn /\ fresh' = fresh
      BY <2>a, <2>4, <3>1 DEF Incref, Staged
    <3>3. ASSUME NEW g \in Handles
          PROVE  /\ Cardinality(Holders(g))' = Cardinality(Holders(g)) + (IF g = h THEN 1 ELSE 0)
                 /\ refcount'[g] = refcount[g] + (IF g = h THEN 1 ELSE 0)
      <4>1. ref[t] \notin Handles
        BY <3>2, RefAssumption
      <4>2. Cardinality(Holders(g))' = Cardinality(Holders(g)) + (IF g = h THEN 1 ELSE 0)
        BY <1>c, <3>2, <4>1, OneMore
      <4>3. refcount'[g] = refcount[g] + (IF g = h THEN 1 ELSE 0)
        BY <1>b, <3>2 DEF STypeOK
      <4> QED
        BY <4>2, <4>3
    <3>4. RefcountExact'
      <4>1. ASSUME NEW g \in Handles PROVE Share(g)' = Share(g) /\ Share(g) \in Nat
        BY <2>b DEF Share
      <4>2. ASSUME NEW g \in Handles
            PROVE  refcount'[g] = refcount[g] + (Cardinality(Holders(g))' - Cardinality(Holders(g)))
                                              + (Share(g)' - Share(g))
        BY <1>b, <3>3, <4>1, FewHolders
      <4> QED
        BY <4>2, Tally
    <3>5. refcount[h] > 0
      BY <1>a, <2>4, <3>1 DEF Incref, HandlesGuarded
    <3>6. FreshUncounted'
      BY <1>b, <3>2, <3>3, <3>5 DEF FreshUncounted
    <3> QED
      BY <2>1, <3>4, <3>6
  <2>5. CASE Close(t)
    <3>1. FreeAll({ref[t]}) /\ ref' = [ref EXCEPT ![t] = Unborn]
      BY <2>5 DEF Close
    <3>2. /\ FreshUncounted'
          /\ \A h \in Handles : refcount'[h] = refcount[h] - (IF h = ref[t] THEN 1 ELSE 0)
      BY <1>a, <3>1, CountsDrop
    <3>3. ASSUME NEW h \in Handles
          PROVE  refcount'[h] = refcount[h] + (Cardinality(Holders(h))' - Cardinality(Holders(h)))
                                            + (Share(h)' - Share(h))
      <4>1. Share(h)' = Share(h) /\ Share(h) \in Nat
        BY <2>b DEF Share
      <4>2. Cardinality(Holders(h))' = Cardinality(Holders(h)) - (IF h = ref[t] THEN 1 ELSE 0)
        BY <1>c, <3>1, OneLess
      <4> QED
        BY <1>b, <3>2, <4>1, <4>2, FewHolders
    <3> QED
      BY <2>1, <3>2, <3>3, Tally
  <2>6. CASE SGetCall(t) \/ Plain(t) \/ TakeTable(t) \/ ProtectValidate(t) \/ STryComplete(t)
    <3>1. fresh' = fresh
      BY <2>6, PlainFacts DEF SGetCall, GetCall, TakeTable, LoadTable, ProtectValidate,
         ReadHandle, STryComplete, TryComplete, SwitchRoot
    <3>2. refcount' = refcount /\ ref' = ref
      BY <2>6 DEF SGetCall, Plain, TakeTable, ProtectValidate, STryComplete, counts
    <3> QED
      BY <2>2, <3>1, <3>2
  <2>7. CASE ProtectLoad(t) \/ ProtectPublish(t) \/ ProtectRetry(t) \/ Unprotect(t) \/ Leave(t)
             \/ BeginWalk(t) \/ ReadHazard(t) \/ EndScan(t) \/ Exit(t)
    <3>1. refcount' = refcount /\ ref' = ref /\ fresh' = fresh
      BY <2>7 DEF ProtectLoad, ProtectPublish, ProtectRetry, Unprotect, Leave, BeginWalk,
         ReadHazard, EndScan, Exit, vars, counts
    <3> QED
      BY <2>2, <3>1
  <2> QED
    BY <1>1, <2>3, <2>4, <2>5, <2>6, <2>7 DEF Quiet, ActOf
<1>2. ASSUME NEW t \in Threads, SPutCall(t)
      PROVE  OwnedOnce' /\ RefcountExact' /\ FreshUncounted'
  <2>1. PICK h \in Handles :
           /\ ~Owned(h) /\ refcount[h] = 0 /\ Owned(h)'
           /\ refcount' = [refcount EXCEPT ![h] = 1] /\ fresh' = fresh \ {h} /\ ref' = ref
           /\ SoleOwner(h)'
           /\ \A g \in Handles \ {h} : /\ Owned(g)' <=> Owned(g)
                                       /\ SoleOwner(g)' <=> SoleOwner(g)
    BY <1>2, BeginOwners
  <2>2. OwnedOnce'
    BY <1>b, <2>1 DEF OwnedOnce
  <2>3. \A g \in Handles : refcount'[g] = IF g = h THEN 1 ELSE refcount[g]
    BY <2>1 DEF STypeOK
  <2>4. FreshUncounted'
    BY <2>1, <2>3 DEF FreshUncounted
  <2>5. ASSUME NEW g \in Handles
        PROVE  refcount'[g] = refcount[g] + (Cardinality(Holders(g))' - Cardinality(Holders(g)))
                                          + (Share(g)' - Share(g))
    <3>1. Cardinality(Holders(g))' = Cardinality(Holders(g)) /\ Cardinality(Holders(g)) \in Nat
      BY <2>1, SameHolders, FewHolders
    <3>2. CASE g = h
      <4>1. Share(g) = 0 /\ Share(g)' = 1
        BY <2>1, <3>2 DEF Share
      <4> QED
        BY <2>1, <2>3, <3>1, <3>2, <4>1
    <3>3. CASE g # h
      <4>1. Share(g)' = Share(g) /\ Share(g) \in Nat
        BY <2>1, <3>3 DEF Share
      <4> QED
        BY <1>b, <2>3, <3>1, <3>3, <4>1
    <3> QED
      BY <3>2, <3>3
  <2> QED
    BY <2>2, <2>4, <2>5, Tally
<1>3. ASSUME NEW t \in Threads, (Plain(t) /\ PutInsert(t)) \/ SPutReplace(t)
      PROVE  OwnedOnce' /\ RefcountExact' /\ FreshUncounted'
  <2>1. \A h \in Handles : (Owned(h)' <=> Owned(h)) /\ SoleOwner(h)'
    BY <1>3, InsertOwners, ReplaceOwners
  <2>2. refcount' = refcount /\ ref' = ref
    BY <1>3 DEF Plain, SPutReplace, counts
  <2>3. fresh' = fresh
    BY <1>3, PlainFacts, Replaced DEF SPutReplace
  <2> QED
    BY <2>1, <2>2, <2>3, SameHolders, CountsStay DEF OwnedOnce
<1>4. ASSUME NEW t \in Threads, Reclaim(t)
      PROVE  OwnedOnce' /\ RefcountExact' /\ FreshUncounted'
  <2>1. PICK e \in retired[t] :
           /\ FreeAll({e})
           /\ \A h \in Handles : SoleOwner(h)' /\ (Owned(h)' <=> Owned(h) /\ h # e)
           /\ e \in Handles => Owned(e)
    BY <1>4, ReclaimOwners
  <2>2. ref' = ref
    BY <1>4 DEF Reclaim
  <2> QED
    BY <2>1, <2>2, Freed DEF OwnedOnce
<1>5. CASE TeardownStore
  <2>1. /\ FreeAll(Content \union LastTables) /\ LastTables \subseteq Tables
        /\ \A h \in Handles : /\ SoleOwner(h)' /\ (h \in Content => Owned(h))
                              /\ Owned(h)' <=> Owned(h) /\ h \notin Content
    BY <1>5, TeardownOwners
  <2>2. \A h \in Handles : h \in Content \union LastTables <=> h \in Content
    BY <2>1, EntryAssumption
  <2>3. ref' = ref
    BY <1>5 DEF TeardownStore
  <2> QED
    BY <2>1, <2>2, <2>3, Freed DEF OwnedOnce
<1>6. CASE TeardownDomain
  <2>1. \A h \in Handles : /\ SoleOwner(h)' /\ ~Owned(h)'
                           /\ Owned(h) <=> h \in UNION {retired[t] : t \in Threads}
    BY <1>6, TeardownOwners
  <2>2. FreeAll(UNION {retired[t] : t \in Threads}) /\ ref' = ref
    BY <1>6 DEF TeardownDomain
  <2> QED
    BY <2>1, <2>2, Freed DEF OwnedOnce
<1>7. CASE UNCHANGED svars
  <2>1. OwnersStay
    BY <1>7 DEF svars, vars, nodes, args, reclamation, OwnersStay, KeyOf, PutOf, ListOf, Value,
       Unpublished
  <2>2. refcount' = refcount /\ ref' = ref /\ fresh' = fresh
    BY <1>7 DEF svars, vars, counts
  <2>3. OwnedOnce'
    BY <1>b, <2>1, OwnedStay DEF OwnedOnce
  <2> QED
    BY <2>1, <2>2, <2>3, OwnedStay, SameHolders, CountsStay
<1> QED
  BY <1>1, <1>2, <1>3, <1>4, <1>5, <1>6, <1>7, Steps DEF Quiet

(***************************************************************************)
(* Tables                                                                  *)
(***************************************************************************)

\* Nothing happens to a table.
LEMMA TablesStay ==
  ASSUME TablesOnce, root' = root, phase' = phase, phase = "open" \/ resizing' = resizing,
         \A i \in Tables : /\ freed'[i] = freed[i]
                           /\ \A u \in Threads : i \in retired'[u] <=> i \in retired[u]
  PROVE  TablesOnce'
<1> SUFFICES ASSUME NEW i \in Tables
             PROVE  /\ Listed(i)' => i < root'
                    /\ \A t, u \in Threads : i \in retired'[t] /\ i \in retired'[u] => t = u
                    /\ freed'[i] = IF GivenUp(i)' /\ ~Listed(i)' THEN 1 ELSE 0
  BY DEF TablesOnce
<1>1. Listed(i)' <=> Listed(i)
  BY DEF Listed
<1>2. GivenUp(i)' <=> GivenUp(i)
  BY DEF GivenUp, LastTables
<1> QED
  BY <1>1, <1>2 DEF TablesOnce

\* The steps that change neither root nor what has been freed or listed.
LEMMA TablesFrame ==
  ASSUME STypeOK, IInv, AllStaged, NEW t \in Threads, ActOf(t), ~STryComplete(t), ~Reclaim(t)
  PROVE  /\ root' = root /\ phase' = phase /\ (phase = "open" \/ resizing' = resizing)
         /\ \A i \in Tables : /\ freed'[i] = freed[i]
                              /\ \A u \in Threads : i \in retired'[u] <=> i \in retired[u]
<1>a. /\ Staged(t) /\ phase' = phase /\ TypeOK
  BY Alone DEF AllStaged, STypeOK
<1>1. root' = root
  <2>1. CASE Aside(t)
    BY <2>1, AsideFrame DEF steps
  <2>2. CASE SGetCall(t) \/ SPutCall(t) \/ SGetBucket(t)
    BY <2>2 DEF SGetCall, GetCall, SPutCall, PutWith, SGetBucket, GetBucket
  <2>3. CASE TakeTable(t) \/ ProtectValidate(t) \/ ReadInside(t)
    BY <2>3 DEF TakeTable, LoadTable, ProtectValidate, ReadInside, ReadHandle
  <2> QED
    BY <2>1, <2>2, <2>3, PlainFacts, Replaced DEF ActOf, Aside, SPutReplace
<1>2. phase = "open" \/ resizing' = resizing
  <2>1. CASE Aside(t)
    BY <2>1, AsideFrame DEF steps, migration
  <2>2. CASE ~Aside(t)
    <3>1. Running(t) \/ stage[t] = "validate"
      BY <2>2 DEF ActOf, Aside, SGetCall, SPutCall, Plain, SGetBucket, TakeTable,
         ProtectValidate, ReadInside, SPutReplace
    <3> QED
      BY <1>a, <3>1 DEF Staged, Running
  <2> QED
    BY <2>1, <2>2
<1>3. ASSUME NEW i \in Tables PROVE freed'[i] = freed[i]
  <2>1. CASE Close(t)
    <3>1. i \notin {ref[t]} /\ FreeAll({ref[t]})
      BY <2>1, EntryAssumption DEF Close, STypeOK
    <3> QED
      BY <3>1 DEF FreeAll, CountFreed
  <2>2. CASE ~Close(t)
    <3>1. freed' = freed
      BY <2>2 DEF ActOf, SGetCall, SPutCall, Plain, SGetBucket, TakeTable, ProtectLoad,
         ProtectPublish, ProtectRetry, ProtectValidate, ReadInside, Incref, Unprotect,
         SPutReplace, Leave, BeginWalk, ReadHazard, EndScan, Exit, reclamation
    <3> QED
      BY <3>1
  <2> QED
    BY <2>1, <2>2
<1>4. ASSUME NEW i \in Tables, NEW u \in Threads PROVE i \in retired'[u] <=> i \in retired[u]
  <2>1. CASE SPutReplace(t)
    <3>1. old[t] \in Handles /\ retired' = [retired EXCEPT ![t] = @ \union {old[t]}]
      BY <2>1, Replaced DEF SPutReplace, Retire
    <3> QED
      BY <3>1, EntryAssumption DEF STypeOK
  <2>2. CASE ~SPutReplace(t)
    <3>1. retired' = retired
      BY <2>2 DEF ActOf, SGetCall, SPutCall, Plain, SGetBucket, TakeTable, ProtectLoad,
         ProtectPublish, ProtectRetry, ProtectValidate, ReadInside, Incref, Unprotect,
         Leave, BeginWalk, ReadHazard, EndScan, Exit, Close, reclamation
    <3> QED
      BY <3>1
  <2> QED
    BY <2>1, <2>2
<1> QED
  BY <1>a, <1>1, <1>2, <1>3, <1>4

\* The thread that makes the exchange retires the table that it leaves behind.
LEMMA CompleteFacts ==
  ASSUME STypeOK, AllStaged, NEW t \in Threads, STryComplete(t)
  PROVE  /\ phase = "open" /\ phase' = phase /\ freed' = freed /\ resizing' = resizing
         /\ pc[t] = "complete" /\ pc'[t] = "table"
         /\ \/ root' = root /\ UNCHANGED <<stage, retired, sections>>
            \/ root' = root + 1 /\ tbl[t] = root /\ Retire(t, root)
<1>1. TypeOK /\ Staged(t)
  BY DEF STypeOK, AllStaged
<1>2. /\ pc[t] = "complete" /\ pc'[t] = "table" /\ phase = "open" /\ resizing' = resizing
      /\ root' # root => root' = root + 1 /\ tbl[t] = root
  BY <1>1 DEF STryComplete, TryComplete, SwitchRoot, Running, Staged, Goto, TypeOK, migration
<1> QED
  BY <1>2 DEF STryComplete

\* Every table is freed once, when it has been left and is listed no longer.
LEMMA TablesStep ==
  ASSUME STypeOK, IInv, AllStaged, TablesOnce, [SettledStep]_svars PROVE TablesOnce'
<1>a. root \in Nat /\ root \in Tables /\ freed \in [Tables -> Nat]
      /\ retired \in [Threads -> SUBSET (Handles \union Tables)]
  BY DEF STypeOK, TypeOK, Tables
<1>b. \A i \in Tables : i \in Nat
  BY DEF Tables
<1>1. ASSUME NEW t \in Threads, ActOf(t), ~STryComplete(t), ~Reclaim(t) PROVE TablesOnce'
  BY <1>1, TablesFrame, TablesStay
<1>2. ASSUME NEW t \in Threads, STryComplete(t) PROVE TablesOnce'
  <2>1. CASE root' = root /\ UNCHANGED <<stage, retired, sections>>
    BY <1>2, <2>1, CompleteFacts, TablesStay
  <2>2. CASE root' = root + 1 /\ Retire(t, root)
    <3>1. retired' = [retired EXCEPT ![t] = @ \union {root}]
      BY <2>2 DEF Retire
    <3>2. freed' = freed /\ phase = "open" /\ phase' = "open"
      BY <1>2, CompleteFacts
    <3> SUFFICES ASSUME NEW i \in Tables
                 PROVE  /\ Listed(i)' => i < root'
                        /\ \A s, u \in Threads : i \in retired'[s] /\ i \in retired'[u] => s = u
                        /\ freed'[i] = IF GivenUp(i)' /\ ~Listed(i)' THEN 1 ELSE 0
      BY DEF TablesOnce
    <3>3. /\ \A u \in Threads : i \in retired'[u] <=> i \in retired[u] \/ (u = t /\ i = root)
      BY <1>a, <3>1
    <3>4. Listed(i)' <=> Listed(i) \/ i = root
      BY <3>3 DEF Listed
    <3>5. (GivenUp(i)' <=> i < root + 1) /\ (GivenUp(i) <=> i < root)
      BY <2>2, <3>2 DEF GivenUp
    <3>6. /\ Listed(i) => i < root
          /\ \A s, u \in Threads : i \in retired[s] /\ i \in retired[u] => s = u
          /\ freed[i] = IF GivenUp(i) /\ ~Listed(i) THEN 1 ELSE 0
      BY DEF TablesOnce
    <3>7. i = root => \A u \in Threads : i \notin retired[u]
      BY <1>a, <3>6 DEF Listed
    <3>8. freed'[i] = IF GivenUp(i)' /\ ~Listed(i)' THEN 1 ELSE 0
      BY <1>a, <1>b, <3>2, <3>4, <3>5, <3>6
    <3> QED
      <4>1. Listed(i)' => i < root'
        BY <1>a, <1>b, <2>2, <3>4, <3>6
      <4>2. ASSUME NEW s \in Threads, NEW u \in Threads, i \in retired'[s], i \in retired'[u]
            PROVE  s = u
        BY <3>3, <3>6, <3>7, <4>2
      <4> QED
        BY <3>8, <4>1, <4>2
  <2> QED
    BY <1>2, <2>1, <2>2, CompleteFacts
<1>3. ASSUME NEW t \in Threads, Reclaim(t) PROVE TablesOnce'
  <2>1. PICK e \in retired[t] : /\ FreeAll({e})
                                /\ retired' = [retired EXCEPT ![t] = @ \ {e}]
    BY <1>3 DEF Reclaim, Freeable
  <2>2. root' = root /\ phase' = phase /\ resizing' = resizing
    BY <1>3 DEF Reclaim, table, steps, migration
  <2> SUFFICES ASSUME NEW i \in Tables
               PROVE  /\ Listed(i)' => i < root'
                      /\ \A s, u \in Threads : i \in retired'[s] /\ i \in retired'[u] => s = u
                      /\ freed'[i] = IF GivenUp(i)' /\ ~Listed(i)' THEN 1 ELSE 0
    BY DEF TablesOnce
  <2>3. \A u \in Threads : i \in retired'[u] <=> i \in retired[u] /\ ~(u = t /\ i = e)
    BY <1>a, <2>1
  <2>4. /\ Listed(i) => i < root
        /\ \A s, u \in Threads : i \in retired[s] /\ i \in retired[u] => s = u
        /\ freed[i] = IF GivenUp(i) /\ ~Listed(i) THEN 1 ELSE 0
    BY DEF TablesOnce
  <2>5. GivenUp(i)' <=> GivenUp(i)
    BY <2>2 DEF GivenUp, LastTables
  <2>6. freed'[i] = IF i = e THEN freed[i] + 1 ELSE freed[i]
    BY <2>1 DEF FreeAll, CountFreed
  <2>7. CASE i = e
    <3>1. Listed(i) /\ ~Listed(i)' /\ GivenUp(i)
      BY <2>1, <2>3, <2>4, <2>7 DEF Listed, GivenUp
    <3> QED
      BY <2>3, <2>4, <2>5, <2>6, <2>7, <3>1
  <2>8. CASE i # e
    <3>1. Listed(i)' <=> Listed(i)
      BY <2>3, <2>8 DEF Listed
    <3> QED
      BY <2>2, <2>3, <2>4, <2>5, <2>6, <2>8, <3>1
  <2> QED
    BY <2>7, <2>8
<1>4. CASE TeardownStore \/ TeardownDomain
  <2>1. root' = root /\ resizing' = resizing
    BY <1>4 DEF TeardownStore, TeardownDomain, table, steps, migration
  <2> SUFFICES ASSUME NEW i \in Tables
               PROVE  /\ Listed(i)' => i < root'
                      /\ \A s, u \in Threads : i \in retired'[s] /\ i \in retired'[u] => s = u
                      /\ freed'[i] = IF GivenUp(i)' /\ ~Listed(i)' THEN 1 ELSE 0
    BY DEF TablesOnce
  <2>2. /\ Listed(i) => i < root
        /\ \A s, u \in Threads : i \in retired[s] /\ i \in retired[u] => s = u
        /\ freed[i] = IF GivenUp(i) /\ ~Listed(i) THEN 1 ELSE 0
    BY DEF TablesOnce
  <2>3. CASE TeardownStore
    <3>1. /\ phase = "open" /\ phase' = "store_reset" /\ retired' = retired
          /\ FreeAll(Content \union LastTables)
      BY <2>3 DEF TeardownStore
    <3>2. Content \subseteq Handles
      BY DEF Content, STypeOK, TypeOK
    <3>3. freed'[i] = IF i \in LastTables THEN freed[i] + 1 ELSE freed[i]
      BY <3>1, <3>2, EntryAssumption DEF FreeAll, CountFreed
    <3>4. /\ GivenUp(i)' <=> i < root \/ i \in LastTables
          /\ GivenUp(i) <=> i < root
          /\ Listed(i)' <=> Listed(i)
      BY <2>1, <3>1 DEF GivenUp, LastTables, Listed
    <3>5. i \in LastTables => ~(i < root)
      BY <1>a, <1>b DEF LastTables
    <3> QED
      BY <2>1, <2>2, <3>1, <3>3, <3>4, <3>5
  <2>4. CASE TeardownDomain
    <3>1. /\ phase = "store_reset" /\ phase' = "domain_reset" /\ retired' = [u \in Threads |-> {}]
          /\ FreeAll(UNION {retired[t] : t \in Threads})
      BY <2>4 DEF TeardownDomain
    <3>2. i \in UNION {retired[t] : t \in Threads} <=> Listed(i)
      BY DEF Listed
    <3>3. freed'[i] = IF Listed(i) THEN freed[i] + 1 ELSE freed[i]
      BY <3>1, <3>2 DEF FreeAll, CountFreed
    <3>4. (GivenUp(i)' <=> GivenUp(i)) /\ ~Listed(i)' /\ (Listed(i) => GivenUp(i))
      BY <2>1, <2>2, <3>1 DEF GivenUp, LastTables, Listed
    <3> QED
      BY <2>2, <3>1, <3>3, <3>4
  <2> QED
    BY <1>4, <2>3, <2>4
<1>5. CASE UNCHANGED svars
  BY <1>5, TablesStay DEF svars, vars, migration, reclamation
<1> QED
  BY <1>1, <1>2, <1>3, <1>4, <1>5, Steps

(***************************************************************************)
(* Waiting                                                                 *)
(***************************************************************************)

\* A thread that retires something adds it to its list; the domain has it wait
\* for all who are inside.
LEMMA RetireFacts ==
  ASSUME STypeOK, NEW t \in Threads, NEW e, Retire(t, e)
  PROVE  /\ retired' = [retired EXCEPT ![t] = @ \union {e}] /\ e \in retired'[t]
         /\ \A u \in Threads : retired[u] \subseteq retired'[u]
         /\ inside' = inside
         /\ smr = "hp" => waits' = waits
         /\ smr = "ebr" => /\ DOMAIN waits' = DOMAIN waits \union {e} /\ waits'[e] = inside
                           /\ \A d \in DOMAIN waits : d # e => waits'[d] = waits[d]
<1>1. /\ retired' = [retired EXCEPT ![t] = @ \union {e}] /\ e \in retired'[t]
      /\ \A u \in Threads : retired[u] \subseteq retired'[u]
  BY DEF Retire, STypeOK
<1>2. CASE smr = "hp"
  BY <1>1, <1>2 DEF Retire, sections
<1>3. CASE smr = "ebr"
  <2>1. /\ waits' = [d \in DOMAIN waits \union {e} |-> IF d = e THEN inside ELSE waits[d]]
        /\ inside' = inside
    BY <1>3 DEF Retire, Grace!Retire, Grace!Retired
  <2>2. DOMAIN waits' = DOMAIN waits \union {e}
    BY <2>1
  <2>3. waits'[e] = inside
    BY <2>1
  <2>4. \A d \in DOMAIN waits : d # e => waits'[d] = waits[d]
    BY <2>1
  <2> QED
    BY <1>1, <1>3, <2>1, <2>2, <2>3, <2>4
<1> QED
  BY <1>2, <1>3 DEF STypeOK

\* What waits after a step has waited before, for the same threads but one that
\* leaves; or it has just been retired and waits for all who are inside.
LEMMA WaitFacts ==
  ASSUME STypeOK, IInv, AllStaged, NEW t \in Threads, ActOf(t), NEW e \in DOMAIN waits'
  PROVE  \/ /\ e \in DOMAIN waits
            /\ \A u \in Threads : u \in waits[e] => u \in waits'[e] \/ (u = t /\ Leave(t))
         \/ /\ e \in retired'[t] /\ waits'[e] = inside
            /\ SPutReplace(t) \/ (STryComplete(t) /\ root' # root)
<1>0. ASSUME waits' = waits
      PROVE  /\ e \in DOMAIN waits
             /\ \A u \in Threads : u \in waits[e] => u \in waits'[e] \/ (u = t /\ Leave(t))
  BY <1>0
<1>1. ASSUME NEW d, Retire(t, d), SPutReplace(t) \/ (STryComplete(t) /\ root' # root)
      PROVE  \/ /\ e \in DOMAIN waits
                /\ \A u \in Threads : u \in waits[e] => u \in waits'[e] \/ (u = t /\ Leave(t))
             \/ /\ e \in retired'[t] /\ waits'[e] = inside
                /\ SPutReplace(t) \/ (STryComplete(t) /\ root' # root)
  <2>1. CASE smr = "hp"
    BY <1>0, <1>1, <2>1, RetireFacts
  <2>2. CASE smr = "ebr"
    <3>1. /\ d \in retired'[t] /\ DOMAIN waits' = DOMAIN waits \union {d} /\ waits'[d] = inside
          /\ \A f \in DOMAIN waits : f # d => waits'[f] = waits[f]
      BY <1>1, <2>2, RetireFacts
    <3> QED
      BY <1>1, <3>1
  <2> QED
    BY <2>1, <2>2 DEF STypeOK
<1>2. CASE SPutReplace(t)
  BY <1>1, <1>2 DEF SPutReplace
<1>3. CASE STryComplete(t)
  <2>1. CASE root' = root
    BY <1>0, <1>3, <2>1 DEF STryComplete, sections
  <2>2. CASE root' # root
    BY <1>1, <1>3, <2>2 DEF STryComplete
  <2> QED
    BY <2>1, <2>2
<1>4. CASE Leave(t)
  <2>1. waits' = [d \in DOMAIN waits |-> waits[d] \ {t}]
    BY <1>4 DEF Leave, Grace!Leave, Grace!Retired
  <2>2. DOMAIN waits' = DOMAIN waits
    BY <2>1
  <2>3. e \in DOMAIN waits /\ waits'[e] = waits[e] \ {t}
    BY <2>1, <2>2
  <2> QED
    BY <1>4, <2>3
<1>5. CASE Reclaim(t)
  <2>1. CASE smr = "hp"
    BY <1>0, <1>5, <2>1 DEF Reclaim, sections
  <2>2. CASE smr = "ebr"
    <3>1. PICK d : waits' = [f \in DOMAIN waits \ {d} |-> waits[f]]
      BY <1>5, <2>2 DEF Reclaim, Grace!Free, Grace!Retired
    <3>2. DOMAIN waits' = DOMAIN waits \ {d}
      BY <3>1
    <3>3. e \in DOMAIN waits /\ waits'[e] = waits[e]
      BY <3>1, <3>2
    <3> QED
      BY <3>3
  <2> QED
    BY <2>1, <2>2 DEF STypeOK
<1>6. CASE SGetCall(t) \/ SPutCall(t)
  <2>1. waits' = waits
    BY <1>6 DEF SGetCall, SPutCall, Enter, Grace!Enter, sections
  <2> QED
    BY <1>0, <2>1
<1>7. CASE ~(SGetCall(t) \/ SPutCall(t) \/ SPutReplace(t) \/ STryComplete(t) \/ Leave(t)
             \/ Reclaim(t))
  <2>1. waits' = waits
    BY <1>7 DEF ActOf, Plain, SGetBucket, TakeTable, ProtectLoad, ProtectPublish, ProtectRetry,
       ProtectValidate, ReadInside, Incref, Unprotect, BeginWalk, ReadHazard, EndScan, Exit,
       Close, sections
  <2> QED
    BY <1>0, <2>1
<1> QED
  BY <1>2, <1>3, <1>4, <1>5, <1>6, <1>7

\* Lists only grow, but for a scan that frees an entry.
LEMMA ListsGrow ==
  ASSUME STypeOK, NEW t \in Threads, ActOf(t), ~Reclaim(t), NEW u \in Threads
  PROVE  retired[u] \subseteq retired'[u]
<1>1. CASE SPutReplace(t)
  BY <1>1, RetireFacts DEF SPutReplace
<1>2. CASE STryComplete(t)
  <2>1. CASE root' = root
    BY <1>2, <2>1 DEF STryComplete
  <2>2. CASE root' # root
    BY <1>2, <2>2, RetireFacts DEF STryComplete
  <2> QED
    BY <2>1, <2>2
<1>3. CASE ~SPutReplace(t) /\ ~STryComplete(t)
  <2>1. retired' = retired
    BY <1>3 DEF ActOf, SGetCall, SPutCall, Plain, SGetBucket, TakeTable, ProtectLoad,
       ProtectPublish, ProtectRetry, ProtectValidate, ReadInside, Incref, Unprotect, Leave,
       BeginWalk, ReadHazard, EndScan, Exit, Close, reclamation
  <2> QED
    BY <2>1
<1> QED
  BY <1>1, <1>2, <1>3

\* What waits is in a list, and nothing is when the domain is gone.
LEMMA DeferredStep ==
  ASSUME STypeOK, IInv, AllStaged, Deferred, [SettledStep]_svars PROVE Deferred'
<1>a. \A e \in DOMAIN waits : \E u \in Threads : e \in retired[u]
  BY DEF Deferred, Listed, Grace!Retired
<1>b. SUFFICES ASSUME [SettledStep]_svars
               PROVE  /\ \A e \in DOMAIN waits' : \E u \in Threads : e \in retired'[u]
                      /\ phase' = "domain_reset" => \A u \in Threads : retired'[u] = {}
  BY DEF Deferred, Listed, Grace!Retired
<1>1. ASSUME NEW t \in Threads, ActOf(t)
      PROVE  /\ \A e \in DOMAIN waits' : \E u \in Threads : e \in retired'[u]
             /\ phase' = "domain_reset" => \A u \in Threads : retired'[u] = {}
  <2>1. ASSUME NEW e \in DOMAIN waits' PROVE \E u \in Threads : e \in retired'[u]
    <3>1. CASE e \in retired'[t]
      BY <3>1
    <3>2. CASE e \notin retired'[t]
      <4>1. e \in DOMAIN waits
        BY <1>1, <2>1, <3>2, WaitFacts
      <4>2. PICK u \in Threads : e \in retired[u]
        BY <1>a, <4>1
      <4>3. CASE ~Reclaim(t)
        BY <1>1, <4>2, <4>3, ListsGrow
      <4>4. CASE Reclaim(t)
        <5>1. PICK d : /\ retired' = [retired EXCEPT ![t] = @ \ {d}]
                       /\ smr = "ebr" => waits' = [f \in DOMAIN waits \ {d} |-> waits[f]]
          BY <4>4 DEF Reclaim, Grace!Free, Grace!Retired
        <5>2. smr = "ebr"
          BY <4>1 DEF STypeOK, Grace!Retired
        <5>3. e # d
          BY <2>1, <5>1, <5>2
        <5> QED
          BY <4>2, <5>1, <5>3 DEF STypeOK
      <4> QED
        BY <4>3, <4>4
    <3> QED
      BY <3>1, <3>2
  <2>2. ASSUME phase' = "domain_reset", NEW u \in Threads PROVE retired'[u] = {}
    <3>1. phase = "domain_reset" /\ Staged(t) /\ retired[u] = {}
      BY <1>1, <2>2, Alone DEF AllStaged, Deferred
    <3>2. stage[t] = "gone"
      BY <3>1 DEF Staged
    <3>3. ~SPutReplace(t) /\ ~STryComplete(t) /\ ~Reclaim(t)
      BY <3>2 DEF SPutReplace, STryComplete, Reclaim, Running
    <3>4. retired' = retired
      BY <1>1, <3>3 DEF ActOf, SGetCall, SPutCall, Plain, SGetBucket, TakeTable, ProtectLoad,
         ProtectPublish, ProtectRetry, ProtectValidate, ReadInside, Incref, Unprotect, Leave,
         BeginWalk, ReadHazard, EndScan, Exit, Close, reclamation
    <3> QED
      BY <3>1, <3>4
  <2> QED
    BY <2>1, <2>2
<1>2. CASE TeardownStore
  BY <1>2, <1>a DEF TeardownStore, sections
<1>3. CASE TeardownDomain
  <2>1. waits' = [d \in DOMAIN waits \ DOMAIN waits |-> waits[d]]
    BY <1>3 DEF TeardownDomain, Grace!Free, Grace!Retired
  <2>2. DOMAIN waits' = {}
    BY <2>1
  <2> QED
    BY <1>3, <2>2 DEF TeardownDomain
<1>4. CASE UNCHANGED svars
  BY <1>4, <1>a DEF svars, sections, reclamation, Deferred
<1> QED
  BY <1>1, <1>2, <1>3, <1>4, Steps

(***************************************************************************)
(* Protection                                                              *)
(***************************************************************************)

\* What is protected is not freed.
LEMMA NotFreed ==
  ASSUME STypeOK, NEW t \in Threads, NEW u \in Threads, NEW i \in {0, 1}, NEW e,
         Protects(u, i, e), stage[t] = "scan", visit[t] = {}, e \in Freeable(t)
  PROVE  FALSE
<1>1. CASE smr = "hp"
  <2>1. e \in retired[t] /\ e \notin active[t]
    BY <1>1 DEF Freeable
  <2> QED
    BY <1>1, <2>1 DEF Protects
<1>2. CASE smr # "hp"
  <2>1. e \in Grace!Retired /\ waits[e] = {}
    BY <1>2 DEF Freeable, Grace!Expired
  <2> QED
    BY <1>2, <2>1 DEF Protects
<1> QED
  BY <1>1, <1>2

\* What nobody has listed is protected by whoever has a hazard for it, or is
\* inside.
LEMMA Unlisted ==
  ASSUME NEW t \in Threads, NEW i \in {0, 1}, NEW e, Deferred', ~Listed(e)',
         smr' = "hp" => ptrs'[t][i] = e
  PROVE  Protects(t, i, e)'
<1>1. \A u \in Threads : e \notin retired'[u]
  BY DEF Listed
<1>2. e \notin Grace!Retired'
  BY DEF Deferred
<1> QED
  BY <1>1, <1>2 DEF Protects

\* A hazard that stands, or a thread that stays inside, protects for as long.
LEMMA ProtectsStay ==
  ASSUME STypeOK, IInv, AllStaged, NEW t \in Threads, ActOf(t), NEW u \in Threads,
         NEW i \in {0, 1}, NEW e \in Handles \union Tables, Protects(u, i, e),
         smr = "hp" => ptrs'[u][i] = e /\ e \notin retired'[u],
         smr = "ebr" => u \in inside /\ ~(u = t /\ Leave(t))
  PROVE  Protects(u, i, e)'
<1>a. smr' = smr
  BY Alone
<1>1. CASE smr = "hp"
  <2> SUFFICES ASSUME NEW w \in Threads, stage'[w] = "scan", e \in retired'[w]
               PROVE  <<u, i>> \in visit'[w] \/ e \in active'[w]
    BY <1>a, <1>1 DEF Protects
  <2>1. w # u
    BY <1>1
  <2>2. stage[w] = "scan" /\ e \in retired[w] => <<u, i>> \in visit[w] \/ e \in active[w]
    BY <1>1 DEF Protects
  <2>3. CASE w # t
    BY <2>2, <2>3, Alone DEF Mine
  <2>4. CASE w = t /\ BeginWalk(t)
    <3>1. visit' = [visit EXCEPT ![t] = (Threads \ {t}) \X {0, 1}]
      BY <2>4 DEF BeginWalk
    <3> QED
      BY <2>1, <2>4, <3>1 DEF STypeOK
  <2>5. CASE w = t /\ ReadHazard(t)
    <3>1. PICK v \in visit[t] :
            /\ visit' = [visit EXCEPT ![t] = @ \ {v}]
            /\ active' = [active EXCEPT ![t] = @ \union ({ptrs[v[1]][v[2]]} \ {NULL})]
      BY <2>5 DEF ReadHazard
    <3>2. stage[w] = "scan" /\ e \in retired[w] /\ ptrs' = ptrs
      BY <2>5 DEF ReadHazard, reclamation, hazards
    <3>3. ptrs[u][i] = e /\ e # NULL
      BY <1>1, <3>2, EntryAssumption, DistinguishedValues
    <3>4. CASE v = <<u, i>>
      <4>1. e \in active'[t]
        BY <3>1, <3>3, <3>4 DEF STypeOK
      <4> QED
        BY <2>5, <4>1
    <3>5. CASE v # <<u, i>>
      BY <2>2, <2>5, <3>1, <3>2, <3>5 DEF STypeOK
    <3> QED
      BY <3>4, <3>5
  <2>6. CASE w = t /\ (Reclaim(t) \/ Close(t))
    <3>1. /\ stage' = stage /\ visit' = visit /\ active' = active
          /\ retired'[t] \subseteq retired[t]
      <4>1. CASE Close(t)
        BY <4>1 DEF Close, scan
      <4>2. CASE Reclaim(t)
        <5>1. PICK d : retired' = [retired EXCEPT ![t] = @ \ {d}]
          BY <4>2 DEF Reclaim
        <5>2. retired'[t] \subseteq retired[t]
          BY <5>1 DEF STypeOK
        <5> QED
          BY <4>2, <5>2 DEF Reclaim, scan
      <4> QED
        BY <2>6, <4>1, <4>2
    <3> QED
      BY <2>2, <2>6, <3>1
  <2>7. CASE w = t /\ ~BeginWalk(t) /\ ~ReadHazard(t) /\ ~Reclaim(t) /\ ~Close(t)
    <3>1. stage \in [Threads -> Stages] /\ smr # "ebr"
      BY <1>1 DEF STypeOK
    <3>2. \A s : Proceed(t) => stage' = [stage EXCEPT ![t] = "run"]
      BY <3>1 DEF Proceed, To
    <3>3. ASSUME Retire(t, old[t]) \/ Retire(t, tbl[t]) PROVE stage'[t] # "scan"
      BY <3>1, <3>2, <3>3 DEF Retire, To
    <3>4. stage'[t] # "scan"
      <4>1. CASE SGetCall(t) \/ SPutCall(t) \/ Plain(t) \/ SGetBucket(t) \/ TakeTable(t)
        BY <3>1, <3>2, <4>1 DEF SGetCall, SPutCall, Plain, SGetBucket, TakeTable, Running
      <4>2. CASE ProtectLoad(t) \/ ProtectPublish(t) \/ ProtectRetry(t) \/ ProtectValidate(t)
                 \/ ReadInside(t) \/ Incref(t) \/ Unprotect(t) \/ EndScan(t) \/ Exit(t)
        BY <3>1, <1>1, <4>2 DEF ProtectLoad, ProtectPublish, ProtectRetry, ProtectValidate,
           ReadInside, Incref, Unprotect, EndScan, Exit, To
      <4>3. CASE SPutReplace(t)
        BY <3>3, <4>3 DEF SPutReplace
      <4>4. CASE STryComplete(t)
        BY <3>3, <4>4 DEF STryComplete, Running
      <4>5. CASE Leave(t)
        BY <3>1, <4>5 DEF Leave, AllStaged, Staged
      <4> QED
        BY <2>7, <4>1, <4>2, <4>3, <4>4, <4>5 DEF ActOf
    <3> QED
      BY <2>7, <3>4
  <2> QED
    BY <2>3, <2>4, <2>5, <2>6, <2>7
<1>2. CASE smr = "ebr"
  <2> SUFFICES ASSUME e \in DOMAIN waits' PROVE u \in waits'[e]
    BY <1>a, <1>2 DEF Protects, Grace!Retired
  <2>1. e \in DOMAIN waits => u \in waits[e]
    BY <1>2 DEF Protects, Grace!Retired
  <2> QED
    BY <1>2, <2>1, WaitFacts
<1> QED
  BY <1>1, <1>2 DEF STypeOK

\* The handle that a get is about to read is the one that its key has now: an
\* unfrozen one is in the current table.
LEMMA CurrentHandle ==
  ASSUME IInv, NEW t \in Threads, pc[t] = "load", TakesFrozen(t) => root = tbl[t], pc'[t] = "idle"
  PROVE  /\ handle[tbl[t]][key[t]] \in Handles /\ handle[tbl[t]][key[t]] \in Content
         /\ key[t] \in Keys /\ handle[tbl[t]][key[t]] = Value(key[t]) /\ tbl[t] = root
<1>1. TypeOK /\ Local(t) /\ Migrating
  BY DEF IInv, Locals
<1>2. /\ tbl[t] \in Tables /\ tbl[t] <= root /\ key[t] \in Keys
  BY InTable DEF IInv
<1>3. key[t] \in Nodes(tbl[t]) /\ root \in Tables /\ root \in Nat /\ tbl[t] \in Nat
  BY <1>1, <1>2 DEF Local, TypeOK, Tables
<1>4. handle[tbl[t]][key[t]] \in Handles
  BY <1>1, <1>2, <1>3 DEF Nodes, TypeOK
<1>5. tbl[t] = root
  <2>1. CASE sealed[tbl[t]][key[t]]
    BY <2>1 DEF TakesFrozen
  <2>2. ASSUME tbl[t] < root PROVE sealed[tbl[t]][key[t]]
    <3>1. ~Left(tbl[t], key[t]) /\ tbl[t] + 1 \in Tables
      BY <1>2, <2>2, LeftBehind
    <3> QED
      BY <1>1, <1>2, <1>3, <3>1 DEF Migrating
  <2> QED
    BY <1>2, <1>3, <2>1, <2>2
<1> QED
  BY <1>2, <1>4, <1>5, DistinguishedValues DEF Content, Value

\* Where a get has found a handle.
LEMMA Found ==
  ASSUME STypeOK, IInv, AllStaged, SettledStep, NEW t \in Threads,
         ProtectValidate(t) \/ ReadInside(t), stage'[t] = "incref"
  PROVE  /\ result'[t] \in Content /\ result'[t] \in Handles /\ phase = "open"
         /\ pc[t] = "load" /\ pc'[t] = "idle" /\ result'[t] = Value(key[t]) /\ key[t] \in Keys
         /\ smr = "hp" => ProtectValidate(t) /\ ptrs'[t][0] = result'[t]
         /\ ref[t] = Unborn
<1>a. Staged(t) /\ TypeOK /\ Local(t)
  BY DEF AllStaged, STypeOK, IInv, Locals
<1>1. /\ pc[t] = "load" /\ pc'[t] = "idle"
      /\ \E m \in BOOLEAN : ReadHandle(t, m) /\ (m => smr = "ebr")
      /\ ProtectValidate(t) => ReadHandle(t, FALSE)
  <2>1. CASE ProtectValidate(t)
    <3>1. ~(LoadTable(t) /\ To(t, "run"))
      BY DEF To, STypeOK
    <3>2. ReadHandle(t, FALSE)
      BY <2>1, <3>1 DEF ProtectValidate
    <3> QED
      BY <1>a, <3>2 DEF ReadHandle, Return, Goto, TypeOK
  <2>2. CASE ~ProtectValidate(t)
    <3>1. ReadHandle(t, TRUE) /\ smr = "ebr" /\ pc[t] = "load"
      BY <2>2 DEF ReadInside, ReadHandle
    <3> QED
      BY <1>a, <2>2, <3>1 DEF ReadHandle, Return, Goto, TypeOK
  <2> QED
    BY <2>1, <2>2
<1>2. /\ handle[tbl[t]][key[t]] \in Handles /\ handle[tbl[t]][key[t]] \in Content
      /\ key[t] \in Keys /\ handle[tbl[t]][key[t]] = Value(key[t])
  BY <1>1, CurrentHandle DEF SettledStep
<1>3. result'[t] = handle[tbl[t]][key[t]]
  <2>1. CASE ProtectValidate(t)
    BY <1>a, <1>1, <2>1 DEF ReadHandle, TypeOK
  <2>2. CASE ReadInside(t) /\ ~ProtectValidate(t)
    <3>1. smr = "ebr"
      BY <2>2 DEF ReadInside
    <3>2. ~sealed[tbl[t]][key[t]]
      BY <1>1, <3>1 DEF SettledStep, TakesFrozen
    <3> QED
      BY <1>a, <1>1, <3>2 DEF ReadHandle, TypeOK
  <2> QED
    BY <2>1, <2>2
<1>4. smr = "hp" => ProtectValidate(t) /\ ptrs'[t][0] = result'[t]
  <2>1. ASSUME smr = "hp" PROVE ProtectValidate(t)
    BY <2>1 DEF ReadInside
  <2>2. ASSUME ProtectValidate(t) PROVE ptrs'[t][0] = result'[t]
    <3>1. ptrs' = ptrs /\ stage[t] = "validate" /\ Shared(t) = cand[t]
      BY <2>2 DEF ProtectValidate, Unchanged
    <3>2. ptrs[t][0] = cand[t].ptr
      BY <1>a, <1>1, <3>1 DEF Staged, Which
    <3>3. Shared(t).ptr = handle[tbl[t]][key[t]]
      BY <1>1 DEF Shared
    <3> QED
      BY <1>3, <3>1, <3>2, <3>3
  <2> QED
    BY <2>1, <2>2
<1>5. phase = "open" /\ ref[t] = Unborn
  BY <1>a, <1>1 DEF Staged, ProtectValidate, ReadInside, Running, ReadHandle, Local
<1> QED
  BY <1>1, <1>2, <1>3, <1>4, <1>5

\* Only by reading a handle a thread comes to count it.
LEMMA ToIncref ==
  ASSUME STypeOK, AllStaged, NEW t \in Threads, ActOf(t), stage'[t] = "incref"
  PROVE  ProtectValidate(t) \/ ReadInside(t)
<1>a. stage \in [Threads -> Stages] /\ Staged(t)
  BY DEF STypeOK, AllStaged
<1>b. ~Proceed(t)
  BY <1>a DEF Proceed, To
<1>1. CASE SGetCall(t) \/ SPutCall(t) \/ Plain(t) \/ SGetBucket(t) \/ TakeTable(t)
  BY <1>b, <1>1 DEF SGetCall, SPutCall, Plain, SGetBucket, TakeTable, Running
<1>2. CASE ProtectLoad(t) \/ ProtectPublish(t) \/ ProtectRetry(t) \/ Incref(t) \/ Unprotect(t)
           \/ EndScan(t) \/ Exit(t) \/ Leave(t)
  BY <1>a, <1>2 DEF ProtectLoad, ProtectPublish, ProtectRetry, Incref, Unprotect, EndScan, Exit,
     Leave, To
<1>3. CASE SPutReplace(t) \/ STryComplete(t)
  BY <1>a, <1>b, <1>3 DEF SPutReplace, STryComplete, Retire, To, Running
<1>4. CASE BeginWalk(t) \/ ReadHazard(t) \/ Reclaim(t)
  BY <1>a, <1>4 DEF BeginWalk, ReadHazard, Reclaim, To
<1>5. CASE Close(t)
  BY <1>a, <1>5 DEF Close, Staged
<1> QED
  BY <1>1, <1>2, <1>3, <1>4, <1>5 DEF ActOf

\* What is owned stays owned, if it is not freed.
LEMMA OwnedOn ==
  ASSUME STypeOK, IInv, AllStaged, OwnedOnce, RefcountExact, FreshUncounted,
         NEW t \in Threads, ActOf(t), NEW h \in Handles, Owned(h),
         NEW u \in Threads, NEW i \in {0, 1}, Protects(u, i, h)
  PROVE  Owned(h)'
<1>1. CASE Quiet(t)
  BY <1>1, QuietOwners, OwnedStay
<1>2. CASE SPutCall(t)
  <2>1. PICK g \in Handles : ~Owned(g) /\ \A f \in Handles \ {g} : Owned(f)' <=> Owned(f)
    BY <1>2, BeginOwners
  <2> QED
    BY <2>1
<1>3. CASE (Plain(t) /\ PutInsert(t)) \/ SPutReplace(t)
  BY <1>3, InsertOwners, ReplaceOwners
<1>4. CASE Reclaim(t)
  <2>1. PICK e \in retired[t] :
           /\ e \in Freeable(t) /\ visit[t] = {} /\ stage[t] = "scan"
           /\ \A g \in Handles : Owned(g)' <=> Owned(g) /\ g # e
    BY <1>4, ReclaimOwners
  <2>2. h # e
    BY <2>1, NotFreed
  <2> QED
    BY <2>1, <2>2
<1> QED
  BY <1>1, <1>2, <1>3, <1>4 DEF Quiet

\* When the store is torn down no thread is in a call, or counts anything.
LEMMA AllGone ==
  ASSUME STypeOK, IInv, AllStaged, TeardownStore \/ TeardownDomain, NEW u \in Threads
  PROVE  /\ stage[u] = "gone" /\ stage'[u] = "gone" /\ pc[u] = "idle" /\ pc'[u] = "idle"
         /\ ref' = ref /\ result' = result /\ UNCHANGED steps /\ fresh \subseteq fresh'
         /\ phase # "domain_reset"
<1>1. stage[u] = "gone" /\ stage' = stage /\ UNCHANGED <<table, ref>> /\ phase # "domain_reset"
  BY DEF TeardownStore, TeardownDomain, AllStaged, Staged
<1>2. pc[u] = "idle"
  BY <1>1 DEF AllStaged, Staged
<1>3. fresh \subseteq fresh'
  BY DEF TeardownStore, TeardownDomain, FreeAll, DropAll
<1> QED
  BY <1>1, <1>2, <1>3 DEF table, steps

\* The handle that a get has found stays what it is until it is counted.
LEMMA HandlesStep ==
  ASSUME STypeOK, IInv, AllStaged, OwnedOnce, RefcountExact, FreshUncounted, HandlesGuarded,
         [SettledStep]_svars, Deferred'
  PROVE  HandlesGuarded'
<1>1. ASSUME NEW t \in Threads, ActOf(t), SettledStep, NEW u \in Threads, stage'[u] = "incref"
      PROVE  Owned(result[u])' /\ Protects(u, 0, result[u])'
  <2>1. CASE u = t
    <3>1. ProtectValidate(t) \/ ReadInside(t)
      BY <1>1, <2>1, ToIncref
    <3>2. PICK h \in Handles : /\ h = result'[t] /\ h \in Content /\ phase = "open"
                               /\ smr = "hp" => ptrs'[t][0] = h
      BY <1>1, <2>1, <3>1, Found
    <3>3. Quiet(t) /\ smr' = smr
      <4>1. stage[t] # "scan" /\ pc[t] = "load"
        BY <1>1, <2>1, <3>1, Found DEF ProtectValidate, ReadInside, Running
      <4>2. ~SPutCall(t) /\ ~Reclaim(t)
        BY <4>1 DEF SPutCall, PutWith, Reclaim
      <4>3. ~(Plain(t) /\ PutInsert(t)) /\ ~SPutReplace(t)
        BY <4>1 DEF PutInsert, SPutReplace, PutReplace
      <4> QED
        BY <1>1, <4>2, <4>3, Alone DEF Quiet
    <3>4. InStore(h) /\ SoleOwner(h)
      BY <3>2 DEF InStore, OwnedOnce
    <3>5. Owned(h) /\ ~Listed(h)
      BY <3>4, Ownership DEF OwnsBy
    <3>6. Owned(h)' /\ ~Listed(h)'
      BY <3>3, <3>5, QuietOwners, OwnedStay
    <3>7. Protects(t, 0, h)'
      BY <3>2, <3>3, <3>6, Unlisted
    <3> QED
      BY <2>1, <3>2, <3>6, <3>7 DEF Owned, Protects
  <2>2. CASE u # t
    <3>1. /\ stage[u] = "incref" /\ result'[u] = result[u] /\ ptrs'[u] = ptrs[u]
          /\ retired'[u] = retired[u]
      BY <1>1, <2>2, Alone DEF Mine
    <3>2. PICK h \in Handles : h = result[u] /\ (smr = "ebr" => u \in inside)
      BY <3>1 DEF AllStaged, Staged
    <3>3. Owned(h) /\ Protects(u, 0, h)
      BY <3>1, <3>2 DEF HandlesGuarded
    <3>4. Owned(h)'
      BY <1>1, <3>3, OwnedOn
    <3>5. Protects(u, 0, h)'
      <4>1. smr = "hp" => ptrs'[u][0] = h /\ h \notin retired'[u]
        BY <3>1, <3>3 DEF Protects
      <4> QED
        BY <1>1, <2>2, <3>2, <3>3, <4>1, ProtectsStay
    <3> QED
      BY <3>1, <3>2, <3>4, <3>5 DEF Owned, Protects
  <2> QED
    BY <2>1, <2>2
<1>2. CASE TeardownStore \/ TeardownDomain
  BY <1>2, AllGone DEF HandlesGuarded
<1>3. CASE UNCHANGED svars
  BY <1>3 DEF svars, vars, nodes, args, hazards, sections, scan, reclamation, counts,
     HandlesGuarded, Owned, Protects, Content, Unpublished, Grace!Retired
<1>4. CASE \E t \in Threads : ActOf(t)
  <2>1. CASE SettledStep
    BY <1>1, <1>4, <2>1 DEF HandlesGuarded
  <2> QED
    BY <1>3, <2>1
<1> QED
  BY <1>2, <1>3, <1>4, Steps

\* How a thread comes to work on a table, or goes on doing so.
LEMMA OwnTable ==
  ASSUME STypeOK, IInv, AllStaged, NEW t \in Threads, ActOf(t), pc'[t] \notin {"idle", "table"}
  PROVE  /\ ~STryComplete(t) /\ ~Reclaim(t) /\ ~Leave(t) /\ phase = "open"
         /\ \/ tbl'[t] = root /\ (smr = "hp" => ptrs'[t][1] = root)
            \/ /\ pc[t] \notin {"idle", "table"} /\ tbl'[t] = tbl[t]
               /\ ptrs'[t][1] = ptrs[t][1]
<1>a. TypeOK /\ Staged(t) /\ Staged(t)' /\ phase' = phase
  BY OwnStage, Alone DEF STypeOK, AllStaged
<1>b. /\ pc \in [Threads -> PCs]
      /\ ptrs \in [Threads -> [{0, 1} -> Handles \union Tables \union {NULL}]]
  BY <1>a, STypeOK DEF TypeOK, STypeOK
<1>c. ~STryComplete(t)
  BY CompleteFacts
<1>d. ~Reclaim(t) /\ ~Leave(t)
  <2>1. ASSUME Reclaim(t) \/ Leave(t) PROVE FALSE
    <3>1. pc' = pc /\ stage[t] \in {"scan", "leave"}
      BY <2>1 DEF Reclaim, Leave, table, steps, vars
    <3> QED
      BY <1>a, <3>1 DEF Staged
  <2> QED
    BY <2>1
<1>e. phase = "open"
  BY <1>a DEF Staged
<1>1. CASE SGetCall(t) \/ SPutCall(t)
  BY <1>1, <1>b DEF SGetCall, SPutCall, GetCall, PutWith, Goto
<1>2. CASE Plain(t)
  BY <1>2, <1>c, <1>d, <1>e, PlainFacts DEF Plain, hazards
<1>3. CASE SGetBucket(t)
  BY <1>3, <1>b, <1>c, <1>d, <1>e DEF SGetBucket, GetBucket, Return, Goto, hazards
<1>4. CASE TakeTable(t)
  BY <1>4, <1>a, <1>c, <1>d, <1>e DEF TakeTable, LoadTable, hazards, TypeOK
<1>5. CASE ProtectValidate(t)
  <2>1. CASE LoadTable(t)
    <3>1. tbl'[t] = root /\ pc[t] = "table" /\ ptrs' = ptrs /\ stage[t] = "validate"
      BY <1>5, <1>a, <2>1 DEF LoadTable, ProtectValidate, TypeOK
    <3>2. Shared(t) = cand[t] /\ Which(t) = 1
      BY <1>5, <3>1 DEF ProtectValidate, Unchanged, Which
    <3>3. ptrs[t][1] = root
      BY <1>a, <3>1, <3>2 DEF Staged, Shared
    <3> QED
      BY <1>c, <1>d, <1>e, <3>1, <3>3
  <2>2. CASE ReadHandle(t, FALSE)
    BY <1>b, <2>2 DEF ReadHandle, Return, Goto
  <2> QED
    BY <1>5, <2>1, <2>2 DEF ProtectValidate
<1>6. CASE ReadInside(t)
  BY <1>6, <1>b DEF ReadInside, ReadHandle, Return, Goto
<1>7. CASE SPutReplace(t)
  BY <1>7, <1>b DEF SPutReplace, PutReplace, Return, Goto, hazards
<1>8. CASE ProtectPublish(t)
  <2>1. pc' = pc /\ tbl' = tbl
    BY <1>8 DEF ProtectPublish, vars, args
  <2>2. ptrs' = [ptrs EXCEPT ![t][0] = cand[t].ptr]
    BY <1>8, <2>1 DEF ProtectPublish, Which
  <2> QED
    BY <1>b, <1>c, <1>d, <1>e, <2>1, <2>2
<1>9. CASE ProtectLoad(t) \/ ProtectRetry(t) \/ Incref(t) \/ ReadHazard(t) \/ EndScan(t) \/ Close(t)
           \/ BeginWalk(t)
  BY <1>9, <1>c, <1>d, <1>e DEF ProtectLoad, ProtectRetry, Incref, ReadHazard, EndScan, Close,
     BeginWalk, hazards, vars, table, steps, args
<1>10. CASE Unprotect(t)
  <2>1. pc' = pc /\ tbl' = tbl /\ ptrs' = [ptrs EXCEPT ![t][0] = NULL]
    BY <1>10 DEF Unprotect, vars, args
  <2> QED
    BY <1>b, <1>c, <1>d, <1>e, <2>1
<1>11. CASE Exit(t)
  BY <1>11 DEF Exit, vars
<1> QED
  BY <1>c, <1>d, <1>e, <1>1, <1>2, <1>3, <1>4, <1>5, <1>6, <1>7, <1>8, <1>9, <1>10, <1>11 DEF ActOf

\* The table that a call works on is not freed before the call is over.
LEMMA GuardStep ==
  ASSUME STypeOK, IInv, AllStaged, TablesOnce, TablesGuarded, [SettledStep]_svars,
         TablesOnce', Deferred'
  PROVE  TablesGuarded'
<1>a. root \in Tables /\ root \in Nat /\ \A i \in Tables : i \in Nat
  BY DEF STypeOK, TypeOK, Tables
<1>1. ASSUME NEW t \in Threads, ActOf(t), NEW u \in Threads, pc'[u] \notin {"idle", "table"}
      PROVE  freed'[tbl'[u]] = 0 /\ Protects(u, 1, tbl[u])'
  <2>1. CASE u = t /\ tbl'[t] = root /\ (smr = "hp" => ptrs'[t][1] = root)
    <3>1. /\ phase = "open" /\ root' = root /\ freed'[root] = freed[root] /\ smr' = smr
          /\ \A w \in Threads : root \in retired'[w] <=> root \in retired[w]
      BY <1>1, <1>a, <2>1, OwnTable, TablesFrame, Alone
    <3>2. ~Listed(root) /\ ~GivenUp(root) /\ freed[root] = 0
      BY <1>a, <3>1 DEF TablesOnce, GivenUp
    <3>3. \A w \in Threads : root \notin retired'[w]
      BY <3>1, <3>2 DEF Listed
    <3>4. PICK i \in Tables : i = root
      BY <1>a
    <3>5. ~Listed(i)'
      BY <3>3, <3>4 DEF Listed
    <3>6. smr' = "hp" => ptrs'[t][1] = i
      BY <2>1, <3>1, <3>4
    <3>7. Protects(t, 1, i)'
      BY <3>5, <3>6, Unlisted
    <3> QED
      BY <2>1, <3>1, <3>2, <3>4, <3>7 DEF Protects
  <2>2. CASE /\ pc[u] \notin {"idle", "table"} /\ tbl'[u] = tbl[u]
             /\ ptrs'[u][1] = ptrs[u][1] /\ ~(u = t /\ (STryComplete(t) \/ Leave(t)))
             /\ u # t => retired'[u] = retired[u]
             /\ u = t => ~Reclaim(t)
    <3>1. PICK i \in Tables : i = tbl[u]
      BY <2>2, InTable DEF IInv
    <3>2. freed[i] = 0 /\ Protects(u, 1, i)
      BY <2>2, <3>1 DEF TablesGuarded
    <3>3. smr = "hp" => ptrs'[u][1] = i /\ i \notin retired'[u]
      <4>1. smr = "hp" => ptrs[u][1] = i /\ i \notin retired[u]
        BY <3>2 DEF Protects
      <4>2. i \in retired'[u] <=> i \in retired[u]
        BY <1>1, <2>2, TablesFrame
      <4> QED
        BY <2>2, <4>1, <4>2
    <3>4. smr = "ebr" => u \in inside
      BY <2>2 DEF AllStaged, Staged
    <3>5. Protects(u, 1, i)'
      BY <1>1, <2>2, <3>2, <3>3, <3>4, ProtectsStay
    <3>6. freed'[i] = 0
      <4>1. CASE STryComplete(t)
        BY <3>2, <4>1, CompleteFacts
      <4>2. CASE Reclaim(t)
        <5>1. PICK e \in Freeable(t) : FreeAll({e}) /\ visit[t] = {} /\ stage[t] = "scan"
          BY <4>2 DEF Reclaim
        <5>2. i # e
          BY <3>2, <5>1, NotFreed
        <5> QED
          BY <3>2, <5>1, <5>2 DEF FreeAll, CountFreed
      <4>3. CASE ~STryComplete(t) /\ ~Reclaim(t)
        BY <1>1, <3>2, <4>3, TablesFrame
      <4> QED
        BY <4>1, <4>2, <4>3
    <3> QED
      BY <2>2, <3>1, <3>5, <3>6 DEF Protects
  <2>3. CASE u # t
    <3>1. Mine(u)' = Mine(u) /\ Hands(u)' = Hands(u)
      BY <1>1, <2>3, Alone
    <3> QED
      BY <1>1, <2>2, <2>3, <3>1 DEF Mine, Hands
  <2> QED
    BY <1>1, <2>1, <2>2, <2>3, OwnTable
<1>2. CASE TeardownStore \/ TeardownDomain
  BY <1>2, AllGone DEF TablesGuarded
<1>3. CASE UNCHANGED svars
  BY <1>3 DEF svars, vars, args, hazards, sections, scan, reclamation, TablesGuarded, Protects,
     Grace!Retired
<1> QED
  BY <1>1, <1>2, <1>3, Steps DEF TablesGuarded

(***************************************************************************)
(* What the clients see                                                    *)
(***************************************************************************)

\* A get that has found a handle changes nobody's handle and no count.
LEMMA FindsQuietly ==
  ASSUME STypeOK, IInv, AllStaged, SettledStep, NEW t \in Threads,
         ProtectValidate(t) \/ ReadInside(t), stage'[t] = "incref"
  PROVE  Quiet(t) /\ refcount' = refcount
<1>1. stage[t] # "scan" /\ pc[t] = "load" /\ refcount' = refcount
  BY Found DEF ProtectValidate, ReadInside, Running, counts
<1>2. ~SPutCall(t) /\ ~Reclaim(t)
  BY <1>1 DEF SPutCall, PutWith, Reclaim
<1>3. ~(Plain(t) /\ PutInsert(t)) /\ ~SPutReplace(t)
  BY <1>1 DEF PutInsert, SPutReplace, PutReplace
<1> QED
  BY <1>1, <1>2, <1>3 DEF Quiet, ActOf

\* A get that finds no node in a bucket that is not frozen reads it in the
\* current table: the store holds nothing for the key.
LEMMA Absent ==
  ASSUME IInv, NEW t \in Threads, GetBucket(t), pc'[t] = "idle"
  PROVE  key[t] \in Keys /\ Value(key[t]) = NULL
<1>a. TypeOK /\ Locals /\ Chains
  BY DEF IInv
<1>1. pc[t] = "bucket"
  BY DEF GetBucket
<1>2. PICK i \in Tables, b \in Buckets, k \in Keys :
        /\ i = tbl[t] /\ k = key[t] /\ b = Index(i, k) /\ i <= root
        /\ b \in 0..(Capacity[i] - 1)
  BY <1>a, <1>1, InTable
<1>3. k \notin Elements(chain[i][b]) /\ ~frozen[i][b]
  BY <1>a, <1>2 DEF GetBucket, Goto, TypeOK
<1>4. handle[i][k] = NULL
  BY <1>a, <1>2, <1>3 DEF Chains, Nodes
<1>5. i = root
  <2>1. ASSUME i < root PROVE FALSE
    BY <1>2, <1>3, <2>1, LeftBehind
  <2> QED
    BY <1>a, <1>2, <2>1 DEF TypeOK, Tables
<1> QED
  BY <1>2, <1>4, <1>5 DEF Value

\* What a client sees of a step: nothing, a reference to what its key has now,
\* or a reference that ends.
Reads(t) ==
    /\ Seen(t) = Unborn /\ phase = "open" /\ Quiet(t) /\ refcount' = refcount
    /\ \E k \in Keys : Seen(t)' = Value(k)

\* Nothing else happens to a reference, in particular no get takes a frozen
\* handle for an absent one.
LEMMA SeenSteps ==
  ASSUME STypeOK, IInv, AllStaged, SettledStep, NEW t \in Threads, ActOf(t)
  PROVE  /\ \A u \in Threads \ {t} : Seen(u)' = Seen(u)
         /\ \/ Seen(t)' = Seen(t) /\ ~Close(t)
            \/ Reads(t)
            \/ Close(t) /\ Seen(t) = ref[t] /\ Seen(t)' = Unborn
<1>a. Staged(t) /\ TypeOK /\ ref \in [Threads -> Handles \union {NULL, Unborn}]
      /\ stage \in [Threads -> Stages] /\ Local(t)
  BY DEF AllStaged, STypeOK, IInv, Locals
<1>1. \A u \in Threads \ {t} : Seen(u)' = Seen(u)
  BY Alone DEF Mine, Seen
<1>2. CASE stage'[t] = "incref"
  <2>1. ProtectValidate(t) \/ ReadInside(t)
    BY <1>2, ToIncref
  <2>2. Quiet(t) /\ refcount' = refcount
    BY <1>2, <2>1, FindsQuietly
  <2>3. stage[t] # "incref"
    BY <2>1 DEF ProtectValidate, ReadInside, Running
  <2>4. Reads(t)
    BY <1>2, <2>1, <2>2, <2>3, Found DEF Reads, Seen
  <2> QED
    BY <1>1, <2>4
<1>3. CASE Incref(t)
  <2>1. stage[t] = "incref" /\ ref' = [ref EXCEPT ![t] = result[t]]
    BY <1>3 DEF Incref
  <2>2. ref'[t] = result[t] /\ ~Close(t)
    BY <1>a, <2>1, RefAssumption DEF Staged, Close
  <2>3. stage'[t] # "incref"
    BY <1>a, <1>3 DEF Incref, To
  <2> QED
    BY <1>1, <2>1, <2>2, <2>3 DEF Seen
<1>4. CASE Close(t)
  <2>1. stage[t] # "incref" /\ stage' = stage /\ ref'[t] = Unborn
    BY <1>a, <1>4 DEF Staged, Close
  <2> QED
    BY <1>1, <1>4, <2>1 DEF Seen
<1>5. CASE SGetBucket(t) /\ pc'[t] = "idle"
  <2>1. stage[t] = "run" /\ ref'[t] = NULL /\ refcount' = refcount /\ pc[t] = "bucket"
        /\ new[t] = NULL
    BY <1>a, <1>5 DEF SGetBucket, Running, GetBucket
  <2>2. phase = "open" /\ ref[t] = Unborn
    BY <1>a, <2>1 DEF Staged
  <2>3. Quiet(t)
    BY <1>5, <2>1 DEF Quiet, ActOf, SPutCall, PutWith, PutInsert, SPutReplace, PutReplace, Reclaim
  <2>4. stage'[t] # "incref"
    BY <1>a, <1>5 DEF SGetBucket, Proceed, To
  <2>5. key[t] \in Keys /\ Value(key[t]) = NULL
    BY <1>5, Absent DEF SGetBucket
  <2> QED
    BY <1>1, <2>1, <2>2, <2>3, <2>4, <2>5 DEF Reads, Seen
<1>6. CASE ReadInside(t) /\ stage'[t] # "incref"
  <2>1. smr = "ebr" /\ ReadHandle(t, TRUE) /\ result'[t] = NULL
    BY <1>a, <1>6 DEF ReadInside, To
  <2>2. pc[t] = "load" /\ pc'[t] = "idle"
    BY <1>a, <2>1 DEF ReadHandle, Return, Goto, TypeOK
  <2>3. ~TakesFrozen(t)
    BY <2>1 DEF SettledStep
  <2>4. handle[tbl[t]][key[t]] \in Handles
    BY <2>2, <2>3, CurrentHandle
  <2>5. result'[t] = handle[tbl[t]][key[t]]
    BY <1>a, <2>1, <2>2, <2>3 DEF ReadHandle, TakesFrozen, TypeOK
  <2> QED
    BY <2>1, <2>4, <2>5, DistinguishedValues
<1>7. CASE /\ stage'[t] # "incref" /\ ~Incref(t) /\ ~Close(t) /\ ~ReadInside(t)
           /\ ~(SGetBucket(t) /\ pc'[t] = "idle")
  <2>1. ref' = ref
    BY <1>7 DEF ActOf, SGetCall, SPutCall, Plain, SGetBucket, TakeTable, ProtectLoad,
       ProtectPublish, ProtectRetry, ProtectValidate, Unprotect, SPutReplace, STryComplete, Leave,
       BeginWalk, ReadHazard, Reclaim, EndScan, Exit, counts
  <2>2. stage[t] # "incref"
    <3>1. ASSUME stage[t] = "incref" PROVE FALSE
      <4>1. pc[t] = "idle"
        BY <1>a, <3>1 DEF Staged
      <4>2. ~STryComplete(t)
        BY <4>1, CompleteFacts
      <4> QED
        BY <1>7, <3>1, <4>2 DEF ActOf, SGetCall, SPutCall, Plain, SGetBucket, TakeTable,
           ProtectLoad, ProtectPublish, ProtectRetry, ProtectValidate, Unprotect, SPutReplace,
           Leave, BeginWalk, ReadHazard, Reclaim, EndScan, Exit, Running
    <3> QED
      BY <3>1
  <2> QED
    BY <1>1, <1>7, <2>1, <2>2 DEF Seen
<1> QED
  BY <1>2, <1>3, <1>4, <1>5, <1>6, <1>7

\* What a client sees has a count.
LEMMA SeenCounts ==
  ASSUME RefcountExact, AllStaged, HandlesGuarded, NEW u \in Threads, NEW h \in Handles,
         Seen(u) = h
  PROVE  refcount[h] > 0
<1>1. CASE stage[u] = "incref"
  BY <1>1, Counted DEF HandlesGuarded, Seen
<1>2. CASE stage[u] # "incref"
  BY <1>2, Counted DEF Seen
<1> QED
  BY <1>1, <1>2

\* Nobody comes to see a handle that its put has not handed over.
LEMMA UnseenStep ==
  ASSUME STypeOK, IInv, AllStaged, OwnedOnce, RefcountExact, FreshUncounted, HandlesGuarded,
         Unseen, [SettledStep]_svars
  PROVE  Unseen'
<1>a. NULL \notin Handles /\ Unborn \notin Handles /\ TypeOK
  BY DistinguishedValues, RefAssumption DEF STypeOK
<1>b. \A h \in Handles : InPut(h) => \A u \in Threads : Seen(u) # h
  BY DEF Unseen, InPut
<1>c. TypeOK'
  BY StoreSteps, TypeStep
<1>d. ASSUME \A h \in Handles : InPut(h)' => \A u \in Threads : Seen(u)' # h PROVE Unseen'
  <2>1. ASSUME NEW v \in Threads, NEW u \in Threads, Unpublished(v)' PROVE Seen(u)' # new'[v]
    <3>1. PICK h \in Handles : h = new'[v]
      BY <1>c, <2>1 DEF Unpublished, TypeOK
    <3>2. InPut(h)'
      BY <2>1, <3>1 DEF InPut
    <3> QED
      BY <1>d, <3>1, <3>2
  <2> QED
    BY <2>1 DEF Unseen
<1>1. ASSUME NEW t \in Threads, ActOf(t), SettledStep, NEW h \in Handles, InPut(h)',
             NEW u \in Threads, Seen(u)' = h
      PROVE  FALSE
  <2>1. CASE InPut(h)
    <3>1. Seen(u) # h
      BY <1>b, <2>1
    <3>2. u = t /\ Reads(t)
      BY <1>1, <1>a, <3>1, SeenSteps
    <3>3. InStore(h)
      BY <1>1, <3>2, Ownership DEF Reads, OwnsBy, KeyOf
    <3> QED
      BY <2>1, <3>3 DEF OwnedOnce, SoleOwner
  <2>2. CASE ~InPut(h)
    <3>1. CASE SPutCall(t)
      <4>1. PICK g \in fresh : PutWith(t, g)
        BY <3>1 DEF SPutCall
      <4>2. pc[t] = "idle" /\ new' = [new EXCEPT ![t] = g]
        BY <4>1 DEF PutWith
      <4>3. PICK v \in Threads : Unpublished(v)' /\ new'[v] = h
        BY <1>1 DEF InPut
      <4>4. v = t
        <5>1. ASSUME v # t PROVE Unpublished(v) /\ new[v] = h
          BY <1>1, <4>3, <5>1, Alone DEF Hands, Unpublished
        <5> QED
          BY <2>2, <5>1 DEF InPut
      <4>5. h = g
        BY <1>a, <4>2, <4>3, <4>4 DEF TypeOK
      <4>6. refcount[h] = 0
        BY <4>1, <4>5 DEF FreshUncounted
      <4>7. ~Reads(t)
        BY <3>1 DEF Reads, Quiet
      <4>8. Seen(u)' = Seen(u)
        BY <1>1, <1>a, <4>7, SeenSteps
      <4> QED
        BY <1>1, <4>6, <4>8, SeenCounts
    <3>2. CASE Quiet(t)
      BY <1>1, <2>2, <3>2, QuietOwners, OwnedStay
    <3>3. CASE (Plain(t) /\ PutInsert(t)) \/ SPutReplace(t) \/ Reclaim(t)
      <4>1. PICK v \in Threads : Unpublished(v)' /\ new'[v] = h
        BY <1>1 DEF InPut
      <4>2. v = t
        <5>1. ASSUME v # t PROVE Unpublished(v) /\ new[v] = h
          BY <1>1, <4>1, <5>1, Alone DEF Hands, Unpublished
        <5> QED
          BY <2>2, <5>1 DEF InPut
      <4>3. CASE Plain(t) /\ PutInsert(t)
        BY <4>1, <4>2, <4>3, PlainFacts DEF Unpublished
      <4>4. CASE SPutReplace(t)
        BY <1>a, <4>1, <4>2, <4>4, Replaced DEF Unpublished, SPutReplace, TypeOK
      <4>5. CASE Reclaim(t)
        <5>1. UNCHANGED steps
          BY <4>5, AsideFrame DEF Aside
        <5> QED
          BY <2>2, <4>1, <5>1 DEF steps, args, Unpublished, InPut
      <4> QED
        BY <3>3, <4>3, <4>4, <4>5
    <3> QED
      BY <1>1, <3>1, <3>2, <3>3 DEF Quiet
  <2> QED
    BY <2>1, <2>2
<1>2. ASSUME TeardownStore \/ TeardownDomain PROVE Unseen'
  <2>1. \A u \in Threads : stage[u] = "gone" /\ stage'[u] = "gone" /\ ref'[u] = ref[u]
    BY <1>2, AllGone
  <2>2. \A u \in Threads : Seen(u)' = Seen(u)
    BY <2>1 DEF Seen
  <2>3. \A u \in Threads : pc'[u] = pc[u] /\ new'[u] = new[u]
    BY <1>2 DEF TeardownStore, TeardownDomain, table, steps, args
  <2> QED
    BY <2>2, <2>3 DEF Unseen, Unpublished
<1>3. CASE UNCHANGED svars
  BY <1>3 DEF svars, vars, args, counts, Unseen, Unpublished, Seen
<1>4. CASE \E t \in Threads : ActOf(t)
  <2>1. CASE SettledStep
    BY <1>1, <1>4, <1>d, <2>1
  <2> QED
    BY <1>3, <2>1
<1> QED
  BY <1>2, <1>3, <1>4, Steps

(***************************************************************************)
(* The invariant                                                           *)
(***************************************************************************)

\* At first nothing is owned, listed or protected.
LEMMA InitSInv == SInit => SInv
<1> SUFFICES ASSUME SInit PROVE SInv
  OBVIOUS
<1>a. /\ root = 1 /\ root \in Tables /\ TypeOK /\ \A i \in Tables : ~(i < root)
      /\ Content = {} /\ DOMAIN waits = {} /\ inside = {}
      /\ \A t \in Threads : new[t] = NULL /\ retired[t] = {} /\ pc[t] = "idle" /\ ref[t] = Unborn
                            /\ stage[t] = "run"
  <2>1. TypeOK
    BY InitIInv DEF SInit, IInv
  <2>2. Content = {}
    BY <2>1 DEF SInit, Init, Content, TypeOK
  <2>3. waits = [e \in {} |-> {}] /\ inside = {}
    BY DEF SInit, Grace!Init
  <2>4. DOMAIN waits = {}
    BY <2>3
  <2>5. root = 1 /\ root \in Tables /\ \A i \in Tables : ~(i < root)
    BY <2>1 DEF SInit, Init, TypeOK, Tables
  <2> QED
    BY <2>1, <2>2, <2>3, <2>4, <2>5 DEF SInit, Init
<1>1. STypeOK
  <2>1. /\ \A t \in Threads : ptrs[t][0] = NULL /\ ptrs[t][1] = NULL
        /\ ptrs \in [Threads -> [{0, 1} -> Handles \union Tables \union {NULL}]]
        /\ cand \in [Threads -> [ptr : Handles \union Tables \union {NULL}, frozen : BOOLEAN]]
    BY DEF SInit, NoEntry
  <2>2. /\ refcount \in [Handles -> Nat] /\ freed \in [Tables -> Nat]
        /\ ref \in [Threads -> Handles \union {NULL, Unborn}]
        /\ stage \in [Threads -> Stages] /\ leaving \in [Threads -> BOOLEAN]
        /\ retired \in [Threads -> SUBSET (Handles \union Tables)]
        /\ visit \in [Threads -> SUBSET (Threads \X {0, 1})]
        /\ active \in [Threads -> SUBSET (Handles \union Tables)]
        /\ smr \in {"hp", "ebr"} /\ phase = "open"
    BY DEF SInit, Stages
  <2> QED
    BY <1>a, <2>1, <2>2, EntryAssumption, DistinguishedValues DEF STypeOK, Grace!Retired
<1>2. AllStaged
  BY <1>a DEF SInit, AllStaged, Staged, Init
<1>3. \A h \in Handles : ~Owned(h) /\ Holders(h) = {}
  BY <1>a, RefAssumption DEF Owned, Unpublished, Holders
<1>4. RefcountExact
  <2>1. \A h \in Handles : Cardinality(Holders(h)) = 0 /\ refcount[h] = 0
    BY <1>3, FS_EmptySet DEF SInit
  <2> QED
    BY <1>3, <2>1 DEF RefcountExact, Holders
<1>5. OwnedOnce
  <2>1. \A k \in Keys : handle[root][k] = NULL
    BY <1>a DEF SInit, Init
  <2> QED
    BY <1>a, <2>1, DistinguishedValues DEF OwnedOnce, SoleOwner, Unpublished, InStore, InPut, Listed
<1>6. FreshUncounted
  BY DEF SInit, Init, FreshUncounted
<1>7. TablesOnce
  BY <1>a DEF SInit, TablesOnce, Listed, GivenUp
<1>8. Deferred /\ HandlesGuarded /\ TablesGuarded
  BY <1>a DEF SInit, Deferred, HandlesGuarded, TablesGuarded, Grace!Retired
<1>9. Unseen
  BY <1>a DEF Unseen, Unpublished
<1> QED
  BY <1>1, <1>2, <1>4, <1>5, <1>6, <1>7, <1>8, <1>9 DEF SInv

\* Every step keeps both invariants.
LEMMA NextSInv == ASSUME IInv, SInv, [SettledStep]_svars PROVE IInv' /\ SInv'
<1>1. /\ STypeOK /\ AllStaged /\ OwnedOnce /\ RefcountExact /\ FreshUncounted
      /\ TablesOnce /\ Deferred /\ HandlesGuarded /\ TablesGuarded /\ Unseen
  BY DEF SInv
<1>2. IInv'
  BY <1>1, StoreSteps, StepIInv
<1>3. STypeOK' /\ AllStaged'
  BY <1>1, StoreTypes, StagedStep
<1>4. OwnedOnce' /\ RefcountExact' /\ FreshUncounted'
  BY <1>1, BalanceStep
<1>5. TablesOnce' /\ Deferred'
  BY <1>1, TablesStep, DeferredStep
<1>6. HandlesGuarded'
  BY <1>1, <1>5, HandlesStep
<1>7. TablesGuarded'
  BY <1>1, <1>5, GuardStep
<1>8. Unseen'
  BY <1>1, UnseenStep
<1> QED
  BY <1>2, <1>3, <1>4, <1>5, <1>6, <1>7, <1>8 DEF SInv

\* The inductive invariants of the table and of what is reclaimed around it: a
\* handle has one owner, a table one moment at which it is given up, and what a
\* call has found is protected by a hazard that no scan under way has missed,
\* or by the call's critical section.  RefcountExact alone says nothing of the
\* scans, and TablesSafe nothing of who will free a table next.
THEOREM StoreInductive == SettledSpec => [](IInv /\ SInv)
<1>1. SInit => IInv /\ SInv
  BY InitIInv, InitSInv DEF SInit
<1>2. IInv /\ SInv /\ [SettledStep]_svars => (IInv /\ SInv)'
  BY NextSInv
<1> QED
  BY <1>1, <1>2, PTL DEF SettledSpec, SettledStep

\* The count of a handle (object_handle::refcount) is the number of references
\* to it, plus one while the store owns it: no migration, replacement, scan or
\* teardown counts or drops a handle twice, or forgets one.
THEOREM StoreCounts == SettledSpec => []RefcountExact
<1>1. SInv => RefcountExact
  BY DEF SInv
<1> QED
  BY <1>1, StoreInductive, PTL

\* get counts a handle that still exists (hp_store.cpp: protect and incref;
\* ebr_store.cpp: the critical section), and what a reference holds exists.
THEOREM StoreMemorySafe == SettledSpec => []NoUseAfterFree
<1>1. SInv => NoUseAfterFree
  <2> SUFFICES ASSUME SInv PROVE NoUseAfterFree
    OBVIOUS
  <2>1. ASSUME NEW t \in Threads, stage[t] = "incref" PROVE refcount[result[t]] > 0
    <3>1. PICK h \in Handles : h = result[t]
      BY <2>1 DEF SInv, AllStaged, Staged
    <3>2. Owned(h)
      BY <2>1, <3>1 DEF SInv, HandlesGuarded
    <3> QED
      BY <3>1, <3>2, Counted DEF SInv
  <2>2. ASSUME NEW t \in Threads, ref[t] \in Handles PROVE refcount[ref[t]] > 0
    BY <2>2, Counted DEF SInv
  <2> QED
    BY <2>1, <2>2 DEF NoUseAfterFree
<1> QED
  BY <1>1, StoreInductive, PTL

\* No call works on a table that a scan has freed under it, and no helper fills
\* a successor that has been freed (acquire_table, try_complete_resize,
\* scan_and_reclaim).
THEOREM TablesStaySafe == SettledSpec => []TablesSafe
<1>1. IInv /\ SInv => TablesSafe
  <2> SUFFICES ASSUME IInv, SInv, NEW t \in Threads, pc[t] \notin {"idle", "table"}
               PROVE  /\ freed[tbl[t]] = 0
                      /\ pc[t] \in {"freeze", "seal", "copy", "tally"} =>
                           freed[tbl[t] + 1] = 0
    BY DEF TablesSafe
  <2>1. freed[tbl[t]] = 0
    BY DEF SInv, TablesGuarded
  <2>2. ASSUME pc[t] \in {"freeze", "seal", "copy", "tally"} PROVE freed[tbl[t] + 1] = 0
    <3>1. tbl[t] = root /\ root + 1 \in Tables /\ root \in Tables
      BY <2>2, InChunk DEF IInv, Busy
    <3>4. root \in Nat
      BY <3>1 DEF Tables
    <3>2. phase = "open"
      BY DEF SInv, AllStaged, Staged
    <3>3. ~GivenUp(root + 1)
      BY <3>1, <3>4, <3>2 DEF GivenUp
    <3> QED
      BY <3>1, <3>3 DEF SInv, TablesOnce
  <2> QED
    BY <2>1, <2>2
<1> QED
  BY <1>1, StoreInductive, PTL

\* Every table is freed once, a successor that was never completed included, and
\* when the domain is gone only what a client holds is left (~object_store,
\* ~domain).
THEOREM NothingStays == SettledSpec => []NothingLeaked
<1>1. IInv /\ SInv => NothingLeaked
  <2> SUFFICES ASSUME IInv, SInv PROVE NothingLeaked
    OBVIOUS
  <2>a. root \in Tables /\ root \in Nat /\ TypeOK /\ Chunks /\ Tables = 1..MaxTables
    BY DEF IInv, TypeOK, Tables
  <2>1. \A i \in Tables : freed[i] = IF GivenUp(i) /\ ~Listed(i) THEN 1 ELSE 0
    BY DEF SInv, TablesOnce
  <2>2. ASSUME phase = "domain_reset"
        PROVE  /\ \A i \in 1..root : freed[i] = 1
               /\ resizing[root] => freed[root + 1] = 1
               /\ \A h \in Handles : refcount[h] > 0 => \E t \in Threads : ref[t] = h
    <3>1. \A t \in Threads : retired[t] = {} /\ pc[t] = "idle" /\ new[t] = NULL
      BY <2>2 DEF SInv, Deferred, AllStaged, Staged, IInv, Locals, Local
    <3>2. \A i \in Tables : i <= root \/ (i = root + 1 /\ resizing[root]) => freed[i] = 1
      BY <2>a, <2>1, <2>2, <3>1 DEF Listed, GivenUp, LastTables
    <3>3. ASSUME NEW h \in Handles, refcount[h] > 0 PROVE \E t \in Threads : ref[t] = h
      <4>1. ~Owned(h)
        BY <2>2, <3>1 DEF Owned, Unpublished
      <4>2. refcount[h] = Cardinality(Holders(h))
        BY <4>1, Counted, FewHolders DEF SInv
      <4>3. Holders(h) # {}
        BY <3>3, <4>2, FS_EmptySet
      <4> QED
        BY <4>3 DEF Holders
    <3>4. resizing[root] => root + 1 \in Tables
      BY <2>a DEF Chunks
    <3>5. \A i \in 1..root : i \in Tables
      BY <2>a, TableAssumption
    <3> QED
      BY <2>a, <3>2, <3>3, <3>4, <3>5
  <2>3. \A i \in Tables : freed[i] <= 1
    BY <2>1
  <2> QED
    BY <2>2, <2>3 DEF NothingLeaked
<1> QED
  BY <1>1, StoreInductive, PTL

(***************************************************************************)
(* Refinement of the object store                                          *)
(***************************************************************************)

\* Everything a client can reach exists.
LEMMA NoneDangling ==
  SInv => \A h \in Handles : Store!Reachable(h) => h \in AliveBar
<1> SUFFICES ASSUME SInv, NEW h \in Handles, Store!Reachable(h) PROVE h \in AliveBar
  OBVIOUS
<1>1. SoleOwner(h)
  BY DEF SInv, OwnedOnce
<1>2. CASE \E k \in Keys : StoreBar[k] = h
  <2>1. InStore(h)
    BY <1>2, DistinguishedValues, Ownership DEF StoreBar, OwnsBy, KeyOf
  <2>2. refcount[h] > 0
    BY <2>1, Counted DEF SInv, Owned, InStore
  <2> QED
    BY <1>1, <2>1, <2>2 DEF AliveBar, SoleOwner, InPut
<1>3. CASE \E u \in Threads : RefBar[u] = h
  <2>1. PICK u \in Threads : Seen(u) = h
    BY <1>3 DEF RefBar
  <2>2. refcount[h] > 0
    BY <2>1, SeenCounts DEF SInv
  <2> QED
    BY <2>1, <2>2 DEF AliveBar, SInv, Unseen
<1> QED
  BY <1>2, <1>3 DEF Store!Reachable

\* Nor less after a step: what it destroys cannot be reached.
LEMMA NoneDanglingNext ==
  (SInv => \A h \in Handles : Store!Reachable(h) => h \in AliveBar)'
BY NoneDangling, PTL

\* So a step that only takes handles away takes none that is needed.
LEMMA Unreached == ASSUME SInv', AliveBar' \subseteq AliveBar PROVE Store!Collects
<1>1. \A h \in AliveBar \ AliveBar' : h \in Handles
  BY DEF AliveBar
<1> QED
  BY <1>1, NoneDanglingNext DEF Store!Collects

\* The handles that exist for the clients, after a step that changes no count
\* from or to zero and no put's hold.
LEMMA AliveStays ==
  ASSUME \A h \in Handles : /\ refcount'[h] > 0 <=> refcount[h] > 0
                            /\ InPut(h)' <=> InPut(h)
  PROVE  AliveBar' = AliveBar
BY DEF AliveBar, InPut

\* The handles that puts hold.
LEMMA PutsHold ==
  ASSUME STypeOK, IInv, AllStaged, OwnedOnce, NEW t \in Threads, ActOf(t), NEW h \in Handles
  PROVE  /\ Quiet(t) \/ Reclaim(t) => (InPut(h)' <=> InPut(h))
         /\ (Plain(t) /\ PutInsert(t)) \/ SPutReplace(t) =>
              /\ new[t] \in Handles /\ InPut(new[t])
              /\ InPut(h)' <=> InPut(h) /\ h # new[t]
<1>a. TypeOK
  BY DEF STypeOK
<1>b. \A v \in Threads \ {t} : Unpublished(v)' /\ new'[v] = h <=> Unpublished(v) /\ new[v] = h
  BY Alone DEF Hands, Unpublished
<1>1. CASE Quiet(t)
  <2>1. ~(Plain(t) /\ PutInsert(t)) /\ ~SPutReplace(t)
    BY <1>1 DEF Quiet
  <2> QED
    BY <1>1, <2>1, QuietOwners, OwnedStay
<1>2. CASE Reclaim(t)
  <2>1. UNCHANGED steps /\ pc[t] \in {"idle", "table"}
    BY <1>2, AsideFrame DEF Aside, AllStaged, Staged, Reclaim
  <2>2. ~(Plain(t) /\ PutInsert(t)) /\ ~SPutReplace(t)
    BY <2>1 DEF PutInsert, SPutReplace, PutReplace
  <2> QED
    BY <2>1, <2>2 DEF steps, args, Unpublished, InPut
<1>3. CASE (Plain(t) /\ PutInsert(t)) \/ SPutReplace(t)
  <2>1. /\ new[t] \in Handles /\ Unpublished(t) /\ ~Unpublished(t)'
    <3>1. CASE Plain(t) /\ PutInsert(t)
      BY <3>1, PutInsertFacts, PlainFacts, DistinguishedValues DEF Unpublished
    <3>2. CASE SPutReplace(t)
      BY <1>a, <3>2, Replaced, DistinguishedValues DEF SPutReplace, Unpublished, TypeOK
    <3> QED
      BY <1>3, <3>1, <3>2
  <2>2. \A v \in Threads : Unpublished(v) /\ new[v] = new[t] => v = t
    BY <2>1 DEF OwnedOnce, SoleOwner
  <2>3. InPut(new[t]) /\ (InPut(h)' <=> InPut(h) /\ h # new[t])
    BY <1>b, <2>1, <2>2 DEF InPut
  <2>4. ~Quiet(t)
    BY <1>3 DEF Quiet
  <2>5. ~Reclaim(t)
    BY <1>3, Replaced, PlainFacts DEF Reclaim, AllStaged, Staged, SPutReplace
  <2> QED
    BY <2>1, <2>3, <2>4, <2>5
<1>4. CASE ~Quiet(t) /\ ~Reclaim(t) /\ ~((Plain(t) /\ PutInsert(t)) \/ SPutReplace(t))
  BY <1>4
<1> QED
  BY <1>1, <1>2, <1>3, <1>4

\* A handle is dropped: what exists after that existed before.
LEMMA AliveDrops ==
  ASSUME STypeOK, NEW E, FreeAll(E), \A h \in Handles : InPut(h)' <=> InPut(h)
  PROVE  AliveBar' \subseteq AliveBar
<1>1. \A h \in Handles : refcount'[h] > 0 => refcount[h] > 0
  BY DEF FreeAll, DropAll, STypeOK
<1> QED
  BY <1>1 DEF AliveBar, InPut

\* What the clients see of the content of the store changes with a put only.
LEMMA StoreStays ==
  ASSUME STypeOK, IInv, NEW t \in Threads, ActOf(t), ~(Plain(t) /\ PutInsert(t)), ~SPutReplace(t)
  PROVE  StoreBar' = StoreBar
BY ValuesStay, Alone DEF StoreBar

\* What the references hold, from thread to thread.
LEMMA RefStays ==
  ASSUME \A u \in Threads : Seen(u)' = Seen(u) PROVE RefBar' = RefBar
BY DEF RefBar

\* One reference changes.
LEMMA RefChanges ==
  ASSUME NEW t \in Threads, \A u \in Threads \ {t} : Seen(u)' = Seen(u), NEW v, Seen(t)' = v
  PROVE  RefBar' = [RefBar EXCEPT ![t] = v]
BY DEF RefBar

\* A get takes effect when it reads the handle, or finds no node.
LEMMA ReadGets ==
  ASSUME STypeOK, IInv, AllStaged, OwnedOnce, SettledStep, NEW t \in Threads, ActOf(t), Reads(t)
  PROVE  \E k \in Keys : Store!Get(t, k)
<1>1. PICK k \in Keys : Seen(t)' = Value(k)
  BY DEF Reads
<1>2. /\ Quiet(t) /\ Seen(t) = Unborn /\ refcount' = refcount
      /\ phase = "open" /\ phase' = "open"
  BY Alone DEF Reads
<1>3. StoreBar' = StoreBar
  BY <1>2, StoreStays DEF Quiet
<1>4. AliveBar' = AliveBar
  BY <1>2, AliveStays, PutsHold
<1>5. RefBar' = [RefBar EXCEPT ![t] = StoreBar[k]]
  <2>1. \A u \in Threads \ {t} : Seen(u)' = Seen(u)
    BY SeenSteps
  <2>2. StoreBar[k] = Value(k)
    BY <1>2 DEF StoreBar
  <2> QED
    BY <1>1, <2>1, <2>2, RefChanges
<1>6. RefBar[t] = Unborn
  BY <1>2 DEF RefBar
<1> QED
  BY <1>2, <1>3, <1>4, <1>5, <1>6 DEF Store!Get

\* A put takes effect with its exchange, of the handle or of the bucket's head.
LEMMA ExchangePuts ==
  ASSUME STypeOK, IInv, AllStaged, OwnedOnce, RefcountExact, SettledStep, NEW t \in Threads,
         (Plain(t) /\ PutInsert(t)) \/ SPutReplace(t)
  PROVE  \E k \in Keys, h \in Handles : Store!Put(k, h)
<1>a. ActOf(t) /\ Staged(t) /\ phase' = phase
  BY Alone DEF ActOf, AllStaged
<1>1. PutInsert(t) \/ PutReplace(t)
  BY DEF SPutReplace
<1>2. phase = "open"
  BY <1>a, <1>1 DEF PutInsert, PutReplace, Staged, Plain, SPutReplace, Running
<1>3. PICK x \in Keys : \A k \in Keys : Value(k)' = IF k = x THEN new[t] ELSE Value(k)
  <2>1. key[t] \in Keys /\ \A k \in Keys : Value(k)' = IF k = key[t] THEN new[t] ELSE Value(k)
    BY <1>1, PutChanges
  <2> QED
    BY <2>1
<1>4. PICK h \in Handles : /\ h = new[t] /\ InPut(h)
                            /\ \A g \in Handles : InPut(g)' <=> InPut(g) /\ g # h
  <2>1. \A g \in Handles : /\ new[t] \in Handles /\ InPut(new[t])
                           /\ InPut(g)' <=> InPut(g) /\ g # new[t]
    BY <1>a, PutsHold
  <2>2. new[t] \in Handles
    BY <1>1, Replaced, PutInsertFacts
  <2> QED
    BY <2>1, <2>2
<1>5. StoreBar' = [StoreBar EXCEPT ![x] = h]
  BY <1>a, <1>2, <1>3, <1>4 DEF StoreBar
<1>6. refcount' = refcount /\ ref' = ref
  BY DEF Plain, SPutReplace, counts
<1>7. RefBar' = RefBar
  <2>1. ~Reads(t)
    BY DEF Reads, Quiet
  <2>2. ~Close(t)
    <3>1. Close(t) => ref'[t] # ref[t]
      BY DEF Close, STypeOK
    <3> QED
      BY <1>6, <3>1
  <2> QED
    BY <1>a, <2>1, <2>2, SeenSteps, RefStays
<1>8. refcount[h] > 0
  BY <1>4, Counted DEF Owned, InPut
<1>9. h \notin AliveBar /\ AliveBar' = AliveBar \union {h}
  BY <1>4, <1>6, <1>8 DEF AliveBar, InPut
<1> QED
  BY <1>a, <1>2, <1>5, <1>7, <1>9 DEF Store!Put

\* A put that begins is not visible: its handle is nobody's yet.
LEMMA BeginsUnseen ==
  ASSUME STypeOK, IInv, AllStaged, RefcountExact, FreshUncounted, SettledStep, NEW t \in Threads,
         SPutCall(t)
  PROVE  StoreBar' = StoreBar /\ AliveBar' = AliveBar /\ RefBar' = RefBar /\ phase' = phase
<1>a. TypeOK /\ ActOf(t) /\ Local(t)
  BY DEF STypeOK, ActOf, IInv, Locals
<1>1. PICK h \in fresh : PutWith(t, h) /\ refcount' = [refcount EXCEPT ![h] = 1]
  BY DEF SPutCall
<1>2. /\ h \in Handles /\ refcount[h] = 0 /\ pc[t] = "idle" /\ new[t] = NULL
      /\ new'[t] = h /\ pc'[t] = "table" /\ h # NULL
  BY <1>a, <1>1, DistinguishedValues DEF PutWith, Goto, TypeOK, FreshUncounted, Local
<1>3. \A v \in Threads \ {t} : new'[v] = new[v] /\ pc'[v] = pc[v]
  BY <1>a, Alone DEF Hands
<1>4. ASSUME NEW g \in Handles PROVE InPut(g)' <=> InPut(g) \/ g = h
  BY <1>2, <1>3 DEF InPut, Unpublished
<1>5. \A g \in Handles : g # h => refcount'[g] = refcount[g]
  BY <1>1, <1>2 DEF STypeOK
<1>6. AliveBar' = AliveBar
  BY <1>2, <1>4, <1>5 DEF AliveBar, InPut
<1>7. ~(Plain(t) /\ PutInsert(t)) /\ ~SPutReplace(t) /\ ~Reads(t)
  BY <1>2 DEF PutInsert, SPutReplace, PutReplace, Reads, Quiet
<1>8. ~Close(t)
  <2>1. Close(t) => ref'[t] # ref[t]
    BY DEF Close, STypeOK
  <2> QED
    BY <2>1 DEF SPutCall
<1>9. RefBar' = RefBar
  BY <1>a, <1>7, <1>8, SeenSteps, RefStays
<1> QED
  BY <1>a, <1>6, <1>7, <1>9, StoreStays, Alone

\* A reference ends.
LEMMA CloseCloses ==
  ASSUME STypeOK, IInv, AllStaged, OwnedOnce, SInv', SettledStep, NEW t \in Threads, Close(t)
  PROVE  Store!Close(t)
<1>a. /\ ActOf(t) /\ Staged(t) /\ FreeAll({ref[t]}) /\ ref[t] # Unborn /\ ref'[t] = Unborn
      /\ UNCHANGED <<steps, phase>>
  BY AsideFrame DEF ActOf, Close, AllStaged, STypeOK, Aside
<1>1. \A h \in Handles : InPut(h)' <=> InPut(h)
  BY <1>a DEF steps, args, InPut, Unpublished
<1>2. Store!Collects
  BY <1>a, <1>1, AliveDrops, Unreached
<1>3. StoreBar' = StoreBar
  BY <1>a, Alone DEF steps, nodes, StoreBar, Value
<1>4. stage[t] # "incref" /\ stage' = stage
  BY <1>a DEF Staged, Close
<1>5. Seen(t)' = Unborn /\ RefBar[t] # Unborn /\ \A u \in Threads \ {t} : Seen(u)' = Seen(u)
  BY <1>a, <1>4, SeenSteps DEF Seen, RefBar
<1>6. RefBar' = [RefBar EXCEPT ![t] = Unborn]
  BY <1>5, RefChanges
<1> QED
  BY <1>a, <1>2, <1>3, <1>5, <1>6 DEF Store!Close

\* A scan destroys what nobody can reach.
LEMMA ReclaimDestroys ==
  ASSUME STypeOK, IInv, AllStaged, OwnedOnce, SInv', SettledStep, NEW t \in Threads, Reclaim(t)
  PROVE  Store!Destroy
<1>a. /\ ActOf(t) /\ UNCHANGED <<steps, phase>>
      /\ ref' = ref /\ stage' = stage /\ result' = result
  BY AsideFrame DEF ActOf, Reclaim, Aside, table
<1>1. PICK e : FreeAll({e})
  BY DEF Reclaim
<1>2. \A h \in Handles : InPut(h)' <=> InPut(h)
  BY <1>a DEF steps, args, InPut, Unpublished
<1>3. Store!Collects
  BY <1>1, <1>2, AliveDrops, Unreached
<1>4. StoreBar' = StoreBar /\ RefBar' = RefBar
  BY <1>a, Alone DEF steps, nodes, StoreBar, Value, RefBar, Seen
<1> QED
  BY <1>a, <1>3, <1>4 DEF Store!Destroy

\* So do the destructors of the store and of the domain.
LEMMA TeardownShutsDown ==
  ASSUME STypeOK, IInv, AllStaged, SInv', TeardownStore \/ TeardownDomain
  PROVE  /\ TeardownStore => Store!Shutdown
         /\ TeardownDomain => Store!Destroy
<1>1. UNCHANGED <<table, ref, stage>> /\ phase' # "open" /\ \E E : FreeAll(E)
  BY DEF TeardownStore, TeardownDomain
<1>2. \A h \in Handles : InPut(h)' <=> InPut(h)
  BY <1>1 DEF table, steps, args, InPut, Unpublished
<1>3. Store!Collects
  BY <1>1, <1>2, AliveDrops, Unreached
<1>4. StoreBar' = [k \in Keys |-> NULL] /\ RefBar' = RefBar
  BY <1>1 DEF table, StoreBar, RefBar, Seen
<1>5. TeardownStore => phase = "open"
  BY DEF TeardownStore
<1>6. TeardownDomain => phase # "open" /\ StoreBar = [k \in Keys |-> NULL]
  BY DEF TeardownDomain, StoreBar
<1> QED
  BY <1>1, <1>3, <1>4, <1>5, <1>6 DEF Store!Shutdown, Store!Destroy

\* Of the other steps the clients see nothing.
LEMMA OthersUnseen ==
  ASSUME STypeOK, IInv, AllStaged, OwnedOnce, RefcountExact, HandlesGuarded, SettledStep,
         NEW t \in Threads, Quiet(t), ~Close(t), ~Reads(t)
  PROVE  StoreBar' = StoreBar /\ AliveBar' = AliveBar /\ RefBar' = RefBar /\ phase' = phase
<1>a. ActOf(t) /\ ~(Plain(t) /\ PutInsert(t)) /\ ~SPutReplace(t)
  BY DEF Quiet
<1>1. RefBar' = RefBar
  BY <1>a, SeenSteps, RefStays
<1>2. \A h \in Handles : InPut(h)' <=> InPut(h)
  BY <1>a, PutsHold
<1>3. \A h \in Handles : refcount'[h] > 0 <=> refcount[h] > 0
  <2>1. CASE Incref(t)
    <3>1. PICK g \in Handles : g = result[t] /\ stage[t] = "incref"
      BY <2>1 DEF Incref, AllStaged, Staged
    <3>2. refcount[g] > 0
      BY <3>1, SeenCounts DEF Seen
    <3>3. refcount' = [refcount EXCEPT ![g] = @ + 1]
      BY <2>1, <3>1 DEF Incref
    <3> QED
      BY <3>2, <3>3 DEF STypeOK
  <2>2. CASE ~Incref(t)
    <3>1. refcount' = refcount
      BY <2>2 DEF Quiet, ActOf, SGetCall, Plain, SGetBucket, TakeTable, ProtectLoad,
         ProtectPublish, ProtectRetry, ProtectValidate, ReadInside, Unprotect, STryComplete, Leave,
         BeginWalk, ReadHazard, EndScan, Exit, counts
    <3> QED
      BY <3>1
  <2> QED
    BY <2>1, <2>2
<1> QED
  BY <1>a, <1>1, <1>2, <1>3, AliveStays, StoreStays, Alone

\* The initial states are mapped to the initial state.
LEMMA StoreInit == SInit => Store!Init
<1> SUFFICES ASSUME SInit PROVE Store!Init
  OBVIOUS
<1>1. StoreBar = [k \in Keys |-> NULL]
  BY TableAssumption DEF SInit, Init, StoreBar, Value, Tables
<1>2. RefBar = [t \in Threads |-> Unborn]
  BY DEF SInit, RefBar, Seen
<1>3. AliveBar = {}
  BY DEF SInit, AliveBar
<1>4. phase = "open"
  BY DEF SInit
<1> QED
  BY <1>1, <1>2, <1>3, <1>4 DEF Store!Init

\* And every step to a step or to none.
LEMMA StoreStep ==
  IInv /\ SInv /\ SInv' /\ [SettledStep]_svars => [Store!Next]_(Store!vars)
<1> SUFFICES ASSUME IInv, SInv, SInv', [SettledStep]_svars PROVE [Store!Next]_(Store!vars)
  OBVIOUS
<1>a. /\ STypeOK /\ AllStaged /\ OwnedOnce /\ RefcountExact /\ FreshUncounted
      /\ HandlesGuarded
  BY DEF SInv
<1>1. ASSUME NEW t \in Threads, ActOf(t), SettledStep PROVE [Store!Next]_(Store!vars)
  <2>1. CASE Reads(t)
    BY <1>a, <1>1, <2>1, ReadGets DEF Store!Next
  <2>2. CASE (Plain(t) /\ PutInsert(t)) \/ SPutReplace(t)
    BY <1>a, <1>1, <2>2, ExchangePuts DEF Store!Next
  <2>3. CASE SPutCall(t)
    BY <1>a, <1>1, <2>3, BeginsUnseen DEF Store!vars
  <2>4. CASE Close(t)
    BY <1>a, <1>1, <2>4, CloseCloses DEF Store!Next
  <2>5. CASE Reclaim(t)
    BY <1>a, <1>1, <2>5, ReclaimDestroys DEF Store!Next
  <2>6. CASE Quiet(t) /\ ~Close(t) /\ ~Reads(t)
    BY <1>a, <1>1, <2>6, OthersUnseen DEF Store!vars
  <2> QED
    BY <1>1, <2>1, <2>2, <2>3, <2>4, <2>5, <2>6 DEF Quiet
<1>2. CASE TeardownStore \/ TeardownDomain
  BY <1>a, <1>2, TeardownShutsDown DEF Store!Next
<1>3. CASE UNCHANGED svars
  BY <1>3 DEF svars, vars, nodes, args, counts, Store!vars, StoreBar, Value, RefBar, Seen, AliveBar,
     Unpublished
<1> QED
  BY <1>1, <1>2, <1>3, Steps

\* Both table stores are linearizable object stores: a get takes effect when it
\* reads the handle, a put with its exchange, and no migration, scan or teardown
\* is visible, or destroys what a client can reach.
THEOREM StoreRefinement == SettledSpec => ImplementsObjectStore
<1>1. SInit => IInv /\ SInv
  BY InitIInv, InitSInv DEF SInit
<1>2. IInv /\ SInv /\ [SettledStep]_svars => (IInv /\ SInv)'
  BY NextSInv
<1> QED
  BY <1>1, <1>2, StoreInit, StoreStep, PTL
  DEF SettledSpec, SettledStep, ImplementsObjectStore, Store!Spec

=============================================================================
