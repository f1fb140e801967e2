-------------------------- MODULE SlotTable_proofs --------------------------
(***************************************************************************)
(* The slot table hands a slot to one thread at a time and its walks miss  *)
(* no slot, for any number of threads and any chunk size.                  *)
(***************************************************************************)
EXTENDS SlotTable, TLAPS

\* Where the program counters put the cursors.
InChunk == {"limit", "probe", "claim", "index", "mark", "bump", "held"}

LEMMA Cursors ==
    ASSUME SInv, NEW t \in Threads
    PROVE  /\ pc[t] \in InChunk => cur[t] \in Chunks /\ used[cur[t]] \in 1..ChunkSize
           /\ pc[t] \in {"claim", "mark", "bump", "held"} => Slot(t) \in Slots
           /\ pc[t] = "probe" /\ idx[t] < lim[t] => Slot(t) \in Slots
<1> USE SizeAssumption DEF SInv, TypeOK, Positions, Position
<1>1. ASSUME pc[t] \in InChunk PROVE cur[t] \in Chunks /\ used[cur[t]] \in 1..ChunkSize
  <2>1. cur[t] > 0 /\ cur[t] <= head /\ cur[t] \in 0..MaxChunks
    BY <1>1 DEF InChunk
  <2>2. cur[t] \in Chunks
    BY <2>1 DEF Chunks
  <2>3. used[cur[t]] \in 0..ChunkSize /\ used[cur[t]] > 0
    BY <2>1, <2>2
  <2> QED
    BY <2>2, <2>3
<1>2. ASSUME cur[t] \in Chunks, idx[t] < ChunkSize PROVE Slot(t) \in Slots
  <2>1. idx[t] \in Index
    BY <1>2 DEF Index
  <2> QED
    BY <1>2, <2>1 DEF Slot, Slots
<1>3. ASSUME pc[t] = "claim" PROVE idx[t] < ChunkSize
  BY <1>1, <1>3 DEF InChunk
<1>4. ASSUME pc[t] = "held" PROVE idx[t] < ChunkSize
  BY <1>1, <1>4 DEF InChunk
<1>5. ASSUME pc[t] \in {"mark", "bump"} PROVE idx[t] < ChunkSize
  BY <1>5
<1>6. ASSUME pc[t] = "probe", idx[t] < lim[t] PROVE idx[t] < ChunkSize
  BY <1>1, <1>6 DEF InChunk
<1> QED
  BY <1>1, <1>2, <1>3, <1>4, <1>5, <1>6 DEF InChunk

LEMMA HeldSlots == SInv => Held \subseteq Slots
  BY Cursors DEF Held

LEMMA ScanCursors ==
    ASSUME SInv, NEW u \in Scanners
    PROVE  /\ spc[u] \in {"limit", "visit"} =>
                 scur[u] \in Chunks /\ used[scur[u]] \in 1..ChunkSize
           /\ spc[u] = "visit" /\ sidx[u] < slim[u] => <<scur[u], sidx[u]>> \in Slots
<1> USE SizeAssumption DEF SInv, TypeOK, Positions, Position
<1>1. ASSUME spc[u] \in {"limit", "visit"}
      PROVE  scur[u] \in Chunks /\ used[scur[u]] \in 1..ChunkSize
  <2>1. scur[u] \in 1..head
    BY <1>1 DEF WalkInv
  <2>2. scur[u] \in Chunks
    BY <2>1 DEF Chunks
  <2>3. used[scur[u]] \in 0..ChunkSize /\ used[scur[u]] > 0
    BY <2>1, <2>2
  <2> QED
    BY <2>2, <2>3
<1>2. ASSUME spc[u] = "visit", sidx[u] < slim[u] PROVE <<scur[u], sidx[u]>> \in Slots
  <2>1. scur[u] \in Chunks /\ used[scur[u]] \in 1..ChunkSize
    BY <1>1, <1>2
  <2>2. slim[u] <= used[scur[u]]
    BY <1>2 DEF WalkInv
  <2>3. sidx[u] \in Index
    BY <1>2, <2>1, <2>2 DEF Index
  <2> QED
    BY <2>1, <2>3 DEF Slots
<1> QED
  BY <1>1, <1>2

LEMMA TypeStep == SInv /\ [Next]_vars => TypeOK'
<1> SUFFICES ASSUME SInv, [Next]_vars PROVE TypeOK'
  OBVIOUS
<1> USE SizeAssumption DEF TypeOK
<1>0. TypeOK
  BY DEF SInv
<1>1. ASSUME NEW t \in Threads, Acquiring(t) PROVE TypeOK'
  <2> USE <1>0 DEF table, locals, walks
  <2>1. CASE LoadHead(t)
    BY <2>1 DEF LoadHead
  <2>2. CASE LoadUsed(t)
    <3>1. used[cur[t]] \in 0..ChunkSize
      BY <2>2, Cursors DEF LoadUsed, InChunk
    <3> QED
      BY <2>2, <3>1 DEF LoadUsed
  <2>3. CASE Probe(t)
    <3>1. idx[t] + 1 \in 0..ChunkSize
      BY <2>3 DEF Probe
    <3> QED
      BY <2>3, <3>1 DEF Probe
  <2>4. CASE NextChunk(t)
    <3>1. cur[t] - 1 \in 0..MaxChunks
      BY <2>4, Cursors DEF NextChunk, InChunk, Chunks
    <3> QED
      BY <2>4, <3>1 DEF NextChunk
  <2>5. CASE Claim(t)
    <3>1. idx[t] < lim[t]
      BY <2>5 DEF Claim, SInv, Positions, Position
    <3>2. idx[t] + 1 \in 0..ChunkSize
      BY <3>1
    <3>3. CASE active[Slot(t)]
      BY <2>5, <3>2, <3>3 DEF Claim
    <3>4. CASE ~active[Slot(t)]
      <4>1. active' \in [Slots -> BOOLEAN] /\ garbage' \in [Slots -> BOOLEAN]
        BY <2>5, <3>4 DEF Claim
      <4>2. lim' \in [Threads -> 0..ChunkSize]
        BY <2>5, <3>4 DEF Claim
      <4> QED
        BY <2>5, <3>4, <4>1, <4>2 DEF Claim
    <3> QED
      BY <3>3, <3>4
  <2>6. CASE AppendHead(t)
    BY <2>6 DEF AppendHead
  <2>7. CASE AppendIndex(t)
    <3>1. used[cur[t]] \in 0..ChunkSize
      BY <2>7, Cursors DEF AppendIndex, InChunk
    <3> QED
      BY <2>7, <3>1 DEF AppendIndex, TryIndex
  <2>8. CASE Mark(t)
    BY <2>8 DEF Mark
  <2>9. CASE Bump(t)
    <3>1. used[cur[t]] + 1 \in 0..ChunkSize
      <4>1. used[cur[t]] \in 0..ChunkSize /\ idx[t] < ChunkSize
        BY <2>9, Cursors DEF Bump, InChunk, SInv, Positions, Position
      <4> QED
        BY <2>9, <4>1 DEF Bump
    <3> QED
      BY <2>9, <3>1 DEF Bump
  <2>10. CASE BumpFails(t)
    <3>1. used[cur[t]] \in 0..ChunkSize
      BY <2>10, Cursors DEF BumpFails, InChunk
    <3> QED
      BY <2>10, <3>1 DEF BumpFails, TryIndex
  <2>11. CASE Push(t)
    <3>1. head + 1 \in 0..MaxChunks /\ 1 \in 0..ChunkSize
      BY <2>11 DEF Push
    <3>2. used' \in [Chunks -> 0..ChunkSize] /\ active' \in [Slots -> BOOLEAN]
      BY <2>11, <3>1 DEF Push
    <3>3. idx' \in [Threads -> 0..ChunkSize] /\ cur' \in [Threads -> 0..MaxChunks]
      BY <2>11, <3>1 DEF Push
    <3> QED
      BY <2>11, <3>1, <3>2, <3>3 DEF Push
  <2>12. CASE PushFails(t)
    BY <2>12 DEF PushFails
  <2> QED
    BY <1>1, <2>1, <2>2, <2>3, <2>4, <2>5, <2>6, <2>7, <2>8, <2>9, <2>10, <2>11, <2>12
    DEF Acquiring
<1>2. ASSUME NEW t \in Threads, Release(t) PROVE TypeOK'
  <2>1. PICK g \in BOOLEAN : garbage' = [garbage EXCEPT ![Slot(t)] = g]
    BY <1>2 DEF Release
  <2>2. active' \in [Slots -> BOOLEAN] /\ garbage' \in [Slots -> BOOLEAN]
    BY <1>0, <1>2, <2>1 DEF Release
  <2>3. due' \in [Scanners -> SUBSET Slots]
    BY <1>0, <1>2 DEF Release
  <2> QED
    BY <1>0, <1>2, <2>2, <2>3 DEF Release
<1>3. ASSUME NEW u \in Scanners, Scanning(u) PROVE TypeOK'
  <2> USE <1>0 DEF table, locals
  <2>1. CASE ScanBegin(u)
    BY <2>1, HeldSlots DEF ScanBegin, WalkTo
  <2>2. CASE ScanUsed(u)
    <3>1. used[scur[u]] \in 0..ChunkSize
      BY <2>2, ScanCursors DEF ScanUsed
    <3> QED
      BY <2>2, <3>1 DEF ScanUsed
  <2>3. CASE ScanVisit(u)
    <3>1. <<scur[u], sidx[u]>> \in Slots
      BY <2>3, ScanCursors DEF ScanVisit
    <3>2. sidx[u] + 1 \in 0..ChunkSize
      BY <2>3 DEF ScanVisit
    <3> QED
      BY <2>3, <3>1, <3>2 DEF ScanVisit
  <2>4. CASE ScanNext(u)
    <3>1. scur[u] - 1 \in 0..MaxChunks
      <4>1. scur[u] \in Chunks
        BY <2>4, ScanCursors DEF ScanNext
      <4> QED
        BY <4>1 DEF Chunks
    <3> QED
      BY <2>4, <3>1 DEF ScanNext, WalkTo
  <2> QED
    BY <1>3, <2>1, <2>2, <2>3, <2>4 DEF Scanning
<1>4. CASE UNCHANGED vars
  BY <1>0, <1>4 DEF vars, table, locals, walks
<1> QED
  BY <1>1, <1>2, <1>3, <1>4 DEF Next


\* The slot of the thread is its own, or will be if nobody bumps used first.
Settled(t) == pc[t] = "held" \/ (pc[t] = "bump" /\ used[cur[t]] = idx[t])

\* A thread whose own variables do not change keeps its position while used
\* grows and no slot of its own is released.
LEMMA OthersKept ==
    ASSUME SInv, TypeOK', NEW v \in Threads,
           pc'[v] = pc[v], cur'[v] = cur[v], lim'[v] = lim[v], idx'[v] = idx[v],
           head <= head', \A c \in Chunks : used[c] <= used'[c],
           Settled(v) => active'[Slot(v)]
    PROVE  Position(v)'
<1> USE SizeAssumption DEF SInv, TypeOK, Positions, Position, Settled
<1>1. cur'[v] <= head'
  OBVIOUS
<1>2. pc[v] \in InChunk =>
        used[cur[v]] <= used'[cur[v]] /\ used[cur[v]] \in Nat /\ used'[cur[v]] \in Nat
  BY Cursors DEF InChunk
<1>3. pc[v] \in {"probe", "claim"} => lim'[v] <= used'[cur'[v]] /\ idx'[v] <= lim'[v]
  BY <1>2 DEF InChunk
<1>4. pc[v] \in {"mark", "bump"} => idx'[v] < ChunkSize /\ idx'[v] <= used'[cur'[v]]
  BY <1>2 DEF InChunk
<1>5. Slot(v)' = Slot(v)
  BY DEF Slot
<1>6. pc[v] = "bump" /\ used'[cur'[v]] = idx'[v] => active'[Slot(v)]
  <2> SUFFICES ASSUME pc[v] = "bump", used'[cur[v]] = idx[v] PROVE active'[Slot(v)]
    OBVIOUS
  <2>1. used[cur[v]] <= idx[v] /\ used[cur[v]] \in Nat
    BY <1>2 DEF InChunk
  <2>2. idx[v] <= used[cur[v]] /\ idx[v] \in Nat
    OBVIOUS
  <2>3. \A m, n \in Nat : m <= n /\ n <= m => m = n
    OBVIOUS
  <2>4. used[cur[v]] = idx[v]
    BY ONLY <2>1, <2>2, <2>3
  <2> QED
    BY <2>4
<1>7. pc[v] = "held" => idx'[v] < used'[cur'[v]] /\ active'[Slot(v)]
  BY <1>2 DEF InChunk
<1> QED
  BY <1>1, <1>3, <1>4, <1>5, <1>6, <1>7

LEMMA PositionsStep == SInv /\ [Next]_vars => Positions'
<1> SUFFICES ASSUME SInv, [Next]_vars PROVE Positions'
  OBVIOUS
<1>a. TypeOK /\ TypeOK' /\ Positions
  BY TypeStep DEF SInv
<1>b. ASSUME UNCHANGED <<pc, cur, lim, idx, head, used, active>> PROVE Positions'
  BY <1>a, <1>b DEF Positions, Position, Slot
<1>1. ASSUME NEW t \in Threads, Acquiring(t) PROVE Positions'
  <2>a. \A v \in Threads \ {t} :
          pc'[v] = pc[v] /\ cur'[v] = cur[v] /\ lim'[v] = lim[v] /\ idx'[v] = idx[v]
    BY <1>1, <1>a DEF Acquiring, LoadHead, LoadUsed, Probe, NextChunk, Claim, AppendHead,
       AppendIndex, Mark, Bump, BumpFails, Push, PushFails, TryIndex, TypeOK
  <2>b. head <= head' /\ \A c \in Chunks : used[c] <= used'[c]
    <3>1. CASE Bump(t)
      BY <1>a, <3>1 DEF Bump, TypeOK
    <3>2. CASE Push(t)
      BY <1>a, <3>2, SizeAssumption DEF Push, TypeOK, Positions, Chunks
    <3>3. CASE UNCHANGED <<head, used>>
      BY <1>a, <3>3 DEF TypeOK
    <3> QED
      BY <1>1, <3>1, <3>2, <3>3 DEF Acquiring, LoadHead, LoadUsed, Probe, NextChunk, Claim,
         AppendHead, AppendIndex, Mark, BumpFails, PushFails, table
  <2>c. \A s \in Slots : active[s] => active'[s]
    BY <1>1, <1>a DEF Acquiring, LoadHead, LoadUsed, Probe, NextChunk, Claim, AppendHead,
       AppendIndex, Mark, Bump, BumpFails, Push, PushFails, table, TypeOK
  <2>d. \A v \in Threads \ {t} : Position(v)'
    <3> SUFFICES ASSUME NEW v \in Threads \ {t} PROVE Position(v)'
      OBVIOUS
    <3>1. Settled(v) => active'[Slot(v)]
      BY <1>a, <2>c, Cursors DEF Settled, Positions, Position
    <3> QED
      BY <1>a, <2>a, <2>b, <3>1, OthersKept
  <2>e. \A c \in Chunks : used'[c] > 0 <=> c <= head'
    <3>1. CASE Bump(t)
      <4>1. cur[t] \in Chunks /\ used[cur[t]] \in 1..ChunkSize
        BY <3>1, Cursors DEF Bump, InChunk
      <4>2. used'[cur[t]] > 0 /\ used[cur[t]] > 0
        BY <1>a, <3>1, <4>1 DEF Bump, TypeOK
      <4>3. \A c \in Chunks \ {cur[t]} : used'[c] = used[c]
        BY <1>a, <3>1 DEF Bump, TypeOK
      <4>4. head' = head
        BY <3>1 DEF Bump
      <4> QED
        BY <1>a, <4>1, <4>2, <4>3, <4>4 DEF Positions
    <3>2. CASE Push(t)
      BY <1>a, <3>2 DEF Push, TypeOK, Positions, Chunks
    <3>3. CASE UNCHANGED <<head, used>>
      BY <1>a, <3>3 DEF Positions
    <3> QED
      BY <1>1, <3>1, <3>2, <3>3 DEF Acquiring, LoadHead, LoadUsed, Probe, NextChunk, Claim,
         AppendHead, AppendIndex, Mark, BumpFails, PushFails, table
  <2>f. Position(t)'
    <3>a. Position(t)
      BY <1>a DEF Positions
    <3>b. pc[t] \in InChunk => cur[t] \in Chunks /\ used[cur[t]] \in 1..ChunkSize
      BY Cursors
    <3> USE <1>a, <3>a, <3>b, SizeAssumption
        DEF TypeOK, Position, Slot, InChunk, table, locals, walks
    <3>1. CASE LoadHead(t)
      BY <3>1 DEF LoadHead
    <3>2. CASE LoadUsed(t)
      BY <3>2 DEF LoadUsed
    <3>3. CASE Probe(t)
      BY <3>3 DEF Probe
    <3>4. CASE NextChunk(t)
      BY <3>4 DEF NextChunk
    <3>5. CASE Claim(t)
      <4>1. CASE active[Slot(t)]
        BY <3>5, <4>1 DEF Claim
      <4>2. CASE ~active[Slot(t)]
        <5>1. Slot(t) \in Slots
          BY <3>5, Cursors DEF Claim
        <5>2. active'[Slot(t)]
          BY <3>5, <4>2, <5>1 DEF Claim
        <5>3. idx[t] < used[cur[t]]
          BY <3>5 DEF Claim
        <5> QED
          BY <3>5, <4>2, <5>2, <5>3 DEF Claim
      <4> QED
        BY <4>1, <4>2
    <3>6. CASE AppendHead(t)
      BY <3>6 DEF AppendHead
    <3>7. CASE AppendIndex(t)
      BY <3>7 DEF AppendIndex, TryIndex
    <3>8. CASE Mark(t)
      BY <3>8 DEF Mark
    <3>9. CASE Bump(t)
      BY <3>9 DEF Bump
    <3>10. CASE BumpFails(t)
      BY <3>10 DEF BumpFails, TryIndex
    <3>11. CASE Push(t)
      BY <3>11 DEF Push
    <3>12. CASE PushFails(t)
      BY <3>12 DEF PushFails
    <3> QED
      BY <1>1, <3>1, <3>2, <3>3, <3>4, <3>5, <3>6, <3>7, <3>8, <3>9, <3>10, <3>11, <3>12
      DEF Acquiring
  <2> QED
    BY <2>d, <2>e, <2>f DEF Positions
<1>2. ASSUME NEW t \in Threads, Release(t) PROVE Positions'
  <2>1. ASSUME NEW v \in Threads \ {t}, Settled(v) PROVE active'[Slot(v)]
    <3>1. Slot(v) \in Slots /\ Slot(t) \in Slots
      BY <1>2, <2>1, Cursors DEF Release, Settled
    <3>a. active[Slot(v)]
      BY <1>a, <2>1 DEF Positions, Position, Settled
    <3>2. Slot(v) # Slot(t)
      <4>1. CASE pc[v] = "held"
        BY <1>2, <2>1, <4>1 DEF Release, SInv, ExclusiveSlots
      <4>2. CASE pc[v] = "bump" /\ used[cur[v]] = idx[v]
        <5>1. idx[t] < used[cur[t]]
          BY <1>2, <1>a DEF Release, Positions, Position
        <5> QED
          BY <1>a, <4>2, <5>1 DEF Slot, TypeOK
      <4> QED
        BY <2>1, <4>1, <4>2 DEF Settled
    <3> QED
      BY <1>2, <1>a, <3>1, <3>2, <3>a DEF Release, TypeOK
  <2>2. \A v \in Threads \ {t} : Position(v)'
    BY <1>2, <1>a, <2>1, OthersKept DEF Release, TypeOK
  <2>3. Position(t)'
    BY <1>2, <1>a DEF Release, TypeOK, Position
  <2> QED
    BY <1>2, <1>a, <2>2, <2>3 DEF Release, Positions
<1>3. ASSUME NEW u \in Scanners, Scanning(u) PROVE Positions'
  BY <1>b, <1>3 DEF Scanning, ScanBegin, ScanUsed, ScanVisit, ScanNext, table, locals
<1>4. CASE UNCHANGED vars
  BY <1>b, <1>4 DEF vars, table, locals
<1> QED
  BY <1>1, <1>2, <1>3, <1>4 DEF Next

LEMMA ExclusiveStep == SInv /\ [Next]_vars => ExclusiveSlots'
<1> SUFFICES ASSUME SInv, [Next]_vars PROVE ExclusiveSlots'
  OBVIOUS
<1>a. TypeOK /\ Positions /\ ExclusiveSlots
  BY DEF SInv
\* Who becomes the owner of a slot is the only one.
<1>b. ASSUME NEW t \in Threads,
             \A v \in Threads \ {t} : pc'[v] = pc[v] /\ Slot(v)' = Slot(v),
             pc'[t] = "held" =>
                 \A v \in Threads \ {t} : pc[v] = "held" => Slot(v) # Slot(t)'
      PROVE  ExclusiveSlots'
  BY <1>a, <1>b DEF ExclusiveSlots
<1>1. ASSUME NEW t \in Threads, Acquiring(t) PROVE ExclusiveSlots'
  <2>a. \A v \in Threads \ {t} : pc'[v] = pc[v] /\ Slot(v)' = Slot(v)
    BY <1>1, <1>a DEF Acquiring, LoadHead, LoadUsed, Probe, NextChunk, Claim, AppendHead,
       AppendIndex, Mark, Bump, BumpFails, Push, PushFails, TryIndex, TypeOK, Slot
  <2>1. CASE Claim(t)
    <3>1. ASSUME pc'[t] = "held", NEW v \in Threads \ {t}, pc[v] = "held"
          PROVE  Slot(v) # Slot(t)'
      <4>1. ~active[Slot(t)] /\ Slot(t)' = Slot(t)
        BY <1>a, <2>1, <3>1 DEF Claim, TypeOK, Slot
      <4>2. active[Slot(v)]
        BY <1>a, <3>1 DEF Positions, Position
      <4> QED
        BY <4>1, <4>2
    <3> QED
      BY <1>b, <2>a, <3>1
  <2>2. CASE Bump(t)
    <3>1. ASSUME NEW v \in Threads \ {t}, pc[v] = "held" PROVE Slot(v) # Slot(t)'
      <4>1. used[cur[t]] = idx[t] /\ Slot(t)' = Slot(t)
        BY <2>2 DEF Bump, Slot
      <4>2. idx[v] < used[cur[v]]
        BY <1>a, <3>1 DEF Positions, Position
      <4> QED
        BY <1>a, <4>1, <4>2 DEF Slot, TypeOK
    <3> QED
      BY <1>b, <2>a, <3>1
  <2>3. CASE Push(t)
    <3>1. ASSUME NEW v \in Threads \ {t}, pc[v] = "held" PROVE Slot(v) # Slot(t)'
      <4>1. cur'[t] = head + 1
        BY <1>a, <2>3 DEF Push, TypeOK
      <4>2. cur[v] <= head
        BY <1>a, <3>1 DEF Positions, Position
      <4> QED
        BY <1>a, <4>1, <4>2 DEF Slot, TypeOK
    <3> QED
      BY <1>b, <2>a, <3>1
  <2>4. CASE ~(Claim(t) \/ Bump(t) \/ Push(t))
    <3>1. pc'[t] # "held"
      BY <1>1, <1>a, <2>4 DEF Acquiring, LoadHead, LoadUsed, Probe, NextChunk, AppendHead,
         AppendIndex, Mark, BumpFails, PushFails, TryIndex, TypeOK
    <3> QED
      BY <1>b, <2>a, <3>1
  <2> QED
    BY <2>1, <2>2, <2>3, <2>4
<1>2. ASSUME NEW t \in Threads, Release(t) PROVE ExclusiveSlots'
  <2>1. \A v \in Threads \ {t} : pc'[v] = pc[v] /\ Slot(v)' = Slot(v)
    BY <1>2, <1>a DEF Release, TypeOK, Slot
  <2>2. pc'[t] = "out"
    BY <1>2, <1>a DEF Release, TypeOK
  <2> QED
    BY <1>b, <2>1, <2>2
<1>3. ASSUME UNCHANGED <<pc, cur, idx>> PROVE ExclusiveSlots'
  BY <1>a, <1>3 DEF ExclusiveSlots, Slot
<1>4. ASSUME NEW u \in Scanners, Scanning(u) PROVE ExclusiveSlots'
  BY <1>3, <1>4 DEF Scanning, ScanBegin, ScanUsed, ScanVisit, ScanNext, locals
<1>5. CASE UNCHANGED vars
  BY <1>3, <1>5 DEF vars, locals
<1> QED
  BY <1>1, <1>2, <1>4, <1>5 DEF Next

\* The owners of slots: only Release takes a slot away.
LEMMA HeldKept ==
    ASSUME SInv, NEW t \in Threads, Acquiring(t)
    PROVE  Held \subseteq Held'
<1>a. TypeOK
  BY DEF SInv
<1>1. \A v \in Threads : pc[v] = "held" => pc'[v] = "held" /\ Slot(v)' = Slot(v)
  BY <1>a DEF Acquiring, LoadHead, LoadUsed, Probe, NextChunk, Claim, AppendHead,
     AppendIndex, Mark, Bump, BumpFails, Push, PushFails, TryIndex, TypeOK, Slot
<1> QED
  BY <1>1 DEF Held

LEMMA HeldAfterRelease ==
    ASSUME SInv, NEW t \in Threads, Release(t)
    PROVE  Held' = Held \ {Slot(t)}
<1>a. TypeOK
  BY DEF SInv
<1>1. pc[t] = "held" /\ pc'[t] = "out"
  BY <1>a DEF Release, TypeOK
<1>2. \A v \in Threads \ {t} : pc'[v] = pc[v] /\ Slot(v)' = Slot(v)
  BY <1>a DEF Release, TypeOK, Slot
<1>3. \A v \in Threads \ {t} : pc[v] = "held" => Slot(v) # Slot(t)
  BY <1>1 DEF SInv, ExclusiveSlots
<1> QED
  BY <1>1, <1>2, <1>3 DEF Held

\* A slot that somebody owns is active and below used.
LEMMA HeldActive ==
    ASSUME SInv, NEW s \in Held
    PROVE  s \in Slots /\ active[s] /\ s[1] \in 1..head /\ s[2] \in Nat /\ s[2] < used[s[1]]
<1>a. TypeOK /\ Positions
  BY DEF SInv
<1>1. PICK t \in Threads : pc[t] = "held" /\ s = Slot(t)
  BY DEF Held
<1>2. Position(t)
  BY <1>a DEF Positions
<1>3. s[1] = cur[t] /\ s[2] = idx[t]
  BY <1>1 DEF Slot
<1>4. s \in Slots
  BY <1>1, Cursors
<1> QED
  BY <1>a, <1>1, <1>2, <1>3, <1>4 DEF Position, TypeOK

\* A walk none of whose variables change keeps its obligations.
Walk(u) ==
    /\ spc[u] \in {"limit", "visit"} => scur[u] \in 1..head
    /\ spc[u] = "visit" => slim[u] <= used[scur[u]]
    /\ due[u] \subseteq Held
    /\ spc[u] # "out" => \A s \in due[u] : s \in visited[u] \/ Remaining(u, s)

LEMMA WalkKept ==
    ASSUME SInv, TypeOK', NEW u \in Scanners,
           spc'[u] = spc[u], scur'[u] = scur[u], slim'[u] = slim[u], sidx'[u] = sidx[u],
           visited'[u] = visited[u], due'[u] \subseteq due[u], due'[u] \subseteq Held',
           head <= head', \A c \in Chunks : used[c] <= used'[c]
    PROVE  Walk(u)'
<1>a. TypeOK /\ WalkInv
  BY DEF SInv
<1>1. spc[u] \in {"limit", "visit"} => scur'[u] \in 1..head'
  BY <1>a DEF TypeOK, WalkInv
<1>2. spc[u] = "visit" => slim'[u] <= used'[scur'[u]]
  <2> SUFFICES ASSUME spc[u] = "visit" PROVE slim[u] <= used'[scur[u]]
    OBVIOUS
  <2>1. scur[u] \in Chunks
    BY ScanCursors
  <2> QED
    BY <1>a, <2>1 DEF WalkInv, TypeOK
<1>3. spc[u] # "out" => \A s \in due'[u] : s \in visited'[u] \/ Remaining(u, s)'
  <2>1. spc[u] # "out" => \A s \in due[u] : s \in visited[u] \/ Remaining(u, s)
    BY <1>a DEF WalkInv
  <2>2. ASSUME NEW s PROVE Remaining(u, s)' <=> Remaining(u, s)
    BY DEF Remaining
  <2> QED
    BY <2>1, <2>2
<1> QED
  BY <1>1, <1>2, <1>3 DEF Walk

LEMMA WalkStep == SInv /\ [Next]_vars => WalkInv'
<1> SUFFICES ASSUME SInv, [Next]_vars, NEW u \in Scanners PROVE Walk(u)'
  BY DEF WalkInv, Walk
<1>a. TypeOK /\ TypeOK' /\ Positions /\ WalkInv /\ Walk(u)
  BY TypeStep DEF SInv, WalkInv, Walk
<1>1. ASSUME NEW t \in Threads, Acquiring(t) PROVE Walk(u)'
  <2>1. head <= head' /\ \A c \in Chunks : used[c] <= used'[c]
    <3>1. CASE Bump(t)
      BY <1>a, <3>1 DEF Bump, TypeOK
    <3>2. CASE Push(t)
      BY <1>a, <3>2, SizeAssumption DEF Push, TypeOK, Positions, Chunks
    <3>3. CASE UNCHANGED <<head, used>>
      BY <1>a, <3>3 DEF TypeOK
    <3> QED
      BY <1>1, <3>1, <3>2, <3>3 DEF Acquiring, LoadHead, LoadUsed, Probe, NextChunk, Claim,
         AppendHead, AppendIndex, Mark, BumpFails, PushFails, table
  <2>2. UNCHANGED walks
    BY <1>1 DEF Acquiring, LoadHead, LoadUsed, Probe, NextChunk, Claim, AppendHead,
       AppendIndex, Mark, Bump, BumpFails, Push, PushFails
  <2>3. due'[u] \subseteq Held'
    BY <1>1, <1>a, <2>2, HeldKept DEF walks, Walk
  <2> QED
    BY <1>a, <2>1, <2>2, <2>3, WalkKept DEF walks
<1>2. ASSUME NEW t \in Threads, Release(t) PROVE Walk(u)'
  <2>1. due'[u] = due[u] \ {Slot(t)}
    BY <1>2 DEF Release
  <2>2. due'[u] \subseteq Held'
    BY <1>2, <1>a, <2>1, HeldAfterRelease DEF Walk
  <2> QED
    BY <1>2, <1>a, <2>1, <2>2, WalkKept DEF Release, TypeOK
<1>3. ASSUME UNCHANGED <<table, pc, cur, idx>> PROVE Held' = Held /\ head' = head /\ used' = used
  BY <1>3 DEF Held, Slot, table
<1>4. ASSUME NEW w \in Scanners, Scanning(w), w # u PROVE Walk(u)'
  <2>1. UNCHANGED <<table, pc, cur, idx>>
    BY <1>4 DEF Scanning, ScanBegin, ScanUsed, ScanVisit, ScanNext, locals
  <2>2. /\ spc'[u] = spc[u] /\ scur'[u] = scur[u] /\ slim'[u] = slim[u]
        /\ sidx'[u] = sidx[u] /\ visited'[u] = visited[u] /\ due'[u] = due[u]
    BY <1>4, <1>a DEF Scanning, ScanBegin, ScanUsed, ScanVisit, ScanNext, WalkTo, TypeOK
  <2> QED
    BY <1>3, <1>a, <2>1, <2>2, WalkKept DEF Walk, TypeOK
<1>5. ASSUME Scanning(u) PROVE Walk(u)'
  <2>a. UNCHANGED <<table, pc, cur, idx>>
    BY <1>5 DEF Scanning, ScanBegin, ScanUsed, ScanVisit, ScanNext, locals
  <2>b. Held' = Held /\ head' = head /\ used' = used
    BY <1>3, <2>a
  <2> USE <1>a, <2>b DEF TypeOK
  <2>1. CASE ScanBegin(u)
    <3>1. /\ scur'[u] = head /\ visited'[u] = {} /\ due'[u] = Held
          /\ spc'[u] = IF head = 0 THEN "done" ELSE "limit"
      BY <2>1 DEF ScanBegin, WalkTo
    <3>2. \A s \in Held : Remaining(u, s)'
      BY <3>1, HeldActive DEF Remaining
    <3> QED
      BY <3>1, <3>2 DEF Walk
  <2>2. CASE ScanUsed(u)
    <3>1. /\ spc[u] = "limit" /\ spc'[u] = "visit" /\ slim'[u] = used[scur[u]] /\ sidx'[u] = 0
          /\ scur'[u] = scur[u] /\ visited'[u] = visited[u] /\ due'[u] = due[u]
      BY <2>2 DEF ScanUsed
    <3>2. ASSUME NEW s \in due[u], s \notin visited[u] PROVE Remaining(u, s)'
      <4>1. s[1] <= scur[u]
        BY <3>1, <3>2 DEF Walk, Remaining
      <4>2. s[1] \in 1..head /\ s[2] \in Nat /\ s[2] < used[s[1]]
        BY <3>2, HeldActive DEF Walk
      <4>3. CASE s[1] = scur[u]
        BY <3>1, <4>2, <4>3 DEF Remaining
      <4>4. CASE s[1] < scur[u]
        BY <3>1, <4>4 DEF Remaining
      <4>5. s[1] \in Int /\ scur[u] \in Int
        BY <4>2
      <4> QED
        BY ONLY <4>1, <4>3, <4>4, <4>5
    <3> QED
      BY <3>1, <3>2, ScanCursors DEF Walk
  <2>3. CASE ScanVisit(u)
    <3>1. /\ spc[u] = "visit" /\ spc'[u] = "visit" /\ slim'[u] = slim[u]
          /\ sidx[u] < slim[u] /\ sidx'[u] = sidx[u] + 1
          /\ scur'[u] = scur[u] /\ due'[u] = due[u] /\ visited[u] \subseteq visited'[u]
          /\ active[<<scur[u], sidx[u]>>] => <<scur[u], sidx[u]>> \in visited'[u]
      BY <2>3 DEF ScanVisit
    <3>2. ASSUME NEW s \in due[u], s \notin visited'[u] PROVE Remaining(u, s)'
      <4>1. s \in Slots /\ active[s] /\ s[2] \in Nat
        BY <3>2, HeldActive DEF Walk
      <4>2. Remaining(u, s)
        BY <3>1, <3>2 DEF Walk
      <4>3. s = <<s[1], s[2]>>
        BY <4>1 DEF Slots
      <4>4. ~(s[1] = scur[u] /\ s[2] = sidx[u])
        BY <3>1, <3>2, <4>1, <4>3
      <4>5. CASE s[1] < scur[u]
        BY <3>1, <4>5 DEF Remaining
      <4>6. CASE s[1] = scur[u]
        <5>1. s[2] \in Int /\ sidx[u] \in Int
          BY <4>1
        <5>2. s[2] >= sidx[u] /\ s[2] < slim[u] /\ s[2] # sidx[u]
          BY <3>1, <4>2, <4>4, <4>6 DEF Remaining
        <5>3. s[2] >= sidx[u] + 1
          BY ONLY <5>1, <5>2
        <5> QED
          BY <3>1, <4>6, <5>2, <5>3 DEF Remaining
      <4> QED
        BY <3>1, <4>2, <4>5, <4>6 DEF Remaining
    <3> QED
      BY <3>1, <3>2 DEF Walk
  <2>4. CASE ScanNext(u)
    <3>1. /\ spc[u] = "visit" /\ sidx[u] >= slim[u]
          /\ spc'[u] = IF scur[u] - 1 = 0 THEN "done" ELSE "limit"
          /\ scur'[u] = scur[u] - 1 /\ visited'[u] = visited[u] /\ due'[u] = due[u]
      BY <2>4 DEF ScanNext, WalkTo
    <3>2. ASSUME NEW s \in due[u], s \notin visited[u] PROVE Remaining(u, s)'
      <4>1. s[1] \in 1..head /\ s[2] \in Nat
        BY <3>2, HeldActive DEF Walk
      <4>2. s[1] < scur[u]
        BY <3>1, <3>2, <4>1 DEF Walk, Remaining
      <4>3. scur[u] \in 1..head
        BY <3>1 DEF Walk
      <4> QED
        BY <3>1, <4>1, <4>2, <4>3 DEF Remaining
    <3> QED
      BY <3>1, <3>2 DEF Walk
  <2> QED
    BY <1>5, <2>1, <2>2, <2>3, <2>4 DEF Scanning
<1>6. CASE UNCHANGED vars
  <2>1. UNCHANGED <<table, pc, cur, idx, walks>>
    BY <1>6 DEF vars, locals
  <2> QED
    BY <1>3, <1>a, <2>1, WalkKept DEF walks, Walk, TypeOK
<1> QED
  BY <1>1, <1>2, <1>4, <1>5, <1>6 DEF Next

LEMMA InitSInv == Init => SInv
  BY SizeAssumption DEF Init, SInv, TypeOK, Positions, Position, ExclusiveSlots, WalkInv,
     Held, Chunks

\* The inductive invariant holds for every number of threads, scanners,
\* slots in a chunk and chunks.
THEOREM Inductive == Spec => []SInv
<1>1. SInv /\ [Next]_vars => SInv'
  BY TypeStep, PositionsStep, ExclusiveStep, WalkStep DEF SInv
<1> QED
  BY InitSInv, <1>1, PTL DEF Spec

\* acquire never gives one slot to two threads (slot_table.h:24-39, 74-102).
THEOREM Exclusive == Spec => []ExclusiveSlots
  BY Inductive, PTL DEF SInv

LEMMA WalkDone == SInv => ScanComplete
<1> SUFFICES ASSUME SInv, NEW u \in Scanners, spc[u] = "done" PROVE due[u] \subseteq visited[u]
  BY DEF ScanComplete
<1> QED
  BY DEF SInv, WalkInv, Remaining

\* for_each_active misses no slot that is owned throughout the walk
\* (slot_table.h:55-65).
THEOREM Complete == Spec => []ScanComplete
  BY Inductive, WalkDone, PTL

============================================================================
