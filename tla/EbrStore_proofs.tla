------------------------- MODULE EbrStore_proofs --------------------------
(***************************************************************************)
(* Safety of the epoch store for any number of keys, handles, references,  *)
(* threads and slots, any RETIRE_BATCH and any number of epochs.           *)
(*                                                                         *)
(* The shape of the state and the order of the retired lists do not depend *)
(* on what is announced when.  Memory safety does: it holds until some     *)
(* thread announces an epoch that has passed.                              *)
(***************************************************************************)
EXTENDS EbrStore, FiniteSetTheorems, TLAPS

(***************************************************************************)
(* The shape of the state                                                  *)
(***************************************************************************)

\* No variable leaves its set; the epoch only grows.
LEMMA TypeStep ==
  TypeOK /\ ThreadLocal /\ [Next]_vars => TypeOK'
<1> SUFFICES ASSUME TypeOK, ThreadLocal, [Next]_vars PROVE TypeOK'
  OBVIOUS
<1> USE DistinguishedValues, EpochAssumption DEF TypeOK, Entries, PCs, ThreadLocal, Up,
        My, Inside, epochs, states, scan, locals
<1>1. ASSUME NEW t \in Threads, Continue(t) PROVE TypeOK'
  <2>1. CASE Announce(t)
    BY <2>1 DEF Announce
  <2>2. CASE Exit(t)
    BY <2>2 DEF Exit
  <2>3. CASE LoadGlobal(t)
    BY <2>3 DEF LoadGlobal
  <2>4. CASE LoadHint(t)
    BY <2>4 DEF LoadHint
  <2>5. CASE BeginWalk(t)
    BY <2>5 DEF BeginWalk
  <2>6. CASE ScanSlot(t)
    BY <2>6 DEF ScanSlot
  <2>7. CASE EndWalk(t)
    BY <2>7 DEF EndWalk
  <2>8. CASE Advance(t)
    BY <2>8 DEF Advance, ToReclaim
  <2>9. CASE Raise(t)
    <3>1. min_active' \in 0..epoch
      BY <2>9 DEF Raise
    <3>2. /\ global' \in [Threads -> 0..epoch] /\ hint' \in [Threads -> 0..epoch]
          /\ pc' \in [Threads -> PCs]
      <4>1. CASE ToReclaim(t)
        BY <4>1 DEF ToReclaim
      <4>2. CASE hint' = [hint EXCEPT ![t] = min_active] /\ UNCHANGED <<pc, global>>
        BY <4>2
      <4> QED
        BY <2>9, <4>1, <4>2 DEF Raise
    <3>3. UNCHANGED <<map, refcount, ref, epoch, announced, active, cached, used, retired,
                      node, leaving, cutoff, todo, key, dest, ptr, old, phase, stale>>
      BY <2>9 DEF Raise
    <3> QED
      BY <3>1, <3>2, <3>3
  <2>10. CASE Reclaim(t)
    BY <2>10 DEF Reclaim, DropHandle, Freeable
  <2>11. CASE EndReclaim(t)
    BY <2>11 DEF EndReclaim, Freeable
  <2>12. CASE Release(t)
    BY <2>12 DEF Release
  <2>13. CASE GetLoad(t) \/ Incref(t)
    BY <2>13 DEF GetLoad, Incref
  <2>14. CASE PutFind(t)
    BY <2>14 DEF PutFind
  <2>15. CASE PutReplace(t)
    BY <2>15 DEF PutReplace, Retire
  <2>16. CASE PutInsert(t)
    BY <2>16 DEF PutInsert
  <2>17. CASE PutRetry(t)
    BY <2>17 DEF PutRetry
  <2> QED
    BY <1>1, <2>1, <2>2, <2>3, <2>4, <2>5, <2>6, <2>7, <2>8,
       <2>9, <2>10, <2>11, <2>12, <2>13, <2>14, <2>15, <2>16, <2>17 DEF Continue
<1>2. ASSUME NEW t \in Threads, Choose(t) PROVE TypeOK'
  <2>1. CASE ThreadStart(t)
    BY <2>1 DEF ThreadStart
  <2>2. CASE ThreadExit(t)
    BY <2>2 DEF ThreadExit
  <2>3. CASE GetCall(t)
    BY <2>3 DEF GetCall, Enter, Available
  <2>4. CASE PutCall(t)
    BY <2>4 DEF PutCall, Enter
  <2> QED
    BY <1>2, <2>1, <2>2, <2>3, <2>4 DEF Choose
<1>3. ASSUME NEW r \in Refs, Close(r) PROVE TypeOK'
  BY <1>3 DEF Close, DropHandle
<1>4. CASE TeardownStore \/ TeardownDomain
  BY <1>4 DEF TeardownStore, TeardownDomain
<1>5. CASE UNCHANGED vars
  BY <1>5 DEF vars
<1> QED
  BY <1>1, <1>2, <1>3, <1>4, <1>5 DEF Next, Terminated

\* A program counter keeps telling the truth of the thread and its slot.
LEMMA LocalStep ==
  TypeOK /\ ThreadLocal /\ SlotsOwned /\ [Next]_vars => ThreadLocal'
<1> SUFFICES ASSUME TypeOK, ThreadLocal, SlotsOwned, [Next]_vars PROVE ThreadLocal'
  OBVIOUS
<1> USE DistinguishedValues, EpochAssumption DEF TypeOK, PCs, ThreadLocal, SlotsOwned,
        Up, My, Inside, epochs, states, scan, locals
<1>1. ASSUME NEW t \in Threads, Continue(t) PROVE ThreadLocal'
  <2>1. CASE Announce(t) \/ Exit(t)
    BY <2>1 DEF Announce, Exit
  <2>2. CASE LoadGlobal(t) \/ LoadHint(t) \/ BeginWalk(t) \/ ScanSlot(t) \/ EndWalk(t)
    BY <2>2 DEF LoadGlobal, LoadHint, BeginWalk, ScanSlot, EndWalk
  <2>3. CASE Advance(t) \/ Raise(t)
    BY <2>3 DEF Advance, ToReclaim, Raise
  <2>4. CASE Reclaim(t) \/ EndReclaim(t) \/ Release(t)
    BY <2>4 DEF Reclaim, DropHandle, Freeable, EndReclaim, Release
  <2>5. CASE GetLoad(t) \/ Incref(t)
    BY <2>5 DEF GetLoad, Incref
  <2>6. CASE PutFind(t) \/ PutReplace(t) \/ PutInsert(t) \/ PutRetry(t)
    BY <2>6 DEF PutFind, PutReplace, Retire, PutInsert, PutRetry
  <2> QED
    BY <1>1, <2>1, <2>2, <2>3, <2>4, <2>5, <2>6 DEF Continue
<1>2. ASSUME NEW t \in Threads, Choose(t) PROVE ThreadLocal'
  <2>1. CASE ThreadStart(t) \/ ThreadExit(t)
    BY <2>1 DEF ThreadStart, ThreadExit
  <2>2. CASE GetCall(t) \/ PutCall(t)
    BY <2>2 DEF GetCall, Enter, Available, PutCall
  <2> QED
    BY <1>2, <2>1, <2>2 DEF Choose
<1>3. ASSUME NEW r \in Refs, Close(r) PROVE ThreadLocal'
  BY <1>3 DEF Close, DropHandle
<1>4. CASE TeardownStore \/ TeardownDomain
  BY <1>4 DEF TeardownStore, TeardownDomain
<1>5. CASE UNCHANGED vars
  BY <1>5 DEF vars
<1> QED
  BY <1>1, <1>2, <1>3, <1>4, <1>5 DEF Next, Terminated

\* A slot changes hands only through a thread that starts or exits.
LEMMA OwnedStep ==
  TypeOK /\ ThreadLocal /\ SlotsOwned /\ [Next]_vars => SlotsOwned'
<1> SUFFICES ASSUME TypeOK, ThreadLocal, SlotsOwned, [Next]_vars PROVE SlotsOwned'
  OBVIOUS
<1> USE DistinguishedValues, EpochAssumption DEF TypeOK, PCs, ThreadLocal, SlotsOwned,
        Up, My, Inside, epochs, states, scan, locals
<1>1. ASSUME NEW t \in Threads, Continue(t) PROVE SlotsOwned'
  <2>1. CASE Announce(t) \/ Exit(t)
    BY <2>1 DEF Announce, Exit
  <2>2. CASE LoadGlobal(t) \/ LoadHint(t) \/ BeginWalk(t) \/ ScanSlot(t) \/ EndWalk(t)
    BY <2>2 DEF LoadGlobal, LoadHint, BeginWalk, ScanSlot, EndWalk
  <2>3. CASE Advance(t) \/ Raise(t)
    BY <2>3 DEF Advance, ToReclaim, Raise
  <2>4. CASE Reclaim(t)
    BY <2>4 DEF Reclaim, DropHandle, Freeable
  <2>5. CASE EndReclaim(t)
    BY <2>5 DEF EndReclaim, Freeable
  <2>6. CASE Release(t)
    BY <2>6 DEF Release
  <2>7. CASE GetLoad(t) \/ Incref(t)
    BY <2>7 DEF GetLoad, Incref
  <2>8. CASE PutFind(t) \/ PutReplace(t) \/ PutInsert(t) \/ PutRetry(t)
    BY <2>8 DEF PutFind, PutReplace, Retire, PutInsert, PutRetry
  <2> QED
    BY <1>1, <2>1, <2>2, <2>3, <2>4, <2>5, <2>6, <2>7, <2>8 DEF Continue
<1>2. ASSUME NEW t \in Threads, Choose(t) PROVE SlotsOwned'
  <2>1. CASE ThreadStart(t)
    BY <2>1 DEF ThreadStart
  <2>2. CASE ThreadExit(t)
    BY <2>2 DEF ThreadExit
  <2>3. CASE GetCall(t) \/ PutCall(t)
    BY <2>3 DEF GetCall, Enter, Available, PutCall
  <2> QED
    BY <1>2, <2>1, <2>2, <2>3 DEF Choose
<1>3. ASSUME NEW r \in Refs, Close(r) PROVE SlotsOwned'
  BY <1>3 DEF Close, DropHandle
<1>4. CASE TeardownStore \/ TeardownDomain
  BY <1>4 DEF TeardownStore, TeardownDomain
<1>5. CASE UNCHANGED vars
  BY <1>5 DEF vars
<1> QED
  BY <1>1, <1>2, <1>3, <1>4, <1>5 DEF Next, Terminated

\* Only an unborn reference that no other call aims at is given to a get.
LEMMA DestStep ==
  TypeOK /\ ThreadLocal /\ DestReserved /\ [Next]_vars => DestReserved'
<1> SUFFICES ASSUME TypeOK, ThreadLocal, DestReserved, [Next]_vars PROVE DestReserved'
  OBVIOUS
<1> USE DistinguishedValues, EpochAssumption DEF TypeOK, PCs, ThreadLocal,
        DestReserved, Settled, Up, My, Inside, epochs, states, scan, locals
<1>1. ASSUME NEW t \in Threads, Continue(t) PROVE DestReserved'
  <2>1. CASE Announce(t) \/ Exit(t)
    BY <2>1 DEF Announce, Exit
  <2>2. CASE LoadGlobal(t) \/ LoadHint(t) \/ BeginWalk(t) \/ ScanSlot(t) \/ EndWalk(t)
    BY <2>2 DEF LoadGlobal, LoadHint, BeginWalk, ScanSlot, EndWalk
  <2>3. CASE Advance(t) \/ Raise(t)
    BY <2>3 DEF Advance, ToReclaim, Raise
  <2>4. CASE Reclaim(t) \/ EndReclaim(t) \/ Release(t)
    BY <2>4 DEF Reclaim, DropHandle, Freeable, EndReclaim, Release
  <2>5. CASE GetLoad(t) \/ Incref(t)
    BY <2>5 DEF GetLoad, Incref
  <2>6. CASE PutFind(t) \/ PutReplace(t) \/ PutInsert(t) \/ PutRetry(t)
    BY <2>6 DEF PutFind, PutReplace, Retire, PutInsert, PutRetry
  <2> QED
    BY <1>1, <2>1, <2>2, <2>3, <2>4, <2>5, <2>6 DEF Continue
<1>2. ASSUME NEW t \in Threads, Choose(t) PROVE DestReserved'
  <2>1. CASE ThreadStart(t) \/ ThreadExit(t)
    BY <2>1 DEF ThreadStart, ThreadExit
  <2>2. CASE GetCall(t) \/ PutCall(t)
    BY <2>2 DEF GetCall, Enter, Available, PutCall
  <2> QED
    BY <1>2, <2>1, <2>2 DEF Choose
<1>3. ASSUME NEW r \in Refs, Close(r) PROVE DestReserved'
  BY <1>3 DEF Close, DropHandle
<1>4. CASE TeardownStore \/ TeardownDomain
  BY <1>4 DEF TeardownStore, TeardownDomain
<1>5. CASE UNCHANGED vars
  BY <1>5 DEF vars
<1> QED
  BY <1>1, <1>2, <1>3, <1>4, <1>5 DEF Next, Terminated

(***************************************************************************)
(* Scans and epochs                                                        *)
(***************************************************************************)

\* Between the walk and the advance the cutoff and the epoch read do not part.
LEMMA ScanStep ==
  TypeOK /\ ThreadLocal /\ CutoffOfScan /\ [Next]_vars => CutoffOfScan'
<1> SUFFICES ASSUME TypeOK, ThreadLocal, CutoffOfScan, [Next]_vars PROVE CutoffOfScan'
  OBVIOUS
<1> USE DistinguishedValues, EpochAssumption DEF TypeOK, PCs, ThreadLocal,
        CutoffOfScan, Up, My, Inside, epochs, states, scan, locals
<1>1. ASSUME NEW t \in Threads, Continue(t) PROVE CutoffOfScan'
  <2>1. CASE Announce(t) \/ Exit(t)
    BY <2>1 DEF Announce, Exit
  <2>2. CASE LoadGlobal(t) \/ LoadHint(t) \/ BeginWalk(t) \/ ScanSlot(t) \/ EndWalk(t)
    BY <2>2 DEF LoadGlobal, LoadHint, BeginWalk, ScanSlot, EndWalk
  <2>3. CASE Advance(t) \/ Raise(t)
    BY <2>3 DEF Advance, ToReclaim, Raise
  <2>4. CASE Reclaim(t) \/ EndReclaim(t) \/ Release(t)
    BY <2>4 DEF Reclaim, DropHandle, Freeable, EndReclaim, Release
  <2>5. CASE GetLoad(t) \/ Incref(t)
    BY <2>5 DEF GetLoad, Incref
  <2>6. CASE PutFind(t) \/ PutReplace(t) \/ PutInsert(t) \/ PutRetry(t)
    BY <2>6 DEF PutFind, PutReplace, Retire, PutInsert, PutRetry
  <2> QED
    BY <1>1, <2>1, <2>2, <2>3, <2>4, <2>5, <2>6 DEF Continue
<1>2. ASSUME NEW t \in Threads, Choose(t) PROVE CutoffOfScan'
  <2>1. CASE ThreadStart(t) \/ ThreadExit(t)
    BY <2>1 DEF ThreadStart, ThreadExit
  <2>2. CASE GetCall(t) \/ PutCall(t)
    BY <2>2 DEF GetCall, Enter, Available, PutCall
  <2> QED
    BY <1>2, <2>1, <2>2 DEF Choose
<1>3. ASSUME NEW r \in Refs, Close(r) PROVE CutoffOfScan'
  BY <1>3 DEF Close, DropHandle
<1>4. CASE TeardownStore \/ TeardownDomain
  BY <1>4 DEF TeardownStore, TeardownDomain
<1>5. CASE UNCHANGED vars
  BY <1>5 DEF vars
<1> QED
  BY <1>1, <1>2, <1>3, <1>4, <1>5 DEF Next, Terminated

\* Entering reads an epoch no older than the one the slot last remembered, so
\* what is retired goes to the end of the list.
LEMMA SortedStep ==
  TypeOK /\ ThreadLocal /\ ListSorted /\ [Next]_vars => ListSorted'
<1> SUFFICES ASSUME TypeOK, ThreadLocal, ListSorted, [Next]_vars PROVE ListSorted'
  OBVIOUS
<1> USE DistinguishedValues, EpochAssumption DEF TypeOK, Entries, PCs, ThreadLocal,
        ListSorted, Up, My, Inside, epochs, states, scan, locals
<1>1. ASSUME NEW t \in Threads, Continue(t) PROVE ListSorted'
  <2>1. CASE Announce(t) \/ Exit(t)
    BY <2>1 DEF Announce, Exit
  <2>2. CASE LoadGlobal(t) \/ LoadHint(t) \/ BeginWalk(t) \/ ScanSlot(t) \/ EndWalk(t)
    BY <2>2 DEF LoadGlobal, LoadHint, BeginWalk, ScanSlot, EndWalk
  <2>3. CASE Advance(t) \/ Raise(t)
    BY <2>3 DEF Advance, ToReclaim, Raise
  <2>4. CASE Reclaim(t) \/ EndReclaim(t) \/ Release(t)
    BY <2>4 DEF Reclaim, DropHandle, Freeable, EndReclaim, Release
  <2>5. CASE GetLoad(t) \/ Incref(t)
    BY <2>5 DEF GetLoad, Incref
  <2>6. CASE PutFind(t) \/ PutReplace(t) \/ PutInsert(t) \/ PutRetry(t)
    BY <2>6 DEF PutFind, PutReplace, Retire, PutInsert, PutRetry
  <2> QED
    BY <1>1, <2>1, <2>2, <2>3, <2>4, <2>5, <2>6 DEF Continue
<1>2. ASSUME NEW t \in Threads, Choose(t) PROVE ListSorted'
  <2>1. CASE ThreadStart(t) \/ ThreadExit(t)
    BY <2>1 DEF ThreadStart, ThreadExit
  <2>2. CASE GetCall(t) \/ PutCall(t)
    BY <2>2 DEF GetCall, Enter, Available, PutCall
  <2> QED
    BY <1>2, <2>1, <2>2 DEF Choose
<1>3. ASSUME NEW r \in Refs, Close(r) PROVE ListSorted'
  BY <1>3 DEF Close, DropHandle
<1>4. CASE TeardownStore \/ TeardownDomain
  BY <1>4 DEF TeardownStore, TeardownDomain
<1>5. CASE UNCHANGED vars
  BY <1>5 DEF vars
<1> QED
  BY <1>1, <1>2, <1>3, <1>4, <1>5 DEF Next, Terminated

\* The epoch advances past an announcement once at most: a scan that advances
\* it from e has a cutoff of e, and CutoffBehind says e is not past what any
\* thread inside has announced.
LEMMA LagStep ==
  /\ TypeOK /\ ThreadLocal /\ SlotsOwned /\ CutoffBehind /\ CutoffOfScan /\ ~stale' /\ EpochLag
  /\ [Next]_vars
  => EpochLag'
<1> SUFFICES ASSUME TypeOK, ThreadLocal, SlotsOwned, CutoffBehind, CutoffOfScan, ~stale', EpochLag,
                    [Next]_vars
             PROVE  EpochLag'
  OBVIOUS
<1> USE DistinguishedValues, EpochAssumption DEF TypeOK, PCs, ThreadLocal, SlotsOwned,
        CutoffBehind, CutoffOfScan, EpochLag, Up, My, Inside, epochs, states, scan,
        locals
<1>1. ASSUME NEW t \in Threads, Continue(t) PROVE EpochLag'
  <2>1. CASE Announce(t) \/ Exit(t)
    BY <2>1 DEF Announce, Exit
  <2>2. CASE LoadGlobal(t) \/ LoadHint(t) \/ BeginWalk(t) \/ ScanSlot(t) \/ EndWalk(t)
    BY <2>2 DEF LoadGlobal, LoadHint, BeginWalk, ScanSlot, EndWalk
  <2>3. CASE Advance(t) \/ Raise(t)
    BY <2>3 DEF Advance, ToReclaim, Raise
  <2>4. CASE Reclaim(t) \/ EndReclaim(t) \/ Release(t)
    BY <2>4 DEF Reclaim, DropHandle, Freeable, EndReclaim, Release
  <2>5. CASE GetLoad(t) \/ Incref(t)
    BY <2>5 DEF GetLoad, Incref
  <2>6. CASE PutFind(t) \/ PutReplace(t) \/ PutInsert(t) \/ PutRetry(t)
    BY <2>6 DEF PutFind, PutReplace, Retire, PutInsert, PutRetry
  <2> QED
    BY <1>1, <2>1, <2>2, <2>3, <2>4, <2>5, <2>6 DEF Continue
<1>2. ASSUME NEW t \in Threads, Choose(t) PROVE EpochLag'
  <2>1. CASE ThreadStart(t) \/ ThreadExit(t)
    BY <2>1 DEF ThreadStart, ThreadExit
  <2>2. CASE GetCall(t) \/ PutCall(t)
    BY <2>2 DEF GetCall, Enter, Available, PutCall
  <2> QED
    BY <1>2, <2>1, <2>2 DEF Choose
<1>3. ASSUME NEW r \in Refs, Close(r) PROVE EpochLag'
  BY <1>3 DEF Close, DropHandle
<1>4. CASE TeardownStore \/ TeardownDomain
  BY <1>4 DEF TeardownStore, TeardownDomain
<1>5. CASE UNCHANGED vars
  BY <1>5 DEF vars
<1> QED
  BY <1>1, <1>2, <1>3, <1>4, <1>5 DEF Next, Terminated

\* A thread that announces the current epoch is not behind any cutoff, and a
\* cutoff only grows beyond a slot that the walk has found clear.
LEMMA BehindStep ==
  /\ TypeOK /\ ThreadLocal /\ SlotsOwned /\ CutoffOfScan /\ ~stale' /\ CutoffBehind
  /\ [Next]_vars
  => CutoffBehind'
<1> SUFFICES ASSUME TypeOK, ThreadLocal, SlotsOwned, CutoffOfScan, ~stale', CutoffBehind,
                    [Next]_vars
             PROVE  CutoffBehind'
  OBVIOUS
<1> USE DistinguishedValues, EpochAssumption DEF TypeOK, PCs, ThreadLocal, SlotsOwned,
        CutoffBehind, CutoffOfScan, EpochLag, Up, My, Inside, epochs, states, scan,
        locals
<1>1. ASSUME NEW t \in Threads, Continue(t) PROVE CutoffBehind'
  <2>1. CASE Announce(t) \/ Exit(t)
    BY <2>1 DEF Announce, Exit
  <2>2. CASE LoadGlobal(t) \/ LoadHint(t) \/ BeginWalk(t) \/ ScanSlot(t) \/ EndWalk(t)
    BY <2>2 DEF LoadGlobal, LoadHint, BeginWalk, ScanSlot, EndWalk
  <2>3. CASE Advance(t) \/ Raise(t)
    BY <2>3 DEF Advance, ToReclaim, Raise
  <2>4. CASE Reclaim(t) \/ EndReclaim(t) \/ Release(t)
    BY <2>4 DEF Reclaim, DropHandle, Freeable, EndReclaim, Release
  <2>5. CASE GetLoad(t) \/ Incref(t)
    BY <2>5 DEF GetLoad, Incref
  <2>6. CASE PutFind(t) \/ PutReplace(t) \/ PutInsert(t) \/ PutRetry(t)
    BY <2>6 DEF PutFind, PutReplace, Retire, PutInsert, PutRetry
  <2> QED
    BY <1>1, <2>1, <2>2, <2>3, <2>4, <2>5, <2>6 DEF Continue
<1>2. ASSUME NEW t \in Threads, Choose(t) PROVE CutoffBehind'
  <2>1. CASE ThreadStart(t) \/ ThreadExit(t)
    BY <2>1 DEF ThreadStart, ThreadExit
  <2>2. CASE GetCall(t) \/ PutCall(t)
    BY <2>2 DEF GetCall, Enter, Available, PutCall
  <2> QED
    BY <1>2, <2>1, <2>2 DEF Choose
<1>3. ASSUME NEW r \in Refs, Close(r) PROVE CutoffBehind'
  BY <1>3 DEF Close, DropHandle
<1>4. CASE TeardownStore \/ TeardownDomain
  BY <1>4 DEF TeardownStore, TeardownDomain
<1>5. CASE UNCHANGED vars
  BY <1>5 DEF vars
<1> QED
  BY <1>1, <1>2, <1>3, <1>4, <1>5 DEF Next, Terminated

(***************************************************************************)
(* Ownership                                                               *)
(***************************************************************************)

\* The steps that move no handle between owners.
SameOwners ==
    /\ UNCHANGED <<map, retired>>
    /\ \A t \in Threads, h \in Handles : Putting(t, h)' <=> Putting(t, h)

LEMMA QuietSteps ==
  ASSUME TypeOK, ThreadLocal, [Next]_vars
  PROVE  \/ SameOwners
         \/ \E t \in Threads : Reclaim(t) \/ PutCall(t) \/ PutReplace(t) \/ PutInsert(t)
         \/ TeardownStore
         \/ TeardownDomain
<1> USE DistinguishedValues DEF SameOwners, Putting, TypeOK, ThreadLocal, PCs, Up,
        states, scan, locals
<1>1. ASSUME NEW t \in Threads, Continue(t),
             ~(Reclaim(t) \/ PutReplace(t) \/ PutInsert(t))
      PROVE  SameOwners
  <2>1. CASE Announce(t) \/ Exit(t)
    BY <2>1 DEF Announce, Exit
  <2>2. CASE LoadGlobal(t) \/ LoadHint(t) \/ BeginWalk(t) \/ ScanSlot(t) \/ EndWalk(t)
    BY <2>2 DEF LoadGlobal, LoadHint, BeginWalk, ScanSlot, EndWalk
  <2>3. CASE Advance(t) \/ Raise(t) \/ EndReclaim(t) \/ Release(t)
    BY <2>3 DEF Advance, Raise, ToReclaim, EndReclaim, Release
  <2>4. CASE GetLoad(t) \/ Incref(t) \/ PutFind(t) \/ PutRetry(t)
    BY <2>4 DEF GetLoad, Incref, PutFind, PutRetry
  <2> QED
    BY <1>1, <2>1, <2>2, <2>3, <2>4 DEF Continue
<1>2. ASSUME NEW t \in Threads, Choose(t), ~PutCall(t) PROVE SameOwners
  BY <1>2 DEF Choose, ThreadStart, ThreadExit, GetCall, Enter, Available
<1>3. ASSUME \/ \E r \in Refs : Close(r)
             \/ UNCHANGED vars
      PROVE  SameOwners
  BY <1>3 DEF Close, vars
<1> QED
  BY <1>1, <1>2, <1>3 DEF Next, Continue, Choose, Terminated

LEMMA HoldersFinite ==
  \A h : IsFiniteSet(Holders(h)) /\ Cardinality(Holders(h)) \in Nat
BY FiniteInstance, FS_Subset, FS_CardinalityType DEF Holders

\* An address that make_handle may return is owned by nobody.
LEMMA FreeIsUnowned ==
  ASSUME RefcountExact, NEW h \in Handles, refcount[h] = 0
  PROVE  ~Owned(h)
BY HoldersFinite DEF RefcountExact

\* What the steps that move a handle do to its owners.
LEMMA ReclaimMoves ==
  ASSUME TypeOK, ThreadLocal, NEW t \in Threads, Reclaim(t)
  PROVE  \E e \in Freeable(t) :
           /\ e \in retired[node[t]] /\ e.ptr \in Handles /\ DropHandle(e.ptr)
           /\ retired' = [retired EXCEPT ![node[t]] = @ \ {e}]
           /\ UNCHANGED <<map, ref, pc, dest, ptr, node, announced>>
<1>1. PICK e \in Freeable(t) :
        /\ DropHandle(e.ptr)
        /\ retired' = [retired EXCEPT ![node[t]] = @ \ {e}]
  BY DEF Reclaim
<1>2. node[t] \in Slots
  BY DEF Reclaim, TypeOK, ThreadLocal, Up
<1>3. e \in retired[node[t]]
  BY DEF Freeable, My
<1>4. e.ptr \in Handles
  BY <1>2, <1>3 DEF TypeOK, Entries
<1>5. UNCHANGED <<map, ref, pc, dest, ptr, node, announced>>
  BY DEF Reclaim, states, locals
<1> QED
  BY <1>1, <1>3, <1>4, <1>5

LEMMA PutCallMoves ==
  ASSUME TypeOK, ThreadLocal, NEW t \in Threads, PutCall(t)
  PROVE  \E h \in Handles :
           /\ refcount[h] = 0 /\ refcount' = [refcount EXCEPT ![h] = 1]
           /\ \A u \in Threads, x \in Handles :
                Putting(u, x)' <=> (Putting(u, x) \/ (u = t /\ x = h))
           /\ ~\E x \in Handles : Putting(t, x)
           /\ UNCHANGED <<map, retired, ref>>
<1>1. PICK h \in Handles :
        /\ refcount[h] = 0 /\ refcount' = [refcount EXCEPT ![h] = 1]
        /\ ptr' = [ptr EXCEPT ![t] = h]
  BY DEF PutCall
<1>2. /\ pc[t] = "idle" /\ pc' = [pc EXCEPT ![t] = "announce"]
      /\ UNCHANGED <<map, retired, ref, dest>>
  BY DEF PutCall, Enter
<1>3. dest[t] = NULL
  BY <1>2 DEF ThreadLocal
<1>4. ~\E x \in Handles : Putting(t, x)
  BY <1>2 DEF Putting
<1>5. ASSUME NEW u \in Threads, NEW x \in Handles
      PROVE  Putting(u, x)' <=> (Putting(u, x) \/ (u = t /\ x = h))
  BY <1>1, <1>2, <1>3 DEF Putting, TypeOK
<1> QED
  BY <1>1, <1>2, <1>4, <1>5

LEMMA PutInsertMoves ==
  ASSUME TypeOK, ThreadLocal, NEW t \in Threads, PutInsert(t)
  PROVE  /\ key[t] \in Keys /\ map[key[t]] = NULL
         /\ map' = [map EXCEPT ![key[t]] = ptr[t]]
         /\ ptr[t] \in Handles /\ Putting(t, ptr[t])
         /\ \A u \in Threads, x \in Handles : Putting(u, x)' <=> Putting(u, x) /\ u # t
         /\ UNCHANGED retired
BY DistinguishedValues DEF PutInsert, Putting, TypeOK, ThreadLocal, Up, scan, states

LEMMA PutReplaceMoves ==
  ASSUME TypeOK, ThreadLocal, NEW t \in Threads, PutReplace(t)
  PROVE  /\ key[t] \in Keys /\ map[key[t]] \in Handles
         /\ map' = [map EXCEPT ![key[t]] = ptr[t]]
         /\ ptr[t] \in Handles /\ Putting(t, ptr[t])
         /\ \A u \in Threads, x \in Handles : Putting(u, x)' <=> Putting(u, x) /\ u # t
         /\ node[t] \in Slots
         /\ retired' = [retired EXCEPT ![node[t]] =
                          @ \union {[ptr |-> map[key[t]], epoch |-> cached[node[t]]]}]
BY DistinguishedValues DEF PutReplace, Retire, My, Putting, TypeOK, ThreadLocal, Up, scan, states

LEMMA OwnedOnceStep == IInv /\ [Next]_vars => OwnedOnce'
<1> SUFFICES ASSUME IInv, [Next]_vars, NEW x \in Handles PROVE SoleOwner(x)'
  BY DEF OwnedOnce
<1>a. TypeOK /\ ThreadLocal /\ RefcountExact /\ SoleOwner(x)
  BY DEF IInv, OwnedOnce
<1>b. retired \in [Slots -> SUBSET Entries] /\ map \in [Keys -> Handles \union {NULL}]
  BY <1>a DEF TypeOK
<1> USE DistinguishedValues DEF SoleOwner, InElement, InPut, InRetired
<1>1. CASE SameOwners
  BY <1>a, <1>1 DEF SameOwners
<1>2. ASSUME NEW t \in Threads, Reclaim(t) PROVE SoleOwner(x)'
  <2>1. \A s \in Slots : retired'[s] \subseteq retired[s]
    BY <1>2, <1>a, <1>b, ReclaimMoves
  <2>2. map' = map /\ \A u \in Threads : Putting(u, x)' <=> Putting(u, x)
    BY <1>2, <1>a, ReclaimMoves DEF Putting
  <2> QED
    BY <1>a, <2>1, <2>2
<1>3. ASSUME NEW t \in Threads, PutCall(t) PROVE SoleOwner(x)'
  <2>1. PICK h \in Handles :
           /\ refcount[h] = 0
           /\ \A u \in Threads, y \in Handles :
                Putting(u, y)' <=> (Putting(u, y) \/ (u = t /\ y = h))
           /\ ~\E y \in Handles : Putting(t, y)
           /\ UNCHANGED <<map, retired>>
    BY <1>3, <1>a, PutCallMoves
  <2>2. ~Owned(h)
    BY <1>a, <2>1, FreeIsUnowned
  <2> QED
    BY <1>a, <2>1, <2>2 DEF Owned
<1>4. ASSUME NEW t \in Threads, PutInsert(t) PROVE SoleOwner(x)'
  BY <1>a, <1>b, <1>4, PutInsertMoves
<1>5. ASSUME NEW t \in Threads, PutReplace(t) PROVE SoleOwner(x)'
  <2>1. /\ key[t] \in Keys /\ map[key[t]] \in Handles
        /\ map' = [map EXCEPT ![key[t]] = ptr[t]]
        /\ ptr[t] \in Handles /\ Putting(t, ptr[t])
        /\ \A u \in Threads : Putting(u, x)' <=> Putting(u, x) /\ u # t
    BY <1>5, <1>a, PutReplaceMoves
  <2> DEFINE d == [ptr |-> map[key[t]], epoch |-> cached[node[t]]]
  <2>2. /\ d.ptr = map[key[t]]
        /\ retired' = [retired EXCEPT ![node[t]] = @ \union {d}]
        /\ node[t] \in Slots
    BY <1>5, <1>a, PutReplaceMoves
  <2> HIDE DEF d
  <2>3. \A s \in Slots : \A e :
          e \in retired'[s] <=> e \in retired[s] \/ (s = node[t] /\ e = d)
    BY <1>b, <2>2
  <2>4. CASE x = map[key[t]]
    <3>1. ~InRetired(x) /\ ~InPut(x) /\ x # ptr[t]
      BY <1>a, <2>1, <2>4
    <3>2. \A r, s \in Slots : \A c \in retired'[r], e \in retired'[s] :
            c.ptr = x /\ e.ptr = x => r = s /\ c = e
      BY <2>3, <3>1
    <3>3. ~InElement(x)' /\ ~InPut(x)'
      BY <1>a, <1>b, <2>1, <2>4, <3>1
    <3> QED
      BY <3>2, <3>3
  <2>5. CASE x # map[key[t]]
    <3>1. \A s \in Slots : \A e : e.ptr = x => (e \in retired'[s] <=> e \in retired[s])
      BY <2>2, <2>3, <2>5
    <3> QED
      BY <1>a, <1>b, <2>1, <2>5, <3>1
  <2> QED
    BY <2>4, <2>5
<1>6. CASE TeardownStore
  BY <1>a, <1>6 DEF TeardownStore, Putting, locals
<1>7. CASE TeardownDomain
  BY <1>a, <1>7 DEF TeardownDomain, Putting, locals
<1> QED
  BY <1>a, <1>1, <1>2, <1>3, <1>4, <1>5, <1>6, <1>7, QuietSteps

(***************************************************************************)
(* Reference counts                                                        *)
(***************************************************************************)

\* The steps that leave counts and references alone.
LEMMA QuietCounts ==
  ASSUME [Next]_vars
  PROVE  \/ UNCHANGED <<refcount, ref>>
         \/ \E t \in Threads : GetLoad(t) \/ Incref(t) \/ Reclaim(t) \/ PutCall(t)
         \/ \E r \in Refs : Close(r)
         \/ TeardownStore
         \/ TeardownDomain
BY DEF Next, Continue, Choose, Terminated, vars, Announce, Exit, LoadGlobal, LoadHint,
   BeginWalk, ScanSlot, EndWalk, Advance, Raise, EndReclaim, Release, PutFind,
   PutInsert, PutReplace, PutRetry, ThreadStart, ThreadExit, GetCall

\* A handle passes from owner to owner; only three kinds of step make an
\* owned handle of an unowned one or the other way round.
LEMMA OwnedMoves ==
  ASSUME TypeOK, ThreadLocal, [Next]_vars, NEW x \in Handles
  PROVE  \/ Owned(x)' <=> Owned(x)
         \/ \E t \in Threads : Reclaim(t) \/ PutCall(t)
         \/ TeardownStore
         \/ TeardownDomain
<1>b. retired \in [Slots -> SUBSET Entries] /\ map \in [Keys -> Handles \union {NULL}]
  BY DEF TypeOK
<1> USE DistinguishedValues DEF Owned, InElement, InPut, InRetired
<1>1. CASE SameOwners
  BY <1>1 DEF SameOwners
<1>2. ASSUME NEW t \in Threads, PutInsert(t) PROVE Owned(x)' <=> Owned(x)
  <2>1. InElement(x)' <=> InElement(x) \/ x = ptr[t]
    BY <1>b, <1>2, PutInsertMoves
  <2>2. InPut(x) <=> InPut(x)' \/ x = ptr[t]
    BY <1>2, PutInsertMoves DEF Putting
  <2>3. retired' = retired
    BY <1>2, PutInsertMoves
  <2> QED
    BY <2>1, <2>2, <2>3
<1>3. ASSUME NEW t \in Threads, PutReplace(t) PROVE Owned(x)' <=> Owned(x)
  <2>1. /\ key[t] \in Keys /\ map[key[t]] \in Handles
        /\ map' = [map EXCEPT ![key[t]] = ptr[t]]
        /\ ptr[t] \in Handles /\ Putting(t, ptr[t])
        /\ \A u \in Threads : Putting(u, x)' <=> Putting(u, x) /\ u # t
    BY <1>3, PutReplaceMoves
  <2>2. InRetired(x)' <=> InRetired(x) \/ x = map[key[t]]
    <3> DEFINE d == [ptr |-> map[key[t]], epoch |-> cached[node[t]]]
    <3>1. node[t] \in Slots /\ retired' = [retired EXCEPT ![node[t]] = @ \union {d}]
      BY <1>3, PutReplaceMoves
    <3>2. d.ptr = map[key[t]]
      OBVIOUS
    <3> HIDE DEF d
    <3>3. \A s \in Slots : \A e :
            e \in retired'[s] <=> e \in retired[s] \/ (s = node[t] /\ e = d)
      BY <1>b, <3>1
    <3> QED
      BY <3>1, <3>2, <3>3
  <2>3. InElement(x) \/ x = ptr[t] <=> InElement(x)' \/ (x = map[key[t]] /\ InElement(x))
    BY <1>b, <2>1
  <2>4. InPut(x) \/ x = ptr[t] <=> InPut(x)' \/ x = ptr[t]
    BY <2>1 DEF Putting
  <2>5. (x = ptr[t] => InElement(x)' /\ InPut(x)) /\ (x = map[key[t]] => InElement(x))
    BY <1>b, <2>1
  <2> QED
    BY <2>2, <2>3, <2>4, <2>5
<1> QED
  BY <1>1, <1>2, <1>3, QuietSteps

\* One more reference, or one fewer.
LEMMA HolderAdded ==
  ASSUME NEW x, NEW r \in Refs, r \notin Holders(x), Holders(x)' = Holders(x) \union {r}
  PROVE  Cardinality(Holders(x)') = Cardinality(Holders(x)) + 1
BY HoldersFinite, FS_AddElement

LEMMA HolderRemoved ==
  ASSUME NEW x, NEW r \in Refs, r \in Holders(x), Holders(x)' = Holders(x) \ {r}
  PROVE  Cardinality(Holders(x)') = Cardinality(Holders(x)) - 1
BY HoldersFinite, FS_RemoveElement

\* The equation of RefcountExact for one handle.
CountOf(h) == refcount[h] = Cardinality(Holders(h)) + (IF Owned(h) THEN 1 ELSE 0)

LEMMA RefcountStep == IInv /\ [Next]_vars => RefcountExact'
<1> SUFFICES ASSUME IInv, [Next]_vars, NEW x \in Handles PROVE CountOf(x)'
  BY DEF RefcountExact, CountOf
<1>a. TypeOK /\ ThreadLocal /\ DestReserved /\ RefcountExact /\ SoleOwner(x) /\ CountOf(x)
  BY DEF IInv, OwnedOnce, RefcountExact, CountOf
<1>b. /\ Cardinality(Holders(x)) \in Nat /\ refcount[x] \in Int
      /\ refcount \in [Handles -> Int] /\ retired \in [Slots -> SUBSET Entries]
      /\ ref \in [Refs -> Handles \union {NULL, Unborn}]
      /\ map \in [Keys -> Handles \union {NULL}]
  BY <1>a, HoldersFinite DEF TypeOK
<1>c. \/ Owned(x)' <=> Owned(x)
      \/ \E t \in Threads : Reclaim(t) \/ PutCall(t)
      \/ TeardownStore \/ TeardownDomain
  BY <1>a, OwnedMoves
<1> USE <1>b, DistinguishedValues
<1>1. CASE UNCHANGED <<refcount, ref>> /\ (Owned(x)' <=> Owned(x))
  <2>1. Holders(x)' = Holders(x)
    BY <1>1 DEF Holders
  <2> QED
    BY <1>a, <1>1, <2>1 DEF CountOf
<1>2. ASSUME NEW t \in Threads, GetLoad(t), Owned(x)' <=> Owned(x) PROVE CountOf(x)'
  <2>1. Holders(x)' = Holders(x)
    BY <1>a, <1>2 DEF GetLoad, DestReserved, Holders
  <2> QED
    BY <1>a, <1>2, <2>1 DEF CountOf, GetLoad
<1>3. ASSUME NEW t \in Threads, Incref(t), Owned(x)' <=> Owned(x) PROVE CountOf(x)'
  <2>1. ptr[t] \in Handles /\ dest[t] \in Refs /\ ref[dest[t]] = Unborn
    BY <1>a, <1>3 DEF Incref, ThreadLocal, DestReserved, TypeOK
  <2>2. CASE x = ptr[t]
    <3>1. dest[t] \notin Holders(x) /\ Holders(x)' = Holders(x) \union {dest[t]}
      BY <1>3, <2>1, <2>2 DEF Incref, Holders
    <3>2. refcount'[x] = refcount[x] + 1
      BY <1>3, <2>1, <2>2 DEF Incref
    <3>3. Cardinality(Holders(x)') = Cardinality(Holders(x)) + 1
      BY <2>1, <3>1, HolderAdded
    <3> QED
      BY <1>a, <1>3, <3>2, <3>3 DEF CountOf
  <2>3. CASE x # ptr[t]
    <3>1. Holders(x)' = Holders(x) /\ refcount'[x] = refcount[x]
      BY <1>3, <2>1, <2>3 DEF Incref, Holders
    <3> QED
      BY <1>a, <1>3, <3>1 DEF CountOf
  <2> QED
    BY <2>2, <2>3
<1>4. ASSUME NEW t \in Threads, Reclaim(t) PROVE CountOf(x)'
  <2>1. PICK e : /\ e \in retired[node[t]] /\ e.ptr \in Handles /\ DropHandle(e.ptr)
                 /\ retired' = [retired EXCEPT ![node[t]] = @ \ {e}]
                 /\ UNCHANGED <<map, ref, pc, dest, ptr>>
    BY <1>4, <1>a, ReclaimMoves
  <2>a. node[t] \in Slots
    BY <1>4, <1>a DEF Reclaim, ThreadLocal, Up, TypeOK
  <2>2. Holders(x)' = Holders(x) /\ (InElement(x)' <=> InElement(x)) /\ (InPut(x)' <=> InPut(x))
    BY <2>1 DEF Holders, InElement, InPut, Putting
  <2>3. CASE x = e.ptr
    <3>1. InRetired(x)
      BY <2>1, <2>a, <2>3 DEF InRetired
    <3>2. ~InRetired(x)'
      BY <1>a, <2>1, <2>a, <2>3 DEF InRetired, SoleOwner
    <3>3. Owned(x) /\ ~Owned(x)'
      BY <1>a, <2>2, <3>1, <3>2 DEF SoleOwner, Owned
    <3>4. refcount'[x] = refcount[x] - 1
      BY <2>1, <2>3 DEF DropHandle
    <3> QED
      BY <1>a, <2>2, <3>3, <3>4 DEF CountOf
  <2>4. CASE x # e.ptr
    <3>1. InRetired(x)' <=> InRetired(x)
      BY <2>1, <2>a, <2>4 DEF InRetired
    <3>2. refcount'[x] = refcount[x]
      BY <2>1, <2>4 DEF DropHandle
    <3> QED
      BY <1>a, <2>2, <3>1, <3>2 DEF CountOf, Owned
  <2> QED
    BY <2>3, <2>4
<1>5. ASSUME NEW t \in Threads, PutCall(t) PROVE CountOf(x)'
  <2>1. PICK h \in Handles :
           /\ refcount[h] = 0 /\ refcount' = [refcount EXCEPT ![h] = 1]
           /\ \A u \in Threads, y \in Handles :
                Putting(u, y)' <=> (Putting(u, y) \/ (u = t /\ y = h))
           /\ UNCHANGED <<map, retired, ref>>
    BY <1>5, <1>a, PutCallMoves
  <2>2. Holders(x)' = Holders(x) /\ (InElement(x)' <=> InElement(x))
        /\ (InRetired(x)' <=> InRetired(x))
    BY <2>1 DEF Holders, InElement, InRetired
  <2>3. CASE x = h
    <3>1. ~Owned(x) /\ InPut(x)'
      BY <1>a, <2>1, <2>3, FreeIsUnowned DEF InPut
    <3> QED
      BY <1>a, <2>1, <2>2, <2>3, <3>1 DEF CountOf, Owned
  <2>4. CASE x # h
    <3>1. InPut(x)' <=> InPut(x)
      BY <2>1, <2>4 DEF InPut
    <3> QED
      BY <1>a, <2>1, <2>2, <2>4, <3>1 DEF CountOf, Owned
  <2> QED
    BY <2>3, <2>4
<1>6. ASSUME NEW r \in Refs, Close(r), Owned(x)' <=> Owned(x) PROVE CountOf(x)'
  <2>1. CASE x = ref[r]
    <3>1. r \in Holders(x) /\ Holders(x)' = Holders(x) \ {r}
      BY <1>6, <2>1 DEF Close, Holders
    <3>2. refcount'[x] = refcount[x] - 1
      BY <1>6, <2>1 DEF Close, DropHandle
    <3>3. Cardinality(Holders(x)') = Cardinality(Holders(x)) - 1
      BY <3>1, HolderRemoved
    <3> QED
      BY <1>a, <1>6, <3>2, <3>3 DEF CountOf
  <2>2. CASE x # ref[r]
    <3>1. Holders(x)' = Holders(x) /\ refcount'[x] = refcount[x]
      BY <1>6, <2>2 DEF Close, DropHandle, Holders
    <3> QED
      BY <1>a, <1>6, <3>1 DEF CountOf
  <2> QED
    BY <2>1, <2>2
<1>7. CASE TeardownStore
  <2>1. ~InPut(x) /\ ~InPut(x)' /\ ~InElement(x)'
    BY <1>7 DEF TeardownStore, Up, locals, InElement, InPut, Putting
  <2>2. (InRetired(x)' <=> InRetired(x)) /\ Holders(x)' = Holders(x)
    BY <1>7 DEF TeardownStore, InRetired, Holders
  <2>3. refcount'[x] = IF InElement(x) THEN refcount[x] - 1 ELSE refcount[x]
    BY <1>7 DEF TeardownStore, InElement
  <2> QED
    BY <1>a, <2>1, <2>2, <2>3 DEF SoleOwner, Owned, CountOf
<1>8. CASE TeardownDomain
  <2>1. ~InRetired(x)' /\ (InElement(x)' <=> InElement(x)) /\ (InPut(x)' <=> InPut(x))
    BY <1>8 DEF TeardownDomain, InElement, InRetired, InPut, Putting, locals
  <2>2. Holders(x)' = Holders(x)
    BY <1>8 DEF TeardownDomain, Holders
  <2>3. refcount'[x] = IF InRetired(x) THEN refcount[x] - 1 ELSE refcount[x]
    BY <1>8 DEF TeardownDomain, InRetired
  <2> QED
    BY <1>a, <2>1, <2>2, <2>3 DEF SoleOwner, Owned, CountOf
<1> QED
  BY <1>c, <1>1, <1>2, <1>3, <1>4, <1>5, <1>6, <1>7, <1>8, QuietCounts

(***************************************************************************)
(* Epochs guard what a get has read                                        *)
(***************************************************************************)

\* A get reaches "incref" by reading the table, and nobody else changes what
\* it has read or announced.
LEMMA IncrefFrame ==
  ASSUME TypeOK, ThreadLocal, SlotsOwned, [Next]_vars, NEW g \in Threads, pc'[g] = "incref"
  PROVE  /\ node'[g] = node[g] /\ My(announced, g)' = My(announced, g)
         /\ \/ pc[g] = "incref" /\ ptr'[g] = ptr[g]
            \/ GetLoad(g) /\ ptr'[g] = map[key[g]] /\ map[key[g]] # NULL /\ key[g] \in Keys
<1> USE DEF TypeOK, ThreadLocal, SlotsOwned, Up, My, states, scan, locals
<1>1. ASSUME NEW t \in Threads, Continue(t)
      PROVE  /\ node'[g] = node[g] /\ My(announced, g)' = My(announced, g)
             /\ \/ pc[g] = "incref" /\ ptr'[g] = ptr[g]
                \/ GetLoad(g) /\ ptr'[g] = map[key[g]] /\ map[key[g]] # NULL /\ key[g] \in Keys
  <2>1. CASE Announce(t) \/ Exit(t)
    BY <2>1 DEF Announce, Exit
  <2>2. CASE LoadGlobal(t) \/ LoadHint(t) \/ BeginWalk(t) \/ ScanSlot(t) \/ EndWalk(t)
    BY <2>2 DEF LoadGlobal, LoadHint, BeginWalk, ScanSlot, EndWalk
  <2>3. CASE Advance(t) \/ Raise(t) \/ Reclaim(t) \/ EndReclaim(t) \/ Release(t)
    BY <2>3 DEF Advance, Raise, ToReclaim, Reclaim, EndReclaim, Release
  <2>4. CASE GetLoad(t)
    BY <2>4 DEF GetLoad
  <2>5. CASE Incref(t) \/ PutFind(t) \/ PutRetry(t) \/ PutInsert(t) \/ PutReplace(t)
    BY <2>5 DEF Incref, PutFind, PutRetry, PutInsert, PutReplace
  <2> QED
    BY <1>1, <2>1, <2>2, <2>3, <2>4, <2>5 DEF Continue
<1>2. ASSUME NEW t \in Threads, Choose(t)
      PROVE  /\ node'[g] = node[g] /\ My(announced, g)' = My(announced, g)
             /\ pc[g] = "incref" /\ ptr'[g] = ptr[g]
  BY <1>2 DEF Choose, ThreadStart, ThreadExit, GetCall, PutCall, Enter
<1>3. ASSUME (\E r \in Refs : Close(r)) \/ TeardownStore \/ TeardownDomain \/ UNCHANGED vars
      PROVE  UNCHANGED <<pc, ptr, node, announced>>
  BY <1>3 DEF Close, TeardownStore, TeardownDomain, vars
<1> QED
  BY <1>1, <1>2, <1>3 DEF Next, Terminated

\* No step takes the ownership of a handle that a get is about to count away,
\* or lets it grow too old.  (p and a stand for what the get has read and
\* announced.)
LEMMA GuardKept ==
  ASSUME IInv, [Next]_vars, NEW g \in Threads, pc[g] = "incref",
         NEW p \in Handles, p = ptr[g], NEW a \in Nat, a = My(announced, g)
  PROVE  /\ InElement(p)' \/ InRetired(p)'
         /\ \A s \in Slots : \A e \in retired'[s] : e.ptr = p => a <= e.epoch + 1
<1> DEFINE Safe == /\ InElement(p)' \/ InRetired(p)'
                   /\ \A s \in Slots : \A e \in retired'[s] : e.ptr = p => a <= e.epoch + 1
<1>a. TypeOK /\ ThreadLocal /\ SlotsOwned /\ OwnedOnce /\ Guarded /\ EpochLag /\ CutoffBehind
  BY DEF IInv
<1>b. retired \in [Slots -> SUBSET Entries] /\ map \in [Keys -> Handles \union {NULL}]
  BY <1>a DEF TypeOK
<1>c. /\ InElement(p) \/ InRetired(p)
      /\ \A s \in Slots : \A e \in retired[s] : e.ptr = p => a <= e.epoch + 1
  BY <1>a DEF Guarded
<1> USE <1>b, <1>c, DistinguishedValues DEF InElement, InRetired
<1>1. CASE SameOwners
  BY <1>1 DEF SameOwners
\* A scan that could let p go would have a cutoff beyond a.
<1>2. ASSUME NEW t \in Threads, Reclaim(t) PROVE Safe
  <2>1. PICK e \in Freeable(t) : /\ e \in retired[node[t]]
                                 /\ retired' = [retired EXCEPT ![node[t]] = @ \ {e}]
                                 /\ UNCHANGED map
    BY <1>2, <1>a, ReclaimMoves
  <2>2. cutoff[t] <= a /\ cutoff[t] \in Nat /\ node[t] \in Slots
    BY <1>2, <1>a DEF Reclaim, CutoffBehind, Inside, TypeOK, ThreadLocal, Up
  <2>3. e.epoch + 1 < cutoff[t] /\ e.epoch \in Nat
    BY <2>1, <2>2, <1>a DEF Freeable, TypeOK, Entries
  <2>4. e.ptr # p
    BY <2>1, <2>2, <2>3
  <2>5. \A s \in Slots : retired'[s] = IF s = node[t] THEN retired[s] \ {e} ELSE retired[s]
    BY <2>1
  <2>6. \A s \in Slots : \A d : d.ptr = p => (d \in retired'[s] <=> d \in retired[s])
    BY <2>4, <2>5
  <2> QED
    BY <2>1, <2>6
<1>3. ASSUME NEW t \in Threads, PutCall(t) PROVE Safe
  <2>1. UNCHANGED <<map, retired>>
    BY <1>3 DEF PutCall
  <2> QED
    BY <2>1
\* A bucket that is filled was empty.
<1>4. ASSUME NEW t \in Threads, PutInsert(t) PROVE Safe
  <2>1. /\ key[t] \in Keys /\ map[key[t]] = NULL /\ retired' = retired
        /\ map' = [map EXCEPT ![key[t]] = ptr[t]]
    BY <1>4, <1>a, PutInsertMoves
  <2>2. InElement(p) => InElement(p)'
    BY <2>1
  <2> QED
    BY <2>1, <2>2
\* What is replaced is retired, stamped with an epoch that a is not two ahead of.
<1>5. ASSUME NEW t \in Threads, PutReplace(t) PROVE Safe
  <2>1. /\ key[t] \in Keys /\ map' = [map EXCEPT ![key[t]] = ptr[t]] /\ node[t] \in Slots
        /\ retired' = [retired EXCEPT ![node[t]] =
                         @ \union {[ptr |-> map[key[t]], epoch |-> cached[node[t]]]}]
    BY <1>5, <1>a, PutReplaceMoves
  <2>2. a <= cached[node[t]] + 1
    <3>1. pc[t] = "swap"
      BY <1>5 DEF PutReplace
    <3>2. epoch <= My(announced, t) + 1 /\ My(announced, t) = My(cached, t)
      BY <3>1, <1>a DEF EpochLag, ThreadLocal, Inside
    <3>3. a <= epoch
      BY <1>a, DistinguishedValues DEF TypeOK, ThreadLocal, My, Inside, Up
    <3> QED
      BY <3>2, <3>3, <2>1, <1>a DEF TypeOK, My
  <2> DEFINE d == [ptr |-> map[key[t]], epoch |-> cached[node[t]]]
  <2>3. \A s \in Slots : \A e :
          e \in retired'[s] <=> e \in retired[s] \/ (s = node[t] /\ e = d)
    BY <2>1
  <2>4. d.ptr = map[key[t]] /\ d.epoch = cached[node[t]]
    OBVIOUS
  <2> HIDE DEF d
  <2>5. InElement(p) \/ InRetired(p) => InElement(p)' \/ InRetired(p)'
    BY <2>1, <2>3, <2>4
  <2> QED
    BY <2>2, <2>3, <2>4, <2>5
<1>6. CASE TeardownStore \/ TeardownDomain
  <2>1. pc[g] = "down"
    BY <1>6, <1>a DEF TeardownStore, TeardownDomain, ThreadLocal, Up
  <2> QED
    BY <2>1
<1> QED
  BY <1>a, <1>1, <1>2, <1>3, <1>4, <1>5, <1>6, QuietSteps

LEMMA GuardedStep == IInv /\ [Next]_vars => Guarded'
<1> SUFFICES ASSUME IInv, [Next]_vars, NEW g \in Threads, pc'[g] = "incref"
             PROVE  /\ (InElement(ptr[g]) \/ InRetired(ptr[g]))'
                    /\ \A s \in Slots : \A e \in retired'[s] :
                         e.ptr = ptr'[g] => My(announced, g)' <= e.epoch + 1
  BY DEF Guarded, InElement, InRetired, My
<1>a. TypeOK /\ ThreadLocal /\ SlotsOwned /\ OwnedOnce
  BY DEF IInv
<1>b. /\ node'[g] = node[g] /\ My(announced, g)' = My(announced, g)
      /\ \/ pc[g] = "incref" /\ ptr'[g] = ptr[g]
         \/ GetLoad(g) /\ ptr'[g] = map[key[g]] /\ map[key[g]] # NULL /\ key[g] \in Keys
  BY <1>a, IncrefFrame
\* It reads its handle in the table, where no retired handle is.
<1>1. CASE GetLoad(g) /\ ptr'[g] = map[key[g]] /\ map[key[g]] # NULL /\ key[g] \in Keys
  <2>1. UNCHANGED <<map, retired>> /\ map[key[g]] \in Handles /\ InElement(map[key[g]])
    BY <1>1, <1>a DEF GetLoad, InElement, TypeOK
  <2>2. ~InRetired(map[key[g]])
    BY <1>a, <2>1 DEF OwnedOnce, SoleOwner
  <2> QED
    BY <1>1, <2>1, <2>2 DEF InElement, InRetired
<1>2. CASE pc[g] = "incref" /\ ptr'[g] = ptr[g]
  <2>1. ptr[g] \in Handles /\ My(announced, g) \in Nat
    BY <1>2, <1>a, DistinguishedValues DEF ThreadLocal, TypeOK, Inside, Up, My
  <2>2. PICK p \in Handles, a \in Nat : p = ptr[g] /\ a = My(announced, g)
    BY <2>1
  <2>3. /\ InElement(p)' \/ InRetired(p)'
        /\ \A s \in Slots : \A e \in retired'[s] : e.ptr = p => a <= e.epoch + 1
    BY <1>2, <2>2, GuardKept
  <2> QED
    BY <1>b, <1>2, <2>2, <2>3 DEF InElement, InRetired
<1> QED
  BY <1>b, <1>1, <1>2

(***************************************************************************)
(* Theorems                                                                *)
(***************************************************************************)

LEMMA InitIInv == Init => IInv
<1> SUFFICES ASSUME Init PROVE IInv
  OBVIOUS
<1> USE DistinguishedValues, EpochAssumption DEF Init
<1>1. TypeOK
  <2>1. epoch = 0 /\ 0 \in 0..epoch /\ 0 \in 0..0
    OBVIOUS
  <2>2. retired \in [Slots -> SUBSET Entries]
    OBVIOUS
  <2>3. /\ min_active \in 0..epoch
        /\ announced \in [Slots -> 0..epoch \union {INACTIVE}]
        /\ cached \in [Slots -> 0..epoch]
        /\ global \in [Threads -> 0..epoch]
        /\ hint \in [Threads -> 0..epoch]
        /\ cutoff \in [Threads -> 0..epoch]
    BY <2>1
  <2>4. /\ map \in [Keys -> Handles \union {NULL}]
        /\ refcount \in [Handles -> Int]
        /\ ref \in [Refs -> Handles \union {NULL, Unborn}]
        /\ node \in [Threads -> Slots \union {NULL}]
        /\ key \in [Threads -> Keys \union {NULL}]
        /\ dest \in [Threads -> Refs \union {NULL}]
        /\ ptr \in [Threads -> Handles \union {NULL}]
        /\ old \in [Threads -> Handles \union {NULL}]
    OBVIOUS
  <2>5. /\ active \in [Slots -> BOOLEAN]
        /\ leaving \in [Threads -> BOOLEAN]
        /\ used \in SUBSET Slots
        /\ todo \in [Threads -> SUBSET Slots]
    OBVIOUS
  <2>6. epoch \in Nat /\ pc \in [Threads -> PCs]
        /\ phase \in {"open", "store_reset", "domain_reset"}
    BY DEF PCs
  <2>7. stale \in BOOLEAN
    OBVIOUS
  <2> HIDE DEF Init
  <2> QED
    BY <2>2, <2>3, <2>4, <2>5, <2>6, <2>7 DEF TypeOK
<1>2. ThreadLocal /\ SlotsOwned /\ DestReserved /\ EpochLag /\ CutoffBehind /\ CutoffOfScan
      /\ Guarded /\ ListSorted
  BY DEF ThreadLocal, SlotsOwned, DestReserved, EpochLag, CutoffBehind, CutoffOfScan,
     Guarded, ListSorted, Up, Inside
<1>3. \A h \in Handles : ~InElement(h) /\ ~InPut(h) /\ ~InRetired(h)
  BY DEF InElement, InPut, Putting, InRetired
<1>4. OwnedOnce
  BY <1>3 DEF OwnedOnce, SoleOwner, InElement, Putting
<1>5. RefcountExact
  <2>1. \A h \in Handles : Holders(h) = {}
    BY DEF Holders
  <2>2. \A h \in Handles : Cardinality(Holders(h)) = 0
    BY <2>1, FS_EmptySet
  <2>3. \A h \in Handles : ~Owned(h) /\ refcount[h] = 0
    BY <1>3 DEF Owned
  <2> QED
    BY <2>2, <2>3 DEF RefcountExact
<1> QED
  BY <1>1, <1>2, <1>4, <1>5 DEF IInv

\* A step after which no announcement has been stale keeps the invariant.
LEMMA Step == IInv /\ [Next]_vars /\ ~stale' => IInv'
BY TypeStep, LocalStep, OwnedStep, DestStep, OwnedOnceStep, RefcountStep, LagStep,
   BehindStep, ScanStep, GuardedStep, SortedStep DEF IInv

\* A stale announcement is not forgotten.
LEMMA StaleStays == stale /\ [Next]_vars => stale'
BY DEF Next, Continue, Choose, Terminated, vars, Announce, Exit, LoadGlobal, LoadHint,
   BeginWalk, ScanSlot, EndWalk, Advance, Raise, Reclaim, EndReclaim, Release, GetLoad,
   Incref, PutFind, PutInsert, PutReplace, PutRetry, ThreadStart, ThreadExit, GetCall,
   PutCall, Close, TeardownStore, TeardownDomain

\* Until some thread announces an epoch that has passed, the invariant holds.
THEOREM Inductive == Spec => [](~stale => IInv)
<1>1. Init => (~stale => IInv)
  BY InitIInv
<1>2. (~stale => IInv) /\ [Next]_vars => (~stale => IInv)'
  BY Step, StaleStays
<1> QED
  BY <1>1, <1>2, PTL DEF Spec

\* A get counts a handle that exists and a reference holds one that exists, as
\* long as no thread has announced an epoch that had passed.
THEOREM MemorySafe == Spec => [](~stale => NoUseAfterFree)
<1>1. IInv => NoUseAfterFree
  <2> SUFFICES ASSUME IInv PROVE NoUseAfterFree
    OBVIOUS
  <2>1. ASSUME NEW t \in Threads, pc[t] = "incref" PROVE refcount[ptr[t]] > 0
    <3>1. ptr[t] \in Handles /\ Owned(ptr[t])
      BY <2>1 DEF IInv, ThreadLocal, Guarded, Owned
    <3> QED
      BY <3>1, HoldersFinite DEF IInv, RefcountExact
  <2>2. ASSUME NEW r \in Refs, ref[r] \in Handles PROVE refcount[ref[r]] > 0
    <3>1. Holders(ref[r]) # {}
      BY DEF Holders
    <3>2. Cardinality(Holders(ref[r])) > 0
      BY <3>1, HoldersFinite, FS_EmptySet
    <3> QED
      BY <2>2, <3>2, HoldersFinite DEF IInv, RefcountExact
  <2> QED
    BY <2>1, <2>2 DEF NoUseAfterFree
<1> QED
  BY Inductive, <1>1, PTL

\* A thread inside a critical section holds the epoch back.
THEOREM EpochHeld == Spec => [](~stale => EpochLag)
<1>1. IInv => EpochLag
  BY DEF IInv
<1> QED
  BY Inductive, <1>1, PTL

\* No handle is dropped twice and none is forgotten.
THEOREM CountsExact == Spec => [](~stale => RefcountExact)
<1>1. IInv => RefcountExact
  BY DEF IInv
<1> QED
  BY Inductive, <1>1, PTL

\* Whether or not an announcement is stale, the state keeps its shape and every
\* retired list stays sorted: lower_bound (ebr.cpp:97) finds the right entries.
THEOREM ListsSorted == Spec => [](TypeOK /\ ListSorted)
<1> DEFINE Shape == TypeOK /\ ThreadLocal /\ SlotsOwned /\ ListSorted
<1>1. Init => Shape
  BY InitIInv DEF IInv
<1>2. Shape /\ [Next]_vars => Shape'
  BY TypeStep, LocalStep, OwnedStep, SortedStep
<1>3. Shape => TypeOK /\ ListSorted
  OBVIOUS
<1> HIDE DEF Shape
<1> QED
  BY <1>1, <1>2, <1>3, PTL DEF Spec

\* What the destructors of store and domain leave behind in their own state.
Gone ==
    /\ phase # "open" => \A k \in Keys : map[k] = NULL
    /\ phase = "domain_reset" => \A s \in Slots : retired[s] = {}

\* After the join no thread takes a step any more.
LEMMA GoneStep == TypeOK /\ ThreadLocal /\ Gone /\ [Next]_vars => Gone'
<1> SUFFICES ASSUME TypeOK, ThreadLocal, Gone, [Next]_vars PROVE Gone'
  OBVIOUS
<1>1. ASSUME NEW t \in Threads, Continue(t) \/ Choose(t) PROVE phase = "open" /\ phase' = phase
  <2>1. phase' = phase /\ (Up(t) \/ phase = "open")
    BY <1>1 DEF Continue, Choose, Announce, Exit, LoadGlobal, LoadHint, BeginWalk, ScanSlot,
       EndWalk, Advance, Raise, Reclaim, EndReclaim, Release, GetLoad, Incref, PutFind,
       PutReplace, PutInsert, PutRetry, ThreadStart, ThreadExit, GetCall, PutCall, Up
  <2> QED
    BY <2>1 DEF ThreadLocal
<1>2. ASSUME (\E r \in Refs : Close(r)) \/ UNCHANGED vars
      PROVE  UNCHANGED <<map, retired, phase>>
  BY <1>2 DEF Close, vars
<1>3. CASE TeardownStore
  BY <1>3 DEF TeardownStore, Gone
<1>4. CASE TeardownDomain
  BY <1>4 DEF TeardownDomain, Gone
<1> QED
  BY <1>1, <1>2, <1>3, <1>4 DEF Next, Terminated, Gone

\* When the host is done, only what a client still refers to is left, unless
\* some announcement was stale.
THEOREM NoLeaks == Spec => [](~stale => NothingLeaked)
<1> DEFINE Inv == ThreadLocal /\ SlotsOwned /\ TypeOK /\ Gone
<1>1. Init => Inv
  BY InitIInv DEF Init, Gone, IInv
<1>2. Inv /\ [Next]_vars => Inv'
  BY TypeStep, LocalStep, OwnedStep, GoneStep
<1>3. Inv => ((~stale => IInv) => (~stale => NothingLeaked))
  <2> SUFFICES ASSUME IInv, Gone, phase = "domain_reset", NEW h \in Handles, refcount[h] > 0
               PROVE  \E r \in Refs : ref[r] = h
    BY DEF NothingLeaked
  <2>1. \A t \in Threads : pc[t] = "down"
    BY DEF IInv, ThreadLocal, Up
  <2>2. ~Owned(h)
    BY <2>1, DistinguishedValues DEF Gone, Owned, InElement, InPut, Putting, InRetired
  <2>3. Cardinality(Holders(h)) > 0
    BY <2>2, HoldersFinite DEF IInv, RefcountExact
  <2>4. Holders(h) # {}
    BY <2>3, FS_EmptySet
  <2> QED
    BY <2>4 DEF Holders
<1> HIDE DEF Inv
<1> QED
  BY Inductive, <1>1, <1>2, <1>3, PTL DEF Spec

(***************************************************************************)
(* The epoch store implements ObjectStore                                  *)
(***************************************************************************)

\* What the mapping makes of a reference.
Counting(t, r) == pc[t] = "incref" /\ dest[t] = r

RefMapped ==
    /\ RefBar \in [Refs -> Handles \union {NULL, Unborn}]
    /\ \A r \in Refs :
         /\ \A t \in Threads : Counting(t, r) => RefBar[r] = ptr[t]
         /\ (\A t \in Threads : ~Counting(t, r)) => RefBar[r] = ref[r]

LEMMA RefMappedHolds == IInv => RefMapped
<1> SUFFICES ASSUME IInv PROVE RefMapped
  OBVIOUS
<1>1. ASSUME NEW r \in Refs
      PROVE  /\ RefBar[r] \in Handles \union {NULL, Unborn}
             /\ \A t \in Threads : Counting(t, r) => RefBar[r] = ptr[t]
             /\ (\A t \in Threads : ~Counting(t, r)) => RefBar[r] = ref[r]
  <2>1. CASE \E t \in Threads : Counting(t, r)
    <3> DEFINE c == CHOOSE t \in Threads : pc[t] = "incref" /\ dest[t] = r
    <3>1. c \in Threads /\ Counting(c, r)
      BY <2>1 DEF Counting
    <3>2. RefBar[r] = ptr[c]
      BY <3>1 DEF RefBar, Counting
    <3>3. \A t \in Threads : Counting(t, r) => t = c
      BY <3>1, DistinguishedValues DEF IInv, DestReserved, Counting
    <3>4. ptr[c] \in Handles
      BY <3>1 DEF IInv, ThreadLocal, Counting
    <3> QED
      BY <3>1, <3>2, <3>3, <3>4
  <2>2. CASE \A t \in Threads : ~Counting(t, r)
    BY <2>2 DEF RefBar, Counting, IInv, TypeOK
  <2> QED
    BY <2>1, <2>2
<1> QED
  BY <1>1 DEF RefMapped, RefBar

\* A handle with no count is out of reach, and one that is owned has a count.
CountMatters ==
    \A h \in Handles :
        /\ refcount[h] \in Nat
        /\ refcount[h] = 0 => ~Store!Reachable(h) /\ ~Owned(h)
        /\ Owned(h) => refcount[h] > 0
        /\ \A r \in Refs : RefBar[r] = h => refcount[h] > 0

LEMMA CountMattersHolds == IInv => CountMatters
<1> SUFFICES ASSUME IInv, NEW h \in Handles
             PROVE  /\ refcount[h] \in Nat
                    /\ refcount[h] = 0 => ~Store!Reachable(h) /\ ~Owned(h)
                    /\ Owned(h) => refcount[h] > 0
                    /\ \A r \in Refs : RefBar[r] = h => refcount[h] > 0
  BY DEF CountMatters
<1>1. refcount[h] \in Nat
  BY HoldersFinite DEF IInv, RefcountExact
<1>2. Owned(h) => refcount[h] > 0
  BY HoldersFinite DEF IInv, RefcountExact
<1>3. ASSUME NEW r \in Refs, RefBar[r] = h PROVE refcount[h] > 0
  <2>1. CASE \E t \in Threads : Counting(t, r)
    <3>1. PICK t \in Threads : Counting(t, r)
      BY <2>1
    <3>2. ptr[t] = h
      BY <1>3, <3>1, RefMappedHolds DEF RefMapped
    <3> QED
      BY <1>2, <3>1, <3>2 DEF IInv, Guarded, Counting, Owned
  <2>2. CASE \A t \in Threads : ~Counting(t, r)
    <3>1. r \in Holders(h)
      BY <1>3, <2>2, RefMappedHolds DEF RefMapped, Holders
    <3>2. Cardinality(Holders(h)) # 0
      BY <3>1, HoldersFinite, FS_EmptySet
    <3> QED
      BY <3>2, HoldersFinite DEF IInv, RefcountExact
  <2> QED
    BY <2>1, <2>2
<1>4. \A k \in Keys : map[k] = h => refcount[h] > 0
  BY <1>2 DEF Owned, InElement
<1> QED
  BY <1>1, <1>2, <1>3, <1>4 DEF Store!Reachable

\* What every step may assume of the states before and after it.
Facts == IInv /\ RefMapped /\ CountMatters

SameCounting ==
    \A t \in Threads : /\ pc'[t] = "incref" <=> pc[t] = "incref"
                       /\ pc[t] = "incref" => ptr'[t] = ptr[t] /\ dest'[t] = dest[t]

SamePuts == \A t \in Threads, h \in Handles : Putting(t, h)' <=> Putting(t, h)

\* One reference, before and after a step that leaves the getters alone.
LEMMA RefBarFollows ==
  ASSUME Facts, Facts', SameCounting, NEW r \in Refs
  PROVE  /\ ref'[r] = ref[r] => RefBar'[r] = RefBar[r]
         /\ (\A t \in Threads : ~Counting(t, r)) =>
                RefBar[r] = ref[r] /\ RefBar'[r] = ref'[r]
<1>1. RefMapped /\ RefMapped'
  BY DEF Facts
<1>2. CASE \E t \in Threads : Counting(t, r)
  <2>1. PICK t \in Threads : Counting(t, r)
    BY <1>2
  <2>2. RefBar[r] = ptr[t]
    BY <1>1, <2>1 DEF RefMapped
  <2>3. Counting(t, r)' /\ ptr'[t] = ptr[t]
    BY <2>1 DEF SameCounting, Counting
  <2>4. RefBar'[r] = ptr'[t]
    BY <1>1, <2>3 DEF RefMapped
  <2> QED
    BY <2>1, <2>2, <2>3, <2>4
<1>3. CASE \A t \in Threads : ~Counting(t, r)
  <2>1. RefBar[r] = ref[r]
    BY <1>1, <1>3 DEF RefMapped
  <2>2. \A t \in Threads : ~Counting(t, r)'
    BY <1>3 DEF SameCounting, Counting
  <2>3. RefBar'[r] = ref'[r]
    BY <1>1, <2>2 DEF RefMapped
  <2> QED
    BY <2>1, <2>3
<1> QED
  BY <1>2, <1>3

LEMMA RefBarSame ==
  ASSUME Facts, Facts', SameCounting, UNCHANGED ref
  PROVE  RefBar' = RefBar
<1>1. \A r \in Refs : RefBar'[r] = RefBar[r]
  BY RefBarFollows
<1>2. RefBar \in [Refs -> Handles \union {NULL, Unborn}]
      /\ RefBar' \in [Refs -> Handles \union {NULL, Unborn}]
  BY DEF Facts, RefMapped
<1> QED
  BY <1>1, <1>2

\* Counts that stay positive or stay zero leave the set of live handles alone.
LEMMA AliveSame ==
  ASSUME SamePuts, \A h \in Handles : refcount'[h] > 0 <=> refcount[h] > 0
  PROVE  AliveBar' = AliveBar
BY DEF AliveBar, SamePuts, InPut

\* Counts that only fall destroy only what is out of reach.
LEMMA CollectsUnreachable ==
  ASSUME Facts, Facts', SamePuts, \A h \in Handles : refcount'[h] <= refcount[h]
  PROVE  Store!Collects
<1>1. \A h \in Handles : refcount[h] \in Nat /\ refcount'[h] \in Nat
  BY DEF Facts, CountMatters
<1>2. \A h \in Handles : InPut(h)' <=> InPut(h)
  BY DEF SamePuts, InPut
<1>3. AliveBar' \in SUBSET AliveBar
  BY <1>1, <1>2 DEF AliveBar
<1>4. ASSUME NEW h \in AliveBar \ AliveBar' PROVE ~Store!Reachable(h)'
  <2>1. h \in Handles /\ refcount'[h] = 0
    BY <1>1, <1>2, <1>4 DEF AliveBar
  <2> QED
    BY <2>1 DEF Facts, CountMatters
<1> QED
  BY <1>3, <1>4 DEF Store!Collects

\* Epochs, slots, scans and everything up to the operations' linearization
\* points change nothing that the mapping looks at.
LEMMA VisibleSteps ==
  ASSUME TypeOK, ThreadLocal, [Next]_vars
  PROVE  \/ SameCounting /\ SamePuts /\ UNCHANGED <<map, refcount, ref, phase>>
         \/ \E t \in Threads : GetLoad(t) \/ Incref(t) \/ PutCall(t) \/ PutReplace(t)
                               \/ PutInsert(t) \/ Reclaim(t)
         \/ \E r \in Refs : Close(r)
         \/ TeardownStore
         \/ TeardownDomain
<1> DEFINE Hidden == SameCounting /\ SamePuts /\ UNCHANGED <<map, refcount, ref, phase>>
<1> USE DistinguishedValues DEF SameCounting, SamePuts, Putting, TypeOK, ThreadLocal, PCs, Up,
        states, scan, locals
<1>1. ASSUME NEW t \in Threads, Continue(t),
             ~(GetLoad(t) \/ Incref(t) \/ PutReplace(t) \/ PutInsert(t) \/ Reclaim(t))
      PROVE  Hidden
  <2>1. CASE Announce(t) \/ Exit(t)
    BY <2>1 DEF Announce, Exit
  <2>2. CASE LoadGlobal(t) \/ LoadHint(t) \/ BeginWalk(t) \/ ScanSlot(t) \/ EndWalk(t)
    BY <2>2 DEF LoadGlobal, LoadHint, BeginWalk, ScanSlot, EndWalk
  <2>3. CASE Advance(t) \/ Raise(t) \/ EndReclaim(t) \/ Release(t)
    BY <2>3 DEF Advance, Raise, ToReclaim, EndReclaim, Release
  <2>4. CASE PutFind(t) \/ PutRetry(t)
    BY <2>4 DEF PutFind, PutRetry
  <2> QED
    BY <1>1, <2>1, <2>2, <2>3, <2>4 DEF Continue
<1>2. ASSUME NEW t \in Threads, Choose(t), ~PutCall(t) PROVE Hidden
  BY <1>2 DEF Choose, ThreadStart, ThreadExit, GetCall, Enter, Available
<1>3. CASE UNCHANGED vars
  BY <1>3 DEF vars
<1> QED
  BY <1>1, <1>2, <1>3 DEF Next, Continue, Choose, Terminated

\* A get takes effect when it reads the key's handle, or finds none.
LEMMA LoadGets ==
  ASSUME Facts, Facts', NEW t \in Threads, GetLoad(t)
  PROVE  Store!Get(dest[t], key[t]) /\ dest[t] \in Refs /\ key[t] \in Keys
<1>a. TypeOK /\ ThreadLocal /\ DestReserved /\ RefMapped /\ RefMapped'
  BY DEF Facts, IInv
<1>1. /\ pc[t] = "load" /\ ptr' = [ptr EXCEPT ![t] = map[key[t]]]
      /\ UNCHANGED <<map, refcount, key, dest, phase>>
  BY DEF GetLoad
<1>p. phase = "open"
  BY <1>a, <1>1 DEF ThreadLocal, Up
<1>2. dest[t] \in Refs /\ key[t] \in Keys /\ ref[dest[t]] = Unborn
  BY <1>a, <1>1 DEF ThreadLocal, DestReserved, TypeOK
<1>3. \A u \in Threads : ~Counting(u, dest[t])
  BY <1>a, <1>1, <1>2, DistinguishedValues DEF Counting, DestReserved
<1>4. RefBar[dest[t]] = Unborn
  BY <1>a, <1>2, <1>3 DEF RefMapped
<1>5. \A u \in Threads, r \in Refs : r # dest[t] => (Counting(u, r)' <=> Counting(u, r))
  BY <1>a, <1>1 DEF Counting, TypeOK, GetLoad
<1>6. \A u \in Threads, r \in Refs : Counting(u, r) => ptr'[u] = ptr[u]
  BY <1>a, <1>1 DEF Counting, TypeOK
<1>7. \A r \in Refs : r # dest[t] => ref'[r] = ref[r]
  BY <1>a, <1>2 DEF GetLoad, TypeOK
<1>8. RefBar'[dest[t]] = map[key[t]]
  <2>. PICK r \in Refs : r = dest[t]
    BY <1>2
  <2>1. CASE map[key[t]] # NULL
    <3>1. Counting(t, r)' /\ ptr'[t] = map[key[t]]
      BY <1>a, <1>1, <2>1 DEF GetLoad, Counting, TypeOK
    <3> QED
      BY <1>a, <3>1 DEF RefMapped
  <2>2. CASE map[key[t]] = NULL
    <3>1. pc' = [pc EXCEPT ![t] = "exit"] /\ ref'[r] = NULL
      BY <1>a, <1>2, <2>2 DEF GetLoad, TypeOK
    <3>2. \A u \in Threads : ~Counting(u, r)'
      BY <1>a, <1>1, <1>3, <3>1 DEF Counting, TypeOK
    <3> QED
      BY <1>a, <2>2, <3>1, <3>2 DEF RefMapped
  <2> QED
    BY <2>1, <2>2
<1>9. ASSUME NEW r \in Refs, r # dest[t] PROVE RefBar'[r] = RefBar[r]
  <2>1. CASE \E u \in Threads : Counting(u, r)
    BY <1>a, <1>5, <1>6, <1>9, <2>1 DEF RefMapped
  <2>2. CASE \A u \in Threads : ~Counting(u, r)
    BY <1>a, <1>5, <1>7, <1>9, <2>2 DEF RefMapped
  <2> QED
    BY <2>1, <2>2
<1>10. RefBar' = [RefBar EXCEPT ![dest[t]] = map[key[t]]]
  BY <1>a, <1>8, <1>9 DEF RefMapped
<1>11. AliveBar' = AliveBar
  <2>1. SamePuts
    BY <1>a, <1>1 DEF SamePuts, Putting, TypeOK, GetLoad, ThreadLocal
  <2> QED
    BY <1>1, <2>1, AliveSame
<1> QED
  BY <1>1, <1>p, <1>2, <1>4, <1>10, <1>11 DEF Store!Get

\* Counting the reference, later, and allocating a handle are invisible.
LEMMA IncrefInvisible ==
  ASSUME Facts, Facts', NEW t \in Threads, Incref(t)
  PROVE  UNCHANGED Store!vars
<1>a. TypeOK /\ ThreadLocal /\ DestReserved /\ RefMapped /\ RefMapped' /\ CountMatters
  BY DEF Facts, IInv
<1>1. /\ pc[t] = "incref" /\ pc' = [pc EXCEPT ![t] = "exit"]
      /\ refcount' = [refcount EXCEPT ![ptr[t]] = @ + 1]
      /\ ref' = [ref EXCEPT ![dest[t]] = ptr[t]]
      /\ UNCHANGED <<map, ptr, dest, phase>>
  BY DEF Incref, locals
<1>2. ptr[t] \in Handles /\ dest[t] \in Refs /\ Counting(t, dest[t])
  BY <1>a, <1>1 DEF ThreadLocal, TypeOK, Counting
<1>3. RefBar[dest[t]] = ptr[t]
  BY <1>a, <1>2 DEF RefMapped
<1>4. refcount[ptr[t]] > 0
  BY <1>a, <1>2, <1>3 DEF CountMatters
<1>5. AliveBar' = AliveBar
  <2>1. SamePuts
    BY <1>a, <1>1 DEF SamePuts, Putting, TypeOK
  <2>2. \A h \in Handles : refcount'[h] > 0 <=> refcount[h] > 0
    BY <1>a, <1>1, <1>2, <1>4 DEF TypeOK
  <2> QED
    BY <2>1, <2>2, AliveSame
<1>6. ASSUME NEW r \in Refs PROVE RefBar'[r] = RefBar[r]
  <2>1. CASE r = dest[t]
    <3>1. \A u \in Threads : ~Counting(u, r)'
      BY <1>a, <1>1, <1>2, <2>1, DistinguishedValues DEF Counting, DestReserved, TypeOK
    <3>2. RefBar'[r] = ref'[r]
      BY <1>a, <3>1 DEF RefMapped
    <3> QED
      BY <1>a, <1>1, <1>2, <1>3, <2>1, <3>2 DEF TypeOK
  <2>2. CASE r # dest[t]
    <3>1. \A u \in Threads : Counting(u, r)' <=> Counting(u, r)
      BY <1>a, <1>1, <2>2 DEF Counting, TypeOK
    <3>2. ref'[r] = ref[r]
      BY <1>a, <1>1, <2>2 DEF TypeOK
    <3>3. CASE \E u \in Threads : Counting(u, r)
      BY <1>a, <1>1, <3>1, <3>3 DEF RefMapped
    <3>4. CASE \A u \in Threads : ~Counting(u, r)
      BY <1>a, <3>1, <3>2, <3>4 DEF RefMapped
    <3> QED
      BY <3>3, <3>4
  <2> QED
    BY <2>1, <2>2
<1>7. RefBar' = RefBar
  BY <1>a, <1>6 DEF RefMapped
<1> QED
  BY <1>1, <1>5, <1>7 DEF Store!vars

LEMMA AllocationInvisible ==
  ASSUME Facts, Facts', NEW t \in Threads, PutCall(t)
  PROVE  UNCHANGED Store!vars
<1>a. TypeOK /\ ThreadLocal
  BY DEF Facts, IInv
<1>1. PICK h \in Handles :
        /\ refcount[h] = 0 /\ refcount' = [refcount EXCEPT ![h] = 1]
        /\ \A u \in Threads, x \in Handles :
             Putting(u, x)' <=> (Putting(u, x) \/ (u = t /\ x = h))
        /\ UNCHANGED <<map, ref>>
  BY <1>a, PutCallMoves
<1>2. SameCounting /\ phase' = phase
  BY <1>a DEF SameCounting, TypeOK, PutCall, Enter
<1>3. \A x \in Handles : InPut(x)' <=> InPut(x) \/ x = h
  BY <1>1 DEF InPut
<1>4. AliveBar' = AliveBar
  BY <1>a, <1>1, <1>3 DEF AliveBar, TypeOK
<1> QED
  BY <1>1, <1>2, <1>4, RefBarSame DEF Store!vars

\* A put takes effect when its compare-exchange succeeds.
LEMMA ExchangePuts ==
  ASSUME Facts, Facts', NEW t \in Threads, PutInsert(t) \/ PutReplace(t)
  PROVE  Store!Put(key[t], ptr[t]) /\ key[t] \in Keys /\ ptr[t] \in Handles
<1>a. TypeOK /\ ThreadLocal /\ CountMatters
  BY DEF Facts, IInv
<1>1. /\ key[t] \in Keys /\ ptr[t] \in Handles /\ Putting(t, ptr[t])
      /\ map' = [map EXCEPT ![key[t]] = ptr[t]]
      /\ \A u \in Threads, x \in Handles : Putting(u, x)' <=> Putting(u, x) /\ u # t
  BY <1>a, PutInsertMoves, PutReplaceMoves
<1>2. UNCHANGED <<refcount, ref, phase>> /\ phase = "open"
  BY <1>a DEF PutInsert, PutReplace, ThreadLocal, Up
<1>3. RefBar' = RefBar
  <2>1. SameCounting
    BY <1>a DEF SameCounting, TypeOK, PutInsert, PutReplace
  <2> QED
    BY <1>2, <2>1, RefBarSame
<1>4. InPut(ptr[t]) /\ refcount[ptr[t]] > 0
  BY <1>a, <1>1 DEF CountMatters, Owned, InPut
<1>5. SoleOwner(ptr[t])
  BY <1>1 DEF Facts, IInv, OwnedOnce
<1>6. \A x \in Handles : InPut(x)' <=> InPut(x) /\ x # ptr[t]
  <2>1. \A u \in Threads : Putting(u, ptr[t]) => u = t
    BY <1>1, <1>5 DEF SoleOwner
  <2>2. \A x \in Handles : Putting(t, x) => x = ptr[t]
    BY DEF Putting
  <2> QED
    BY <1>1, <2>1, <2>2 DEF InPut
<1>7. AliveBar' = AliveBar \union {ptr[t]} /\ ptr[t] \notin AliveBar
  BY <1>1, <1>2, <1>4, <1>6 DEF AliveBar
<1> QED
  BY <1>1, <1>2, <1>3, <1>7 DEF Store!Put

\* Reclaiming and resetting the domain destroy what no client can reach.
LEMMA ReclaimDestroys ==
  ASSUME Facts, Facts', (\E t \in Threads : Reclaim(t)) \/ TeardownDomain
  PROVE  Store!Destroy
<1>a. TypeOK /\ ThreadLocal
  BY DEF Facts, IInv
<1>1. /\ UNCHANGED <<map, ref, pc, ptr, dest>> /\ (phase' = "open" <=> phase = "open")
      /\ \A h \in Handles : refcount'[h] <= refcount[h]
  <2>1. ASSUME NEW t \in Threads, Reclaim(t)
        PROVE  /\ UNCHANGED <<map, ref, pc, ptr, dest, phase>>
               /\ \A h \in Handles : refcount'[h] <= refcount[h]
    <3>1. PICK e \in Freeable(t) : /\ e.ptr \in Handles /\ DropHandle(e.ptr)
                                   /\ UNCHANGED <<map, ref, pc, dest, ptr>>
      BY <1>a, <2>1, ReclaimMoves
    <3>2. phase' = phase
      BY <2>1 DEF Reclaim
    <3> QED
      BY <1>a, <3>1, <3>2 DEF DropHandle, TypeOK
  <2>2. CASE TeardownDomain
    BY <1>a, <2>2 DEF TeardownDomain, TypeOK, locals
  <2> QED
    BY <2>1, <2>2
<1>2. SameCounting /\ SamePuts
  BY <1>1 DEF SameCounting, SamePuts, Putting
<1> QED
  BY <1>1, <1>2, RefBarSame, CollectsUnreachable DEF Store!Destroy

\* Resetting the store empties the map.
LEMMA TeardownShutsDown ==
  ASSUME Facts, Facts', TeardownStore
  PROVE  Store!Shutdown
<1>1. /\ UNCHANGED <<ref, pc, ptr, dest>> /\ phase = "open" /\ phase' # "open"
      /\ map' = [k \in Keys |-> NULL]
      /\ \A h \in Handles : refcount'[h] <= refcount[h]
  BY DEF TeardownStore, TypeOK, Facts, IInv, locals
<1>2. SameCounting /\ SamePuts
  BY <1>1 DEF SameCounting, SamePuts, Putting
<1> QED
  BY <1>1, <1>2, RefBarSame, CollectsUnreachable DEF Store!Shutdown

LEMMA CloseCloses ==
  ASSUME Facts, Facts', NEW r \in Refs, Close(r)
  PROVE  Store!Close(r)
<1>a. TypeOK /\ RefMapped /\ RefMapped'
  BY DEF Facts, IInv
<1>1. /\ Settled(r) /\ DropHandle(ref[r])
      /\ ref' = [ref EXCEPT ![r] = Unborn]
      /\ UNCHANGED <<map, pc, ptr, dest, phase>>
  BY DEF Close, locals
<1>2. SameCounting /\ SamePuts
  BY <1>1 DEF SameCounting, SamePuts, Putting
<1>3. \A u \in Threads : ~Counting(u, r)
  BY <1>1 DEF Settled, Counting
<1>4. RefBar[r] # Unborn /\ RefBar'[r] = Unborn
  BY <1>a, <1>1, <1>2, <1>3, RefBarFollows DEF Settled, TypeOK
<1>5. \A q \in Refs : q # r => RefBar'[q] = RefBar[q]
  BY <1>a, <1>1, <1>2, RefBarFollows DEF TypeOK
<1>6. RefBar' = [RefBar EXCEPT ![r] = Unborn]
  BY <1>a, <1>4, <1>5 DEF RefMapped
<1>7. \A h \in Handles : refcount'[h] <= refcount[h]
  BY <1>a, <1>1 DEF DropHandle, TypeOK
<1> QED
  BY <1>1, <1>2, <1>4, <1>6, <1>7, CollectsUnreachable DEF Store!Close

LEMMA StoreInit == Init => Store!Init
<1> SUFFICES ASSUME Init PROVE Store!Init
  OBVIOUS
<1>1. RefBar = [r \in Refs |-> Unborn]
  BY DEF RefBar, Init
<1>2. AliveBar = {}
  BY DEF AliveBar, Init
<1> QED
  BY <1>1, <1>2 DEF Init, Store!Init

LEMMA StoreStep == Facts /\ Facts' /\ [Next]_vars => [Store!Next]_(Store!vars)
<1> SUFFICES ASSUME Facts, Facts', [Next]_vars PROVE [Store!Next]_(Store!vars)
  OBVIOUS
<1>1. CASE SameCounting /\ SamePuts /\ UNCHANGED <<map, refcount, ref, phase>>
  BY <1>1, RefBarSame, AliveSame DEF Store!vars
<1>2. ASSUME NEW t \in Threads,
             GetLoad(t) \/ Incref(t) \/ PutCall(t) \/ PutReplace(t) \/ PutInsert(t) \/ Reclaim(t)
      PROVE  [Store!Next]_(Store!vars)
  BY <1>2, LoadGets, IncrefInvisible, AllocationInvisible, ExchangePuts, ReclaimDestroys
  DEF Store!Next
<1>3. ASSUME NEW r \in Refs, Close(r) PROVE Store!Next
  BY <1>3, CloseCloses DEF Store!Next
<1>4. CASE TeardownStore
  BY <1>4, TeardownShutsDown DEF Store!Next
<1>5. CASE TeardownDomain
  BY <1>5, ReclaimDestroys DEF Store!Next
<1> QED
  BY <1>1, <1>2, <1>3, <1>4, <1>5, VisibleSteps DEF Facts, IInv

\* In its timely behaviours the epoch store is a linearizable object store:
\* gets and puts take effect atomically, and no scan, whatever epoch, hint or
\* cutoff it remembers, destroys what a client can still reach.
THEOREM Refinement == TimelySpec => ImplementsObjectStore
<1> DEFINE Inv == IInv /\ ~stale
<1>1. Init => Inv
  BY InitIInv DEF Init
<1>2. Inv /\ [Next /\ ~stale']_vars => Inv'
  <2>1. ASSUME UNCHANGED vars PROVE stale' = stale
    BY <2>1 DEF vars
  <2> QED
    BY <2>1, Step
<1>3. Inv => Facts
  BY RefMappedHolds, CountMattersHolds DEF Facts
<1>4. Facts /\ Facts' /\ [Next /\ ~stale']_vars => [Store!Next]_(Store!vars)
  BY StoreStep
<1> HIDE DEF Inv
<1> QED
  BY <1>1, <1>2, <1>3, <1>4, StoreInit, PTL DEF TimelySpec, ImplementsObjectStore, Store!Spec

============================================================================
