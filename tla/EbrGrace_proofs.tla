-------------------------- MODULE EbrGrace_proofs --------------------------
(***************************************************************************)
(* In its timely behaviours the epoch domain implements GracePeriod, for   *)
(* any number of threads, slots and handles, any RETIRE_BATCH and any      *)
(* number of epochs.                                                       *)
(*                                                                         *)
(* An entry that still waits for a thread is at most one epoch older than  *)
(* what the thread has announced; and no cutoff lies beyond what a thread  *)
(* inside has announced.  So what a cutoff lets go waits for nobody.       *)
(***************************************************************************)
EXTENDS EbrGrace, EbrStore_proofs

\* An entry waits only for threads inside, and it is not yet two epochs older
\* than what any of them has announced.
WaitInv ==
    /\ waits = [h \in RetiredHandles |-> waits[h]]
    /\ \A h \in RetiredHandles : waits[h] \subseteq InsideThreads
    /\ \A s \in Slots : \A e \in retired[s] : \A u \in waits[e.ptr] :
         My(announced, u) <= e.epoch + 1

GInv == IInv /\ WaitInv /\ ~stale

(***************************************************************************)
(* What a step does to the critical sections and to the retired lists      *)
(***************************************************************************)

SameSections == InsideThreads' = InsideThreads

\* A thread that stays inside keeps its slot and its announcement.
LEMMA InsideFrame ==
  ASSUME TypeOK, ThreadLocal, SlotsOwned, [Next]_vars, NEW u \in InsideThreads,
         u \in InsideThreads'
  PROVE  node'[u] = node[u] /\ My(announced, u)' = My(announced, u)
<1> USE DEF TypeOK, ThreadLocal, SlotsOwned, Up, My, states, scan, locals, Inside, InsideThreads
<1>1. ASSUME NEW t \in Threads, Continue(t)
      PROVE  node'[u] = node[u] /\ My(announced, u)' = My(announced, u)
  <2>1. CASE Announce(t) \/ Exit(t)
    BY <2>1 DEF Announce, Exit
  <2>2. CASE LoadGlobal(t) \/ LoadHint(t) \/ BeginWalk(t) \/ ScanSlot(t) \/ EndWalk(t)
    BY <2>2 DEF LoadGlobal, LoadHint, BeginWalk, ScanSlot, EndWalk
  <2>3. CASE Advance(t) \/ Raise(t) \/ Reclaim(t) \/ EndReclaim(t) \/ Release(t)
    BY <2>3 DEF Advance, Raise, ToReclaim, Reclaim, EndReclaim, Release
  <2>4. CASE GetLoad(t) \/ Incref(t) \/ PutFind(t) \/ PutRetry(t) \/ PutInsert(t) \/ PutReplace(t)
    BY <2>4 DEF GetLoad, Incref, PutFind, PutRetry, PutInsert, PutReplace
  <2> QED
    BY <1>1, <2>1, <2>2, <2>3, <2>4 DEF Continue
<1>2. ASSUME NEW t \in Threads, Choose(t)
      PROVE  node'[u] = node[u] /\ My(announced, u)' = My(announced, u)
  BY <1>2 DEF Choose, ThreadStart, ThreadExit, GetCall, PutCall, Enter
<1>3. ASSUME (\E r \in Refs : Close(r)) \/ TeardownStore \/ TeardownDomain \/ UNCHANGED vars
      PROVE  UNCHANGED <<node, announced>>
  BY <1>3 DEF Close, TeardownStore, TeardownDomain, vars
<1> QED
  BY <1>1, <1>2, <1>3 DEF Next, Terminated

\* Five kinds of steps are visible to GracePeriod.
LEMMA Cases ==
  ASSUME TypeOK, ThreadLocal, [Next]_vars
  PROVE  \/ SameSections /\ UNCHANGED retired
         \/ \E t \in Threads : Announce(t) \/ Exit(t) \/ PutReplace(t) \/ Reclaim(t)
         \/ TeardownDomain
<1> USE DEF TypeOK, ThreadLocal, Up, states, scan, locals, Inside, InsideThreads, SameSections
<1>1. ASSUME NEW t \in Threads, Continue(t)
      PROVE  \/ SameSections /\ UNCHANGED retired
             \/ Announce(t) \/ Exit(t) \/ PutReplace(t) \/ Reclaim(t)
  <2>2. CASE LoadGlobal(t) \/ LoadHint(t) \/ BeginWalk(t) \/ ScanSlot(t) \/ EndWalk(t)
    BY <2>2 DEF LoadGlobal, LoadHint, BeginWalk, ScanSlot, EndWalk
  <2>3. CASE Advance(t) \/ Raise(t) \/ EndReclaim(t) \/ Release(t)
    BY <2>3 DEF Advance, Raise, ToReclaim, EndReclaim, Release
  <2>4. CASE GetLoad(t) \/ Incref(t) \/ PutFind(t) \/ PutRetry(t) \/ PutInsert(t)
    BY <2>4 DEF GetLoad, Incref, PutFind, PutRetry, PutInsert
  <2> QED
    BY <1>1, <2>2, <2>3, <2>4 DEF Continue
<1>2. ASSUME NEW t \in Threads, Choose(t) PROVE SameSections /\ UNCHANGED retired
  BY <1>2 DEF Choose, ThreadStart, ThreadExit, GetCall, PutCall, Enter
<1>3. ASSUME (\E r \in Refs : Close(r)) \/ TeardownStore \/ UNCHANGED vars
      PROVE  SameSections /\ UNCHANGED retired
  BY <1>3 DEF Close, TeardownStore, vars
<1> QED
  BY <1>1, <1>2, <1>3 DEF Next, Terminated

LEMMA AnnounceEnters ==
  ASSUME TypeOK, ThreadLocal, NEW t \in Threads, Announce(t)
  PROVE  t \notin InsideThreads /\ InsideThreads' = InsideThreads \union {t} /\ UNCHANGED retired
BY DEF Announce, TypeOK, ThreadLocal, Inside, InsideThreads

LEMMA ExitLeaves ==
  ASSUME TypeOK, ThreadLocal, NEW t \in Threads, Exit(t)
  PROVE  t \in InsideThreads /\ InsideThreads' = InsideThreads \ {t} /\ UNCHANGED retired
BY DEF Exit, TypeOK, ThreadLocal, Inside, InsideThreads

\* What a put replaces was not retired before.
LEMMA ReplaceRetires ==
  ASSUME IInv, NEW t \in Threads, PutReplace(t)
  PROVE  \E h \in Handles \ RetiredHandles :
           /\ RetiredHandles' = RetiredHandles \union {h}
           /\ node[t] \in Slots
           /\ retired' = [retired EXCEPT ![node[t]] =
                            @ \union {[ptr |-> h, epoch |-> cached[node[t]]]}]
           /\ SameSections /\ t \in InsideThreads
<1>a. TypeOK /\ ThreadLocal /\ OwnedOnce
  BY DEF IInv
<1>1. /\ key[t] \in Keys /\ map[key[t]] \in Handles /\ node[t] \in Slots
      /\ retired' = [retired EXCEPT ![node[t]] =
                       @ \union {[ptr |-> map[key[t]], epoch |-> cached[node[t]]]}]
  BY <1>a, PutReplaceMoves
<1>2. PICK h \in Handles : h = map[key[t]]
  BY <1>1
<1>3. h \notin RetiredHandles
  BY <1>a, <1>1, <1>2 DEF OwnedOnce, SoleOwner, InElement, RetiredHandles
<1>4. RetiredHandles' = RetiredHandles \union {h}
  <2> DEFINE d == [ptr |-> h, epoch |-> cached[node[t]]]
  <2>1. \A s \in Slots : \A e : e \in retired'[s] <=> e \in retired[s] \/ (s = node[t] /\ e = d)
    BY <1>1, <1>2, <1>a DEF TypeOK
  <2>2. d.ptr = h
    OBVIOUS
  <2> HIDE DEF d
  <2>3. \A x \in Handles : InRetired(x)' <=> InRetired(x) \/ x = h
    BY <1>1, <2>1, <2>2 DEF InRetired
  <2> QED
    BY <2>3 DEF RetiredHandles
<1>5. SameSections /\ t \in InsideThreads
  BY <1>a DEF PutReplace, SameSections, InsideThreads, Inside, TypeOK
<1> QED
  BY <1>1, <1>2, <1>3, <1>4, <1>5

\* What is reclaimed is not retired any more, and it waited for nobody.
LEMMA ReclaimFrees ==
  ASSUME GInv, NEW t \in Threads, Reclaim(t)
  PROVE  \E h \in RetiredHandles :
           /\ waits[h] = {}
           /\ RetiredHandles' = RetiredHandles \ {h}
           /\ \A s \in Slots : retired'[s] \subseteq retired[s]
           /\ SameSections
<1>a. TypeOK /\ ThreadLocal /\ OwnedOnce /\ CutoffBehind /\ WaitInv
  BY DEF IInv, GInv
<1>1. PICK e \in Freeable(t) :
         /\ e \in retired[node[t]] /\ e.ptr \in Handles
         /\ retired' = [retired EXCEPT ![node[t]] = @ \ {e}]
         /\ UNCHANGED pc
  BY <1>a, ReclaimMoves
<1>2. node[t] \in Slots /\ retired \in [Slots -> SUBSET Entries] /\ pc[t] = "reclaim"
  BY <1>a, DistinguishedValues DEF Reclaim, TypeOK, ThreadLocal, Up
<1>3. e.ptr \in RetiredHandles
  BY <1>1, <1>2 DEF RetiredHandles, InRetired
<1>4. waits[e.ptr] = {}
  <2> SUFFICES ASSUME NEW u \in waits[e.ptr] PROVE FALSE
    OBVIOUS
  <2>1. My(announced, u) <= e.epoch + 1
    BY <1>a, <1>1, <1>2 DEF WaitInv
  <2>2. u \in Threads /\ pc[u] \in Inside
    BY <1>a, <1>3 DEF WaitInv, InsideThreads
  <2>3. cutoff[t] <= My(announced, u)
    BY <1>a, <1>2, <2>2 DEF CutoffBehind
  <2>4. e.epoch + 1 < cutoff[t]
    BY DEF Freeable
  <2>5. e.epoch \in Nat /\ cutoff[t] \in Nat /\ My(announced, u) \in Nat
    BY <1>a, <1>1, <1>2, <2>2, DistinguishedValues
       DEF TypeOK, ThreadLocal, Entries, My, Inside, Up
  <2> QED
    BY <2>1, <2>3, <2>4, <2>5
<1>5. RetiredHandles' = RetiredHandles \ {e.ptr}
  <2>1. \A s \in Slots : \A d : d \in retired'[s] <=> d \in retired[s] /\ ~(s = node[t] /\ d = e)
    BY <1>1, <1>2
  <2>2. \A s \in Slots : \A d \in retired[s] : d.ptr = e.ptr => s = node[t] /\ d = e
    BY <1>a, <1>1, <1>2 DEF OwnedOnce, SoleOwner
  <2>3. \A x \in Handles : InRetired(x)' <=> InRetired(x) /\ x # e.ptr
    BY <1>1, <1>2, <2>1, <2>2 DEF InRetired
  <2> QED
    BY <2>3 DEF RetiredHandles
<1>6. \A s \in Slots : retired'[s] \subseteq retired[s]
  BY <1>1, <1>2
<1>7. SameSections
  BY <1>1 DEF SameSections, InsideThreads
<1> QED
  BY <1>3, <1>4, <1>5, <1>6, <1>7

\* When the domain goes, nobody is inside.
LEMMA TeardownFrees ==
  ASSUME GInv, TeardownDomain
  PROVE  /\ \A h \in RetiredHandles : waits[h] = {}
         /\ RetiredHandles' = {}
         /\ \A s \in Slots : retired'[s] = {}
         /\ SameSections
<1>a. TypeOK /\ ThreadLocal /\ WaitInv
  BY DEF IInv, GInv
<1>1. InsideThreads = {}
  BY <1>a DEF TeardownDomain, ThreadLocal, InsideThreads, Inside, Up
<1>2. \A s \in Slots : retired'[s] = {}
  BY DEF TeardownDomain
<1>3. RetiredHandles' = {}
  BY <1>2 DEF RetiredHandles, InRetired
<1>4. SameSections
  BY DEF TeardownDomain, SameSections, InsideThreads
<1> QED
  BY <1>a, <1>1, <1>2, <1>3, <1>4 DEF WaitInv

(***************************************************************************)
(* The invariant                                                           *)
(***************************************************************************)

LEMMA GInit == GraceInit => GInv
<1> SUFFICES ASSUME GraceInit PROVE GInv
  OBVIOUS
<1>1. \A s \in Slots : retired[s] = {}
  BY DEF GraceInit, Init
<1>2. RetiredHandles = {}
  BY <1>1 DEF RetiredHandles, InRetired
<1> QED
  BY <1>1, <1>2, InitIInv DEF GraceInit, Init, GInv, WaitInv

\* A thread that is inside when an entry is retired has announced at most one
\* epoch more than the one the entry is stamped with.
LEMMA StampClose ==
  ASSUME IInv, NEW t \in Threads, PutReplace(t), NEW u \in InsideThreads
  PROVE  My(announced, u) <= cached[node[t]] + 1
<1>a. TypeOK /\ ThreadLocal /\ EpochLag
  BY DEF IInv
<1>1. pc[t] \in Inside /\ pc[u] \in Inside /\ u \in Threads
  BY DEF PutReplace, Inside, InsideThreads
<1>2. epoch <= My(announced, t) + 1 /\ My(announced, t) = My(cached, t)
  BY <1>1, <1>a DEF EpochLag, ThreadLocal
<1>3. My(announced, u) <= epoch /\ My(announced, u) \in Nat
  BY <1>1, <1>a, DistinguishedValues DEF TypeOK, ThreadLocal, My, Inside, Up
<1>4. cached[node[t]] \in Nat /\ epoch \in Nat
  BY <1>1, <1>a, DistinguishedValues DEF TypeOK, ThreadLocal, Inside, Up
<1> QED
  BY <1>2, <1>3, <1>4 DEF My

\* An entry that was retired before waits for no more than it did.
LEMMA WaitsShrink ==
  ASSUME Remember, NEW h \in RetiredHandles', h \in RetiredHandles
  PROVE  waits'[h] = waits[h] \intersect InsideThreads'
BY DEF Remember

LEMMA WaitStep == GInv /\ [Next]_vars /\ Remember => WaitInv'
<1> SUFFICES ASSUME GInv, [Next]_vars, Remember PROVE WaitInv'
  OBVIOUS
<1>a. IInv /\ TypeOK /\ ThreadLocal /\ SlotsOwned /\ OwnedOnce /\ WaitInv
  BY DEF IInv, GInv
\* Whatever was retired before.
<1>1. ASSUME NEW s \in Slots, NEW e \in retired'[s], e \in retired[s], NEW u \in waits'[e.ptr]
      PROVE  My(announced, u)' <= e.epoch + 1
  <2>1. e.ptr \in Handles
    BY <1>1, <1>a DEF TypeOK, Entries
  <2>2. e.ptr \in RetiredHandles /\ e.ptr \in RetiredHandles'
    BY <1>1, <2>1 DEF RetiredHandles, InRetired
  <2>3. u \in waits[e.ptr] /\ u \in InsideThreads'
    BY <2>2, <1>1, WaitsShrink
  <2>4. u \in InsideThreads /\ My(announced, u) <= e.epoch + 1
    BY <2>2, <2>3, <1>1, <1>a DEF WaitInv
  <2>5. My(announced, u)' = My(announced, u)
    BY <2>3, <2>4, <1>a, InsideFrame
  <2> QED
    BY <2>4, <2>5
<1>2. ASSUME NEW s \in Slots, NEW e \in retired'[s], NEW u \in waits'[e.ptr]
      PROVE  My(announced, u)' <= e.epoch + 1
  <2>1. CASE UNCHANGED retired \/ (\E t \in Threads : Reclaim(t)) \/ TeardownDomain
    <3>1. e \in retired[s]
      BY <2>1, <1>2, <1>a, ReclaimFrees, TeardownFrees
    <3> QED
      BY <1>1, <1>2, <3>1
  <2>2. ASSUME NEW t \in Threads, PutReplace(t) PROVE My(announced, u)' <= e.epoch + 1
    <3>1. PICK h \in Handles \ RetiredHandles :
           /\ RetiredHandles' = RetiredHandles \union {h}
           /\ node[t] \in Slots
           /\ retired' = [retired EXCEPT ![node[t]] =
                            @ \union {[ptr |-> h, epoch |-> cached[node[t]]]}]
           /\ SameSections /\ t \in InsideThreads
      BY <1>a, <2>2, ReplaceRetires
    <3>2. e \in retired[s] \/ e = [ptr |-> h, epoch |-> cached[node[t]]]
      BY <3>1, <1>2, <1>a DEF TypeOK
    <3>3. CASE e = [ptr |-> h, epoch |-> cached[node[t]]]
      <4>1. e.ptr = h /\ e.epoch = cached[node[t]]
        BY <3>3
      <4>2. waits'[h] = InsideThreads
        BY <3>1 DEF Remember
      <4>3. u \in InsideThreads /\ u \in InsideThreads'
        BY <4>1, <4>2, <1>2, <3>1 DEF SameSections
      <4>4. My(announced, u)' = My(announced, u)
        BY <4>3, <1>a, InsideFrame
      <4> QED
        BY <4>1, <4>3, <4>4, <2>2, <1>a, StampClose
    <3> QED
      BY <1>1, <1>2, <3>2, <3>3
  <2> QED
    BY <2>1, <2>2, <1>a, Cases, AnnounceEnters, ExitLeaves
<1>3. \A h \in RetiredHandles' : waits'[h] \subseteq InsideThreads'
  <2> SUFFICES ASSUME NEW h \in RetiredHandles' PROVE waits'[h] \subseteq InsideThreads'
    OBVIOUS
  <2>1. CASE h \in RetiredHandles
    BY <2>1, WaitsShrink
  <2>2. CASE h \notin RetiredHandles
    <3>1. ~UNCHANGED retired
      BY <2>2 DEF RetiredHandles, InRetired
    <3>2. \E t \in Threads : PutReplace(t)
      BY <3>1, <2>2, <1>a, Cases, AnnounceEnters, ExitLeaves, ReclaimFrees, TeardownFrees
    <3>3. SameSections
      BY <3>2, <1>a, ReplaceRetires
    <3> QED
      BY <2>2, <3>3 DEF Remember, SameSections
  <2> QED
    BY <2>1, <2>2
<1>4. waits' = [h \in RetiredHandles' |-> waits'[h]]
  BY DEF Remember
<1> QED
  BY <1>2, <1>3, <1>4 DEF WaitInv

(***************************************************************************)
(* The refinement                                                          *)
(***************************************************************************)

LEMMA RetiredSame ==
  ASSUME UNCHANGED retired
  PROVE  RetiredHandles' = RetiredHandles
BY DEF RetiredHandles, InRetired

LEMMA StepMaps ==
  ASSUME GInv, [Next]_vars, Remember
  PROVE  [Grace!Next]_(Grace!grace)
<1>a. IInv /\ TypeOK /\ ThreadLocal /\ SlotsOwned /\ OwnedOnce /\ WaitInv
  BY DEF IInv, GInv
<1>b. DOMAIN waits = RetiredHandles /\ Grace!Retired = RetiredHandles
  BY <1>a DEF WaitInv, Grace!Retired
<1>c. \A h \in RetiredHandles : waits[h] \subseteq InsideThreads
  BY <1>a DEF WaitInv
<1>1. CASE SameSections /\ UNCHANGED retired
  <2>1. RetiredHandles' = RetiredHandles /\ InsideThreads' = InsideThreads
    BY <1>1, RetiredSame DEF SameSections
  <2>2. waits' = [h \in RetiredHandles |-> waits[h]]
    BY <2>1, <1>c DEF Remember
  <2> QED
    BY <2>1, <2>2, <1>a DEF WaitInv, Grace!grace
<1>2. ASSUME NEW t \in Threads, Announce(t) PROVE Grace!Enter(t)
  <2>1. /\ t \notin InsideThreads /\ InsideThreads' = InsideThreads \union {t}
        /\ RetiredHandles' = RetiredHandles
    BY <1>2, <1>a, AnnounceEnters, RetiredSame
  <2>2. waits' = [h \in RetiredHandles |-> waits[h]]
    BY <2>1, <1>c DEF Remember
  <2> QED
    BY <2>1, <2>2, <1>a DEF WaitInv, Grace!Enter
<1>3. ASSUME NEW t \in Threads, Exit(t) PROVE Grace!Leave(t)
  <2>1. /\ t \in InsideThreads /\ InsideThreads' = InsideThreads \ {t}
        /\ RetiredHandles' = RetiredHandles
    BY <1>3, <1>a, ExitLeaves, RetiredSame
  <2>2. waits' = [h \in RetiredHandles |-> waits[h] \ {t}]
    BY <2>1, <1>c DEF Remember
  <2> QED
    BY <2>1, <2>2, <1>b DEF Grace!Leave
<1>4. ASSUME NEW t \in Threads, PutReplace(t) PROVE Grace!Next
  <2>1. PICK h \in Handles \ RetiredHandles :
          /\ RetiredHandles' = RetiredHandles \union {h}
          /\ InsideThreads' = InsideThreads /\ t \in InsideThreads
    BY <1>4, <1>a, ReplaceRetires DEF SameSections
  <2>2. waits' = [d \in RetiredHandles \union {h} |-> IF d = h THEN InsideThreads ELSE waits[d]]
    BY <2>1, <1>c DEF Remember
  <2>3. Grace!Retire(h)
    BY <2>1, <2>2, <1>b DEF Grace!Retire
  <2> QED
    BY <2>3 DEF Grace!Next
<1>5. ASSUME NEW E \in SUBSET RetiredHandles, \A h \in E : waits[h] = {},
             RetiredHandles' = RetiredHandles \ E, SameSections
      PROVE  Grace!Next
  <2>1. waits' = [h \in RetiredHandles \ E |-> waits[h]]
    BY <1>5, <1>c DEF Remember, SameSections
  <2>2. Grace!Free(E)
    BY <1>5, <2>1, <1>b DEF Grace!Free, Grace!Expired, SameSections
  <2> QED
    BY <2>2, <1>b DEF Grace!Next
<1>6. ASSUME NEW t \in Threads, Reclaim(t) PROVE Grace!Next
  <2>1. PICK h \in RetiredHandles :
          waits[h] = {} /\ RetiredHandles' = RetiredHandles \ {h} /\ SameSections
    BY <1>6, ReclaimFrees
  <2> QED
    BY <2>1, <1>5
<1>7. CASE TeardownDomain
  <2>1. (\A h \in RetiredHandles : waits[h] = {}) /\ RetiredHandles' = {} /\ SameSections
    BY <1>7, TeardownFrees
  <2> QED
    BY <2>1, <1>5
<1> QED
  BY <1>a, <1>1, <1>2, <1>3, <1>4, <1>6, <1>7, Cases DEF Grace!Next

LEMMA InitMaps == GraceInit => Grace!Init
<1> SUFFICES ASSUME GraceInit PROVE Grace!Init
  OBVIOUS
<1>1. InsideThreads = {}
  BY DEF GraceInit, Init, InsideThreads, Inside
<1> QED
  BY <1>1 DEF GraceInit, Grace!Init

GraceNext == Next /\ ~stale' /\ Remember

\* The epochs of ebr.cpp amount to a grace period: in a timely behaviour no
\* entry is freed before every thread that was inside a critical section when
\* it was retired has left it.
THEOREM EpochsGiveGrace == GraceSpec => ImplementsGracePeriod
<1>1. GraceInit => GInv
  BY GInit
<1>2. GInv /\ [GraceNext]_<<vars, waits>> => GInv'
  <2>1. ASSUME GInv, GraceNext PROVE GInv'
    <3>1. IInv'
      BY <2>1, Step DEF GraceNext, GInv
    <3>2. WaitInv'
      BY <2>1, WaitStep DEF GraceNext
    <3> QED
      BY <2>1, <3>1, <3>2 DEF GInv, GraceNext
  <2>2. ASSUME GInv, UNCHANGED <<vars, waits>> PROVE GInv'
    <3>1. IInv' /\ ~stale'
      BY <2>2, Step DEF GInv, vars
    <3>2. WaitInv'
      BY <2>2 DEF GInv, WaitInv, RetiredHandles, InRetired, InsideThreads, My, vars, states
    <3> QED
      BY <3>1, <3>2 DEF GInv
  <2> QED
    BY <2>1, <2>2
<1>3. GInv /\ [GraceNext]_<<vars, waits>> => [Grace!Next]_(Grace!grace)
  <2>1. ASSUME GInv, GraceNext PROVE [Grace!Next]_(Grace!grace)
    BY <2>1, StepMaps DEF GraceNext
  <2>2. ASSUME UNCHANGED <<vars, waits>> PROVE UNCHANGED Grace!grace
    BY <2>2 DEF Grace!grace, vars, InsideThreads
  <2> QED
    BY <2>1, <2>2
<1> QED
  BY <1>1, <1>2, <1>3, InitMaps, PTL DEF GraceSpec, ImplementsGracePeriod, Grace!Spec, GraceNext

============================================================================
