------------------------------ MODULE EbrGrace ------------------------------
(***************************************************************************)
(* The epoch domain of EbrStore as an implementation of GracePeriod.  A    *)
(* history variable remembers what the domain itself never knows: which    *)
(* threads an entry has to wait for.                                       *)
(***************************************************************************)
EXTENDS EbrStore

VARIABLE waits  \* history: for each retired handle, the threads that have
                \* been inside ever since it was retired

InsideThreads == {t \in Threads : pc[t] \in Inside}
RetiredHandles == {h \in Handles : InRetired(h)}

\* What a step does to waits follows from what it does to the rest.
Remember ==
    waits' = [h \in RetiredHandles' |->
                 IF h \in RetiredHandles THEN waits[h] \intersect InsideThreads'
                 ELSE InsideThreads]

GraceInit == Init /\ waits = [h \in {} |-> {}]

\* The timely behaviours of EbrStore (see TimelySpec there).
GraceSpec == GraceInit /\ [][Next /\ ~stale' /\ Remember]_<<vars, waits>>

Grace == INSTANCE GracePeriod WITH Entries <- Handles, inside <- InsideThreads

\* In a timely behaviour the epochs, announcements, hints and cutoffs of
\* ebr.cpp never free an entry that somebody may still have found before it
\* was retired, however many scans are under way and whatever they remember;
\* and nothing is retired twice or outside of a critical section.
ImplementsGracePeriod == Grace!Spec

=============================================================================
