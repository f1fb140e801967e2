---------------------------- MODULE MCResizeTest ----------------------------
(***************************************************************************)
(* The readers of tests/resize.cpp in the instance of MCHashTable: they    *)
(* get a key that was put before they started, and expect to find it       *)
(* however often the table is resized.                                     *)
(***************************************************************************)
EXTENDS MCHashTable

VARIABLE
    present  \* history: the thread's get began when its key had been put

tvars == <<vars, present>>

\* A put of key k has returned, and no other one is under way.
Stored(k) == Value(k) # NULL /\ \A u \in Threads : key[u] = k => new[u] = NULL

TInit == Init /\ present = [t \in Threads |-> FALSE]

TNext ==
    /\ Next
    /\ present' = [t \in Threads |->
                     IF pc[t] # "idle" THEN present[t]
                     ELSE pc'[t] # "idle" /\ new'[t] = NULL /\ Stored(key'[t])]

TSpec == TInit /\ [][TNext]_tvars

\* A get of a key that was put before the get began, by a put that had
\* returned, finds a handle: tests/resize.cpp:50-51 asserts it of "stable_key"
\* while others make the table grow.
StableKeyFound ==
    [][\A t \in Threads : present[t] /\ pc[t] # "idle" /\ pc'[t] = "idle"
          => result'[t] # NULL]_tvars

=============================================================================
