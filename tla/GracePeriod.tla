---------------------------- MODULE GracePeriod ----------------------------
(***************************************************************************)
(* What a store may rely on when it leaves its garbage to an epoch domain: *)
(* an entry that is retired is not freed before every thread that was      *)
(* inside a critical section at that moment has left it.  How the domain   *)
(* finds that out, by epochs, announcements and cutoffs, is not visible.   *)
(***************************************************************************)
CONSTANTS
    Threads,  \* threads that enter critical sections
    Entries   \* what can be retired

VARIABLES
    inside,   \* the threads in a critical section
    waits     \* for each retired entry, whom it waits for

grace == <<inside, waits>>

Retired == DOMAIN waits

\* Nobody who is inside now was so when the entry was retired.
Expired(e) == e \in Retired /\ waits[e] = {}

Init ==
    /\ inside = {}
    /\ waits = [e \in {} |-> {}]

Enter(t) ==
    /\ t \notin inside
    /\ inside' = inside \union {t}
    /\ UNCHANGED waits

Leave(t) ==
    /\ t \in inside
    /\ inside' = inside \ {t}
    /\ waits' = [e \in Retired |-> waits[e] \ {t}]

\* Only a thread that is inside itself retires something, and nothing twice.
Retire(e) ==
    /\ inside # {}
    /\ e \notin Retired
    /\ waits' = [d \in Retired \union {e} |-> IF d = e THEN inside ELSE waits[d]]
    /\ UNCHANGED inside

\* The deleters of all entries in E run.
Free(E) ==
    /\ \A e \in E : Expired(e)
    /\ waits' = [d \in Retired \ E |-> waits[d]]
    /\ UNCHANGED inside

Next ==
    \/ \E t \in Threads : Enter(t) \/ Leave(t)
    \/ \E e \in Entries : Retire(e)
    \/ \E E \in SUBSET Retired : Free(E)

Spec == Init /\ [][Next]_grace

=============================================================================
