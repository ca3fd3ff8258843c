--------------------------- MODULE SyncExclusion ---------------------------
(***************************************************************************)
(* What the per-source locks of the scheduler promise: a source is synced  *)
(* by one goroutine at a time.  The promise is given up for a source once  *)
(* its lock has been thrown away ("retired").                              *)
(***************************************************************************)
CONSTANTS
    Sources,    \* calendar sources
    Routines    \* goroutines that sync sources

VARIABLES
    running,    \* running[s]: the goroutines inside a sync of s
    retired     \* sources the promise no longer covers

xvars == <<running, retired>>

Init ==
    /\ running = [s \in Sources |-> {}]
    /\ retired = {}

Begin(s, r) ==
    /\ s \notin retired
    /\ running[s] = {}
    /\ running' = [running EXCEPT ![s] = {r}]
    /\ UNCHANGED retired

End(s, r) ==
    /\ running[s] = {r}
    /\ running' = [running EXCEPT ![s] = {}]
    /\ UNCHANGED retired

Retire(s) ==
    /\ s \notin retired
    /\ retired' = retired \cup {s}
    /\ running' = [running EXCEPT ![s] = {}]

Next ==
    \E s \in Sources :
        \/ Retire(s)
        \/ \E r \in Routines : Begin(s, r) \/ End(s, r)

Spec == Init /\ [][Next]_xvars
=============================================================================
